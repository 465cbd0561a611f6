-------------------------- MODULE NodeOutcomeProofs --------------------------
(***************************************************************************)
(* What Active and Inactive say of the machine and of the Node, and what   *)
(* the eviction achieves.  The three properties speak about the outcome of *)
(* an operation, and somebody else's operation on the same machine can     *)
(* undo it: they hold as long as no two managers are in an operation at    *)
(* once.  That is so with a single manager, however late it is, and with   *)
(* any number of managers that keep to their deadlines.                    *)
(***************************************************************************)
EXTENDS NodeLifecycleProofs

\* No two managers are inside of launchNode or deprecateNode.
OneAtWork ==
  \A m, n \in Managers : pc[m] = "work" /\ pc[n] = "work" => m = n

\* Nobody outlasts its deadline, or the deletion of its object.
EverybodyInTime == \A m \in Managers : pc[m] = "work" => Working(m)

-----------------------------------------------------------------------------
(***************************************************************************)
(* The inductive invariant.                                                *)
(***************************************************************************)
Achieved == { NodeActive, NodeInactive }

\* A cached Node of the stored version is the stored Node.
NodeCopiesAgree ==
  \A m \in Managers : ncache[m].ver = "current" => ncache[m] = node

AtRest == \A m \in Managers : pc[m] # "work"

\* The machine and the Node are what status s says, and nobody is about to
\* change them.
Reached(s) ==
  /\ s = NodeActive => node.exists
  /\ s = NodeInactive /\ ~Unreachable => host = "out" /\ ~node.exists
  /\ AtRest

\* A status without deadline is true.
StatusIsTrue ==
  obj.status \in Achieved /\ obj.deadline = NoDeadline => Reached(obj.status)

\* So is the one that finalize is about to write, if it can; and then the
\* Node that was launched has the labels that the spec has now.
ResultIsTrue ==
  \A m \in Managers :
    res[m] \in Achieved =>
      /\ pc[m] = "finalize"
      /\ Current(m) => Reached(res[m]) /\ (res[m] = NodeActive => decorated)

\* The other writes report nothing that is not in the object already.
UpdateIsOld ==
  \A m \in Managers :
    /\ pc[m] = "update" /\ Current(m)
    /\ loc[m].status \in Achieved /\ loc[m].deadline = NoDeadline
    => obj.status = loc[m].status /\ obj.deadline = NoDeadline

\* What a deprecation under way has done so far.
DeprecationSoFar ==
  \A m \in Managers : pc[m] = "work" /\ loc[m].spec = NodeInactive =>
    /\ step[m] = "delete" /\ ~Unreachable => host = "out"
    /\ IsEvicted /\ step[m] \in { "disjoin", "delete" } /\ node.cordoned => ~pods

OutcomeInv ==
  /\ NodeCopiesAgree
  /\ StatusIsTrue
  /\ ResultIsTrue
  /\ UpdateIsOld
  /\ DeprecationSoFar

-----------------------------------------------------------------------------
(***************************************************************************)
(* Facts about the steps.                                                  *)
(***************************************************************************)

\* The statuses an operation ends in: a failure is no achievement.
LEMMA OutcomeFacts ==
  ASSUME NEW c, c.spec \in { NodeActive, NodeInactive }, NEW success \in BOOLEAN
  PROVE  /\ success => Outcome(c, success) = c.spec
         /\ ~success => Outcome(c, success) \notin Achieved
  BY DEF Outcome, Achieved, NodeActive, NodeInactive, NodeLaunchFail, NodeDeprecateFail

\* No status but that of an operation that was successful says Active or
\* Inactive, except for the fallback.
LEMMA PlainStatuses ==
  /\ NodeUnknown \notin Achieved
  /\ NodeInit \notin Achieved
  /\ Intermediate \cap Achieved = {}
  /\ NodeActive # NodeInactive
  BY DEF Achieved, Intermediate, NodeUnknown, NodeInit, NodeActive, NodeInactive,
         NodeLaunching, NodeDeprecating

\* A refused spec does not make the status Active or Inactive.
LEMMA RefusedStatuses ==
  ASSUME NEW c, RefusedStatus(c) \in Achieved
  PROVE  RefusedStatus(c) = c.status
  BY DEF RefusedStatus, Achieved, NodeActive, NodeInactive, NodeLaunchFail, NodeDeprecateFail

\* The return of an operation.
LEMMA FinishFacts ==
  ASSUME TypeOK, NEW m \in Managers, NEW success \in BOOLEAN, NEW failed \in BOOLEAN,
         Finish(m, success, failed)
  PROVE  /\ UNCHANGED <<obj, loc>>
         /\ pc[m] = "work"
         /\ pc'[m] \in { "finalize", "prepare" }
         /\ ~failed => pc'[m] = "finalize"
         /\ res'[m] = Outcome(loc[m], success)
         /\ \A n \in Managers \ { m } : pc'[n] = pc[n] /\ res'[n] = res[n]
  BY DEF Finish, WorkDone, FailAttempt, TypeOK

\* Nothing is said of the machine while somebody works on it.
LEMMA NothingReported ==
  ASSUME OutcomeInv, NEW m \in Managers, pc[m] = "work"
  PROVE  /\ ~ (obj.status \in Achieved /\ obj.deadline = NoDeadline)
         /\ \A n \in Managers : res[n] \in Achieved => pc[n] = "finalize" /\ ~Current(n)
  BY DEF OutcomeInv, StatusIsTrue, ResultIsTrue, Reached, AtRest

\* A step inside of an operation: what is left to show is what it does to
\* the Node and what the operation has done so far.
LEMMA GoToOutcome ==
  ASSUME OutcomeInv, NEW m \in Managers, pc[m] = "work", UNCHANGED vars
  PROVE  StatusIsTrue' /\ ResultIsTrue' /\ UpdateIsOld'
<1>1. UNCHANGED <<obj, pc, loc, res>>
  BY DEF vars
<1> QED
  BY <1>1, NothingReported DEF OutcomeInv, StatusIsTrue, ResultIsTrue, UpdateIsOld, Current

\* The return of an operation: its result has to be true, and that is all.
LEMMA FinishOutcome ==
  ASSUME TypeOK, LockInv, OutcomeInv, OneAtWork, NEW m \in Managers,
         NEW success \in BOOLEAN, NEW failed \in BOOLEAN, Finish(m, success, failed),
         success =>
           /\ ~failed
           /\ loc[m].spec = NodeActive => node'.exists /\ (Current(m) => decorated')
           /\ loc[m].spec = NodeInactive /\ ~Unreachable => host' = "out" /\ ~node'.exists
  PROVE  StatusIsTrue' /\ ResultIsTrue' /\ UpdateIsOld' /\ DeprecationSoFar'
<1>1. /\ UNCHANGED <<obj, loc>>
      /\ pc[m] = "work"
      /\ pc'[m] \in { "finalize", "prepare" }
      /\ ~failed => pc'[m] = "finalize"
      /\ res'[m] = Outcome(loc[m], success)
      /\ \A n \in Managers \ { m } : pc'[n] = pc[n] /\ res'[n] = res[n]
  BY FinishFacts
<1>2. AtRest'
  BY <1>1 DEF AtRest, OneAtWork
<1>3. loc[m].spec \in { NodeActive, NodeInactive }
  BY <1>1 DEF LockInv, CopiesAgree, Operating
<1>4. StatusIsTrue'
  BY <1>1, NothingReported DEF StatusIsTrue
<1>5. ResultIsTrue'
  <2> SUFFICES ASSUME NEW n \in Managers, res'[n] \in Achieved
               PROVE  /\ pc'[n] = "finalize"
                      /\ Current(n)' => Reached(res[n])' /\ (res'[n] = NodeActive => decorated')
    BY DEF ResultIsTrue
  <2>1. CASE n # m
    BY <1>1, <2>1, NothingReported DEF Current
  <2>2. CASE n = m
    <3>1. /\ success => Outcome(loc[m], success) = loc[m].spec
          /\ ~success => Outcome(loc[m], success) \notin Achieved
      BY <1>3, OutcomeFacts
    <3>2. success /\ res'[m] = loc[m].spec
      BY <1>1, <2>2, <3>1
    <3> QED
      BY <1>1, <1>2, <2>2, <3>2 DEF Reached, Current
  <2> QED
    BY <2>1, <2>2
<1>6. UpdateIsOld'
  BY <1>1 DEF OutcomeInv, UpdateIsOld, Current
<1>7. DeprecationSoFar'
  BY <1>2 DEF DeprecationSoFar, AtRest
<1> QED
  BY <1>4, <1>5, <1>6, <1>7

\* After a write of the Node no cached copy of it is current.
LEMMA NodeBecomesOutdates ==
  ASSUME LifecycleTypeOK, NEW n, NEW v \in { "stale", "gone" }, NodeBecomes(n, v)
  PROVE  NodeCopiesAgree'
<1>1. \A m \in Managers : ncache'[m].ver # "current"
  BY DEF NodeBecomes, Outdated, LifecycleTypeOK, NodeCopy
<1> QED
  BY <1>1 DEF NodeCopiesAgree

-----------------------------------------------------------------------------
(***************************************************************************)
(* The steps of launchNode and deprecateNode.                              *)
(***************************************************************************)

\* A step inside of an operation, with what it does to the Node.
LEMMA InsideStep ==
  ASSUME TypeOK, LifecycleTypeOK, OutcomeInv, OneAtWork, NEW m \in Managers, pc[m] = "work",
         NEW s \in Steps, GoTo(m, s), NodeCopiesAgree',
         loc[m].spec = NodeInactive =>
           /\ s = "delete" /\ ~Unreachable => host' = "out"
           /\ IsEvicted /\ s \in { "disjoin", "delete" } /\ node'.cordoned => ~pods'
  PROVE  OutcomeInv'
<1>1. UNCHANGED vars /\ step'[m] = s
  BY DEF GoTo, LifecycleTypeOK
<1>2. StatusIsTrue' /\ ResultIsTrue' /\ UpdateIsOld'
  BY <1>1, GoToOutcome
<1>3. pc' = pc /\ loc' = loc
  BY <1>1 DEF vars
<1>4. DeprecationSoFar'
  BY <1>1, <1>3 DEF DeprecationSoFar, OneAtWork
<1> QED
  BY <1>2, <1>4 DEF OutcomeInv

\* The return of an operation, with what it leaves of the Node.
LEMMA ReturnStep ==
  ASSUME TypeOK, LockInv, OutcomeInv, OneAtWork, NEW m \in Managers,
         NEW failed \in BOOLEAN, Finish(m, FALSE, failed), NodeCopiesAgree'
  PROVE  OutcomeInv'
BY FinishOutcome DEF OutcomeInv

\* Labels reach the Node or the launch has failed.
LEMMA LaunchOutcome ==
  ASSUME TypeOK, LockInv, LifecycleTypeOK, OutcomeInv, OneAtWork,
         NEW m \in Managers, launchNode(m)
  PROVE  OutcomeInv'
<1>0. NodeActive # NodeInactive
  BY PlainStatuses
<1>1. CASE LaunchByCmd(m)
  <2>1. NodeCopiesAgree'
    BY <1>1 DEF LaunchByCmd, OutcomeInv, NodeCopiesAgree
  <2>2. pc[m] = "work" /\ loc[m].spec = NodeActive /\ \E s \in { "watch", "failed" } : GoTo(m, s)
    BY <1>1 DEF LaunchByCmd, At
  <2> QED
    BY <1>0, <2>1, <2>2, InsideStep DEF Steps
<1>2. CASE LaunchFails(m)
  <2>1. NodeCopiesAgree'
    BY <1>2 DEF LaunchFails, OutcomeInv, NodeCopiesAgree
  <2> QED
    BY <1>2, <2>1, ReturnStep DEF LaunchFails
<1>3. CASE WatchCached(m)
  <2>1. NodeCopiesAgree'
    BY <1>3 DEF WatchCached, OutcomeInv, NodeCopiesAgree
  <2>2. pc[m] = "work" /\ loc[m].spec = NodeActive /\ \E s \in { "decorate", "watching" } : GoTo(m, s)
    BY <1>3 DEF WatchCached, At
  <2> QED
    BY <1>0, <2>1, <2>2, InsideStep DEF Steps
<1>4. CASE WatchEvent(m)
  <2>1. NodeCopiesAgree'
    BY <1>4 DEF WatchEvent, OutcomeInv, NodeCopiesAgree
  <2>2. pc[m] = "work" /\ loc[m].spec = NodeActive
    BY <1>4 DEF WatchEvent, At
  <2>3. GoTo(m, "decorate") \/ Finish(m, FALSE, FALSE)
    BY <1>4 DEF WatchEvent
  <2> QED
    BY <1>0, <2>1, <2>2, <2>3, InsideStep, ReturnStep DEF Steps
<1>5. CASE Decorate(m)
  <2>1. CASE /\ ncache[m].exists /\ ncache[m].ver = "current"
             /\ NodeBecomes(node, "stale")
             /\ loc[m].ver = "current" => decorated'
    <3>1. NodeCopiesAgree'
      BY <2>1, NodeBecomesOutdates
    <3>2. node'.exists /\ (Current(m) => decorated')
      BY <2>1 DEF OutcomeInv, NodeCopiesAgree, NodeBecomes, Current
    <3>3. loc[m].spec = NodeActive
      BY <1>5 DEF Decorate, At
    <3>4. CASE Finish(m, TRUE, FALSE)
      <4>1. StatusIsTrue' /\ ResultIsTrue' /\ UpdateIsOld' /\ DeprecationSoFar'
        BY <1>0, <3>2, <3>3, <3>4, FinishOutcome
      <4> QED
        BY <3>1, <4>1 DEF OutcomeInv
    <3>5. CASE Finish(m, FALSE, TRUE)
      BY <3>1, <3>5, ReturnStep
    <3> QED
      BY <1>5, <3>4, <3>5 DEF Decorate
  <2>2. CASE UNCHANGED <<node, ncache>> /\ Finish(m, FALSE, TRUE)
    <3>1. NodeCopiesAgree'
      BY <2>2 DEF OutcomeInv, NodeCopiesAgree
    <3> QED
      BY <2>2, <3>1, ReturnStep
  <2> QED
    BY <1>5, <2>1, <2>2 DEF Decorate
<1> QED
  BY <1>1, <1>2, <1>3, <1>4, <1>5 DEF launchNode

\* The Node is gone and the machine reset or the deprecation has failed.
LEMMA DeprecateOutcome ==
  ASSUME TypeOK, LockInv, LifecycleTypeOK, OutcomeInv, OneAtWork,
         NEW m \in Managers, deprecateNode(m)
  PROVE  OutcomeInv'
<1>0. ASSUME UNCHANGED <<node, ncache>> PROVE NodeCopiesAgree'
  BY <1>0 DEF OutcomeInv, NodeCopiesAgree
<1>1. CASE GetNode(m)
  <2>1. NodeCopiesAgree'
    BY <1>0, <1>1 DEF GetNode
  <2>2. CASE Finish(m, FALSE, TRUE)
    BY <2>1, <2>2, ReturnStep
  <2>3. CASE IsEvicted /\ GoTo(m, "cordon")
    BY <1>1, <2>1, <2>3, InsideStep DEF GetNode, At, Steps
  <2>4. CASE ~IsEvicted /\ GoTo(m, "disjoin")
    BY <1>1, <2>1, <2>4, InsideStep DEF GetNode, At, Steps
  <2> QED
    BY <1>1, <2>2, <2>3, <2>4 DEF GetNode
<1>2. CASE Cordon(m)
  <2>1. NodeCopiesAgree'
    BY <1>0, <1>2, NodeBecomesOutdates DEF Cordon
  <2>2. CASE GoTo(m, "evict")
    BY <1>2, <2>1, <2>2, InsideStep DEF Cordon, At, Steps
  <2>3. CASE Finish(m, FALSE, FALSE)
    BY <2>1, <2>3, ReturnStep
  <2> QED
    BY <1>2, <2>2, <2>3 DEF Cordon
<1>3. CASE Evict(m)
  <2>1. NodeCopiesAgree'
    BY <1>0, <1>3 DEF Evict
  <2>2. CASE pods' = FALSE /\ GoTo(m, "disjoin")
    BY <1>3, <2>1, <2>2, InsideStep DEF Evict, At, Steps
  <2>3. CASE Finish(m, FALSE, FALSE)
    BY <2>1, <2>3, ReturnStep
  <2> QED
    BY <1>3, <2>2, <2>3 DEF Evict
<1>4. CASE Deprecate(m)
  <2>1. NodeCopiesAgree'
    BY <1>0, <1>4 DEF Deprecate
  <2>2. pc[m] = "work" /\ (IsEvicted /\ node'.cordoned => ~pods')
    BY <1>4 DEF Deprecate, At, OutcomeInv, DeprecationSoFar
  <2>3. CASE (host' = "out" \/ Unreachable) /\ GoTo(m, "delete")
    BY <2>1, <2>2, <2>3, InsideStep DEF Steps
  <2>4. CASE GoTo(m, "reset")
    BY <2>1, <2>2, <2>4, InsideStep DEF Steps
  <2> QED
    BY <1>4, <2>3, <2>4 DEF Deprecate
<1>5. CASE DeprecateFails(m)
  BY <1>0, <1>5, ReturnStep DEF DeprecateFails
<1>6. CASE DeleteNode(m)
  <2>1. NodeCopiesAgree'
    BY <1>0, <1>6, NodeBecomesOutdates DEF DeleteNode
  <2>2. CASE NodeBecomes(NoNode, "gone") /\ Finish(m, TRUE, FALSE)
    <3>1. loc[m].spec = NodeInactive /\ (~Unreachable => host' = "out")
      BY <1>6 DEF DeleteNode, At, OutcomeInv, DeprecationSoFar
    <3>2. ~node'.exists
      BY <2>2 DEF NodeBecomes, NoNode
    <3>3. StatusIsTrue' /\ ResultIsTrue' /\ UpdateIsOld' /\ DeprecationSoFar'
      BY <2>2, <3>1, <3>2, FinishOutcome, PlainStatuses
    <3> QED
      BY <2>1, <3>3 DEF OutcomeInv
  <2>3. CASE Finish(m, FALSE, TRUE)
    BY <2>1, <2>3, ReturnStep
  <2> QED
    BY <1>6, <2>2, <2>3 DEF DeleteNode
<1> QED
  BY <1>1, <1>2, <1>3, <1>4, <1>5, <1>6 DEF deprecateNode

-----------------------------------------------------------------------------
(***************************************************************************)
(* The cluster's own steps.                                                *)
(***************************************************************************)

\* The cluster gives no Node to a machine that was reset and takes neither
\* Node nor labels away.
LEMMA ClusterOutcome ==
  ASSUME LifecycleTypeOK, OutcomeInv, Cluster
  PROVE  OutcomeInv'
<1>0. UNCHANGED <<obj, pc, loc, res, host, step>>
  BY DEF Cluster, Register, Heartbeat, Schedule, DeliverNode, vars
<1>1. ASSUME NodeCopiesAgree',
             node.exists => node'.exists,
             decorated' = decorated,
             host = "out" /\ ~node.exists => ~node'.exists,
             node'.cordoned /\ (node.cordoned => ~pods) => ~pods'
      PROVE  OutcomeInv'
  <2>1. StatusIsTrue'
    BY <1>0, <1>1 DEF OutcomeInv, StatusIsTrue, Reached, AtRest
  <2>2. ResultIsTrue'
    BY <1>0, <1>1 DEF OutcomeInv, ResultIsTrue, Reached, AtRest, Current
  <2>3. UpdateIsOld'
    BY <1>0 DEF OutcomeInv, UpdateIsOld, Current
  <2>4. DeprecationSoFar'
    BY <1>0, <1>1 DEF OutcomeInv, DeprecationSoFar
  <2> QED
    BY <1>1, <2>1, <2>2, <2>3, <2>4 DEF OutcomeInv
<1>2. CASE Register
  <2>1. NodeCopiesAgree'
    BY <1>2, NodeBecomesOutdates DEF Register
  <2>2. /\ ~node'.cordoned /\ host = "joined" /\ ~node.exists /\ node'.exists
        /\ decorated' = decorated
    BY <1>2 DEF Register, NodeBecomes, NoNode
  <2> QED
    BY <1>1, <2>1, <2>2
<1>3. CASE \E ready \in Ready : Heartbeat(ready)
  <2>1. NodeCopiesAgree'
    BY <1>3, NodeBecomesOutdates DEF Heartbeat
  <2>2. /\ node'.exists = node.exists /\ node'.cordoned = node.cordoned
        /\ decorated' = decorated /\ pods' = pods
    BY <1>3 DEF Heartbeat, NodeBecomes, LifecycleTypeOK, NodeCopy
  <2> QED
    BY <1>1, <2>1, <2>2
<1>4. CASE Schedule
  <2>1. NodeCopiesAgree' /\ ~node'.cordoned /\ node' = node /\ decorated' = decorated
    BY <1>4 DEF Schedule, OutcomeInv, NodeCopiesAgree
  <2> QED
    BY <1>1, <2>1
<1>5. CASE \E m \in Managers : DeliverNode(m)
  <2>1. NodeCopiesAgree' /\ node' = node /\ pods' = pods /\ decorated' = decorated
    BY <1>5 DEF DeliverNode, OutcomeInv, NodeCopiesAgree, LifecycleTypeOK
  <2> QED
    BY <1>1, <2>1
<1> QED
  BY <1>2, <1>3, <1>4, <1>5 DEF Cluster

-----------------------------------------------------------------------------
(***************************************************************************)
(* The steps of Reconcile, of the process, of the user and of the clock.   *)
(***************************************************************************)

\* A step that leaves the object alone and begins no operation.
LEMMA QuietStep ==
  ASSUME OutcomeInv, obj' = obj, node' = node, decorated' = decorated, host' = host,
         pods' = pods, NodeCopiesAgree',
         \A n \in Managers : pc'[n] = "work" =>
            pc[n] = "work" /\ loc'[n].spec = loc[n].spec /\ step'[n] = step[n],
         \A n \in Managers : res'[n] \in Achieved =>
            /\ res'[n] = res[n]
            /\ pc[n] = "finalize" => pc'[n] = "finalize"
            /\ Current(n)' => Current(n),
         UpdateIsOld'
  PROVE  OutcomeInv'
<1>1. AtRest => AtRest'
  BY DEF AtRest
<1>2. StatusIsTrue'
  BY <1>1 DEF OutcomeInv, StatusIsTrue, Reached
<1>3. ResultIsTrue'
  BY <1>1 DEF OutcomeInv, ResultIsTrue, Reached
<1>4. DeprecationSoFar'
  BY DEF OutcomeInv, DeprecationSoFar
<1> QED
  BY <1>2, <1>3, <1>4 DEF OutcomeInv

\* A step that changes the object: nobody who read it before can write, and
\* it does not matter what labels it asks for now.
LEMMA WrittenStep ==
  ASSUME LifecycleTypeOK, OutcomeInv, UNCHANGED <<node, ncache, pods, host, step>>,
         StatusIsTrue',
         \A n \in Managers : Current(n)' => pc'[n] \notin { "update", "finalize" },
         \A n \in Managers : res'[n] \in Achieved => pc'[n] = "finalize",
         \A n \in Managers : pc'[n] = "work" => loc'[n].spec = loc[n].spec
  PROVE  OutcomeInv'
<1>1. NodeCopiesAgree'
  BY DEF OutcomeInv, NodeCopiesAgree
<1>2. ResultIsTrue' /\ UpdateIsOld'
  BY DEF ResultIsTrue, UpdateIsOld
<1>3. DeprecationSoFar'
  <2> SUFFICES ASSUME NEW n \in Managers, pc'[n] = "work", loc'[n].spec = NodeInactive
               PROVE  /\ step'[n] = "delete" /\ ~Unreachable => host' = "out"
                      /\ IsEvicted /\ step'[n] \in { "disjoin", "delete" } /\ node'.cordoned
                           => ~pods'
    BY DEF DeprecationSoFar
  <2>1. CASE pc[n] = "work"
    BY <2>1 DEF OutcomeInv, DeprecationSoFar
  <2>2. CASE pc[n] # "work"
    BY <2>2 DEF LifecycleTypeOK
  <2> QED
    BY <2>1, <2>2
<1> QED
  BY <1>1, <1>2, <1>3 DEF OutcomeInv

\* The calls that begin: only what the object says already is going to be
\* written without a deadline.
LEMMA BeginOutcome ==
  ASSUME TypeOK, LockInv, OutcomeInv, NEW m \in Managers, UNCHANGED nodeVars,
         \/ ReconcileReturn(m) \/ ReconcileInit(m) \/ ReconcileFallback(m)
         \/ ReconcileRefuse(m) \/ ReconcileWork(m)
  PROVE  OutcomeInv'
<1>1. /\ obj' = obj /\ res' = res /\ pc[m] = "idle"
      /\ pc'[m] \in { "idle", "update", "prepare" }
      /\ \A n \in Managers \ { m } : pc'[n] = pc[n] /\ loc'[n] = loc[n]
  BY DEF ReconcileReturn, ReconcileInit, ReconcileFallback, ReconcileRefuse, ReconcileUpdate,
         ReconcileWork, Dequeue, TypeOK, mgr
<1>2. NodeCopiesAgree'
  BY DEF OutcomeInv, NodeCopiesAgree, nodeVars
<1>3. res[m] \notin Achieved
  BY <1>1 DEF OutcomeInv, ResultIsTrue
<1>4. ASSUME pc'[m] = "update", Current(m)', loc'[m].status \in Achieved,
             loc'[m].deadline = NoDeadline
      PROVE  obj.status = loc'[m].status /\ obj.deadline = NoDeadline
  <2>1. PICK status \in { NodeInit, getBeforeStatus(cache[m].status), RefusedStatus(cache[m]) } :
           /\ ReconcileUpdate(m, status)
           /\ \/ status = NodeInit
              \/ NeedsFallback(cache[m])
              \/ status = RefusedStatus(cache[m])
    BY <1>1, <1>4 DEF ReconcileReturn, ReconcileInit, ReconcileFallback, ReconcileRefuse,
                      ReconcileWork, TypeOK, mgr
  <2>2. /\ loc'[m].status = status
        /\ loc'[m].deadline = cache[m].deadline
        /\ loc'[m].ver = cache[m].ver
    BY <2>1 DEF ReconcileUpdate, TypeOK, Copy
  <2>3. cache[m] = obj
    BY <1>4, <2>2 DEF Current, LockInv, CopiesAgree
  <2>4. ~NeedsFallback(cache[m])
    BY <1>4, <2>2 DEF NeedsFallback, Expired, NoDeadline
  <2>5. status = RefusedStatus(cache[m])
    BY <1>4, <2>1, <2>2, <2>4, PlainStatuses
  <2>6. status = cache[m].status
    BY <1>4, <2>2, <2>5, RefusedStatuses
  <2> QED
    BY <1>4, <2>2, <2>3, <2>6
<1>5. UpdateIsOld'
  BY <1>1, <1>4 DEF OutcomeInv, UpdateIsOld, Current
<1> QED
  BY <1>1, <1>2, <1>3, <1>5, QuietStep DEF Current, nodeVars

\* A status that is written over another one without a deadline was there
\* before.
LEMMA UpdateOutcome ==
  ASSUME TypeOK, LockInv, LifecycleTypeOK, OutcomeInv, NEW m \in Managers, NEW r \in Reply,
         UpdateStatus(m, r), UNCHANGED nodeVars
  PROVE  OutcomeInv'
<1>1. /\ pc[m] = "update" /\ pc'[m] = "idle" /\ res'[m] = NodeUnknown
      /\ \A n \in Managers \ { m } : pc'[n] = pc[n] /\ res'[n] = res[n]
  BY DEF UpdateStatus, Return, TypeOK
<1>2. NodeCopiesAgree'
  BY DEF OutcomeInv, NodeCopiesAgree, nodeVars
<1>3. CASE loc[m] = obj \/ r = "error"
  <2>1. obj' = obj /\ \A n \in Managers \ { m } : loc'[n] = loc[n]
    <3>1. CASE loc[m] = obj
      BY <3>1 DEF UpdateStatus, TypeOK
    <3>2. CASE loc[m] # obj
      BY <1>3, <3>2, RefusedFacts, ConstantCopies DEF UpdateStatus, TypeOK
    <3> QED
      BY <3>1, <3>2
  <2>2. UpdateIsOld'
    BY <1>1, <2>1 DEF OutcomeInv, UpdateIsOld, Current
  <2> QED
    BY <1>1, <1>2, <2>1, <2>2, QuietStep, PlainStatuses DEF Current, nodeVars
<1>4. CASE loc[m] # obj /\ r # "error"
  <2>1. /\ loc[m].ver = "current"
        /\ obj'.status = loc[m].status
        /\ obj'.deadline = loc[m].deadline
        /\ \A n \in Managers \ { m } :
             loc'[n].ver # "current" /\ loc'[n].spec = loc[n].spec
    BY <1>4, AppliedFacts, ConstantCopies DEF UpdateStatus, TypeOK
  <2>2. AtRest => AtRest'
    BY <1>1 DEF AtRest
  <2>3. StatusIsTrue'
    <3> SUFFICES ASSUME obj'.status \in Achieved, obj'.deadline = NoDeadline
                 PROVE  Reached(obj.status)'
      BY DEF StatusIsTrue
    <3>1. obj.status = obj'.status /\ obj.deadline = NoDeadline
      BY <1>1, <2>1 DEF OutcomeInv, UpdateIsOld, Current
    <3> QED
      BY <2>2, <3>1 DEF OutcomeInv, StatusIsTrue, Reached, nodeVars
  <2>4. \A n \in Managers : Current(n)' => pc'[n] \notin { "update", "finalize" }
    BY <1>1, <2>1 DEF Current
  <2>5. \A n \in Managers : res'[n] \in Achieved => pc'[n] = "finalize"
    BY <1>1, PlainStatuses DEF OutcomeInv, ResultIsTrue
  <2>6. \A n \in Managers : pc'[n] = "work" => loc'[n].spec = loc[n].spec
    BY <1>1, <2>1
  <2> QED
    BY <2>3, <2>4, <2>5, <2>6, WrittenStep DEF nodeVars
<1> QED
  BY <1>3, <1>4

\* An operation that begins is announced first: no status then says that
\* anything was achieved.
LEMMA PrepareOutcome ==
  ASSUME TypeOK, LockInv, LifecycleTypeOK, OutcomeInv, NEW m \in Managers, NEW r \in Reply,
         Prepare(m, r), UNCHANGED nodeVars
  PROVE  OutcomeInv'
<1> DEFINE c == Prepared(loc[m])
           next == IF r = "lost" THEN [c EXCEPT !.ver = "stale"] ELSE c
<1>1. /\ Announce(loc[m]) \in Intermediate
      /\ c \in Copy /\ next \in Copy
      /\ c.status = Announce(loc[m])
      /\ next.spec = loc[m].spec
      /\ r = "lost" => next.ver = "stale"
  <2>1. Announce(loc[m]) \in Intermediate /\ Announce(loc[m]) \in NodeStatus
    BY StatusTypes DEF TypeOK, Intermediate, NodeStatus
  <2> QED
    BY <2>1, TimeLeftTypes DEF Prepared, TypeOK, Copy, Version
<1>2. StatusUpdate(m, c, r, next)
  BY DEF Prepare
<1>3. /\ pc[m] = "prepare" /\ res' = res
      /\ pc'[m] \in { "prepare", "work", "finalize" }
      /\ pc'[m] = "work" <=> r = "ok"
      /\ \A n \in Managers \ { m } : pc'[n] = pc[n]
  BY DEF Prepare, FailAttempt, TypeOK
<1>4. res[m] \notin Achieved
  BY <1>3 DEF OutcomeInv, ResultIsTrue
<1>5. NodeCopiesAgree'
  BY DEF OutcomeInv, NodeCopiesAgree, nodeVars
<1> HIDE DEF c, next
<1>6. CASE r = "error"
  <2>1. obj' = obj /\ \A n \in Managers \ { m } : loc'[n] = loc[n]
    BY <1>1, <1>2, <1>6, RefusedFacts
  <2>2. UpdateIsOld'
    BY <1>3, <2>1 DEF OutcomeInv, UpdateIsOld, Current
  <2> QED
    BY <1>3, <1>4, <1>5, <1>6, <2>1, <2>2, QuietStep DEF Current, nodeVars
<1>7. CASE r # "error"
  <2>1. /\ obj'.status = c.status
        /\ loc'[m] = next
        /\ \A n \in Managers \ { m } :
             loc'[n].ver # "current" /\ loc'[n].spec = loc[n].spec
    BY <1>1, <1>2, <1>7, AppliedFacts
  <2>2. StatusIsTrue'
    BY <1>1, <2>1, PlainStatuses DEF StatusIsTrue
  <2>3. \A n \in Managers : Current(n)' => pc'[n] \notin { "update", "finalize" }
    BY <1>1, <1>3, <1>7, <2>1 DEF Current, Reply
  <2>4. \A n \in Managers : res'[n] \in Achieved => pc'[n] = "finalize"
    BY <1>3, <1>4 DEF OutcomeInv, ResultIsTrue
  <2>5. \A n \in Managers : pc'[n] = "work" => loc'[n].spec = loc[n].spec
    BY <1>1, <2>1
  <2> QED
    BY <2>2, <2>3, <2>4, <2>5, WrittenStep DEF nodeVars
<1> QED
  BY <1>6, <1>7

\* finalize writes what is true, or is refused.
LEMMA FinalizeOutcome ==
  ASSUME TypeOK, LockInv, LifecycleTypeOK, OutcomeInv, NEW m \in Managers, NEW r \in Reply,
         Finalize(m, r), UNCHANGED nodeVars
  PROVE  OutcomeInv'
<1>1. /\ pc[m] = "finalize" /\ pc'[m] = "idle" /\ res'[m] = NodeUnknown
      /\ \A n \in Managers \ { m } : pc'[n] = pc[n] /\ res'[n] = res[n]
  BY DEF Finalize, Return, TypeOK
<1>2. NodeCopiesAgree'
  BY DEF OutcomeInv, NodeCopiesAgree, nodeVars
<1>3. /\ Finalized(m) \in Copy
      /\ Finalized(m).ver = loc[m].ver
      /\ Finalized(m).status = res[m]
      /\ StatusUpdate(m, Finalized(m), r, NoCopy)
  BY TimeLeftTypes DEF Finalize, Finalized, TypeOK, Copy
<1>4. CASE r = "error"
  <2>1. obj' = obj /\ \A n \in Managers \ { m } : loc'[n] = loc[n]
    BY <1>3, <1>4, RefusedFacts, ConstantCopies
  <2>2. UpdateIsOld'
    BY <1>1, <2>1 DEF OutcomeInv, UpdateIsOld, Current
  <2> QED
    BY <1>1, <1>2, <2>1, <2>2, QuietStep, PlainStatuses DEF Current, nodeVars
<1>5. CASE r # "error"
  <2>1. /\ loc[m].ver = "current"
        /\ obj'.status = res[m]
        /\ \A n \in Managers \ { m } :
             loc'[n].ver # "current" /\ loc'[n].spec = loc[n].spec
    BY <1>3, <1>5, AppliedFacts, ConstantCopies
  <2>2. AtRest => AtRest'
    BY <1>1 DEF AtRest
  <2>3. StatusIsTrue'
    <3> SUFFICES ASSUME res[m] \in Achieved PROVE Reached(obj.status)'
      BY <2>1 DEF StatusIsTrue
    <3>1. Reached(res[m])
      BY <2>1 DEF OutcomeInv, ResultIsTrue, Current
    <3> QED
      BY <2>1, <2>2, <3>1 DEF Reached, nodeVars
  <2>4. \A n \in Managers : Current(n)' => pc'[n] \notin { "update", "finalize" }
    BY <1>1, <2>1 DEF Current
  <2>5. \A n \in Managers : res'[n] \in Achieved => pc'[n] = "finalize"
    BY <1>1, PlainStatuses DEF OutcomeInv, ResultIsTrue
  <2>6. \A n \in Managers : pc'[n] = "work" => loc'[n].spec = loc[n].spec
    BY <1>1, <2>1
  <2> QED
    BY <2>3, <2>4, <2>5, <2>6, WrittenStep DEF nodeVars
<1> QED
  BY <1>4, <1>5

\* The informer, and a process that dies or starts.
LEMMA ProcessOutcome ==
  ASSUME TypeOK, LifecycleTypeOK, OutcomeInv, NEW m \in Managers,
         \/ (Deliver(m) \/ Resync(m)) /\ UNCHANGED nodeVars
         \/ CrashAll(m) \/ RestartAll(m)
  PROVE  OutcomeInv'
<1>1. /\ UNCHANGED <<obj, node, decorated, host, pods>>
      /\ \A n \in Managers \ { m } :
           pc'[n] = pc[n] /\ loc'[n] = loc[n] /\ res'[n] = res[n] /\ step'[n] = step[n]
      /\ \/ pc'[m] \in { "down", "idle" } /\ res'[m] \in { NodeUnknown, res[m] }
            /\ (pc[m] = "finalize" => res'[m] = NodeUnknown)
         \/ pc' = pc /\ loc' = loc /\ res' = res /\ step' = step
  BY DEF Deliver, Resync, CrashAll, Crash, RestartAll, Restart, TypeOK, LifecycleTypeOK, mgr,
         nodeVars
<1>2. NodeCopiesAgree'
  BY DEF Deliver, Resync, CrashAll, RestartAll, OutcomeInv, NodeCopiesAgree, LifecycleTypeOK,
         nodeVars
<1>3. UpdateIsOld'
  BY <1>1 DEF OutcomeInv, UpdateIsOld, Current
<1>4. \A n \in Managers : pc'[n] = "work" =>
         pc[n] = "work" /\ loc'[n].spec = loc[n].spec /\ step'[n] = step[n]
  BY <1>1
<1>5. \A n \in Managers : res'[n] \in Achieved =>
         /\ res'[n] = res[n]
         /\ pc[n] = "finalize" => pc'[n] = "finalize"
         /\ Current(n)' => Current(n)
  BY <1>1, PlainStatuses DEF OutcomeInv, ResultIsTrue, Current
<1> QED
  BY <1>1, <1>2, <1>3, <1>4, <1>5, QuietStep

\* The user: an edit keeps the status, a new object has none.
LEMMA UserOutcome ==
  ASSUME TypeOK, LockInv, LifecycleTypeOK, OutcomeInv, UserAll
  PROVE  OutcomeInv'
<1>0. pc' = pc /\ res' = res /\ UNCHANGED <<node, ncache, pods, host, step>>
  BY DEF UserAll, User, EditSpec, Create, Delete, mgr
<1>1. \A n \in Managers : res'[n] \in Achieved => pc'[n] = "finalize"
  BY <1>0 DEF OutcomeInv, ResultIsTrue
<1>2. ASSUME NEW s \in Targets, NEW v \in Validity, EditSpec(s, v) PROVE OutcomeInv'
  <2>1. obj'.status = obj.status /\ obj'.deadline = obj.deadline
    BY <1>2 DEF EditSpec, TypeOK, Copy
  <2>2. StatusIsTrue'
    BY <1>0, <2>1 DEF OutcomeInv, StatusIsTrue, Reached, AtRest
  <2>3. \A n \in Managers : ~Current(n)' /\ loc'[n].spec = loc[n].spec
    BY <1>2, OutdatedCopies, OutdatedVersions DEF EditSpec, TypeOK, Current
  <2> QED
    BY <1>0, <1>1, <2>2, <2>3, WrittenStep
<1>3. ASSUME NEW s \in Targets, NEW v \in Validity, Create(s, v) PROVE OutcomeInv'
  <2>1. StatusIsTrue'
    BY <1>3, FreshFacts, PlainStatuses DEF Create, StatusIsTrue
  <2>2. loc' = loc /\ ~obj.exists
    BY <1>3 DEF Create, mgr
  <2>3. \A n \in Managers : Current(n)' => pc'[n] \notin { "update", "finalize" }
    BY <1>0, <2>2 DEF LockInv, CopiesAgree, Current, Operating
  <2> QED
    BY <1>0, <1>1, <2>1, <2>2, <2>3, WrittenStep
<1>4. CASE Delete
  <2>1. StatusIsTrue'
    BY <1>4, FreshFacts, PlainStatuses DEF Delete, StatusIsTrue
  <2>2. \A n \in Managers : ~Current(n)' /\ loc'[n].spec = loc[n].spec
    BY <1>4, OutdatedCopies, OutdatedVersions DEF Delete, TypeOK, Current
  <2> QED
    BY <1>0, <1>1, <2>1, <2>2, WrittenStep
<1> QED
  BY <1>2, <1>3, <1>4 DEF UserAll, User

\* The clock takes no deadline away and brings none.
LEMMA TickOutcome ==
  ASSUME TypeOK, OutcomeInv, Tick, UNCHANGED nodeVars
  PROVE  OutcomeInv'
<1>1. /\ UNCHANGED <<pc, res>>
      /\ obj'.status = obj.status
      /\ obj'.deadline = NoDeadline <=> obj.deadline = NoDeadline
  BY AgeNone DEF Tick, TypeOK, Copy
<1>2. \A n \in Managers :
        /\ loc'[n].status = loc[n].status
        /\ loc'[n].spec = loc[n].spec
        /\ loc'[n].ver = loc[n].ver
        /\ loc'[n].deadline = NoDeadline <=> loc[n].deadline = NoDeadline
  BY AgeNone DEF Tick, TypeOK, Copy
<1>3. NodeCopiesAgree'
  BY DEF OutcomeInv, NodeCopiesAgree, nodeVars
<1>4. StatusIsTrue'
  BY <1>1 DEF OutcomeInv, StatusIsTrue, Reached, AtRest, nodeVars
<1>5. ResultIsTrue'
  BY <1>1, <1>2 DEF OutcomeInv, ResultIsTrue, Reached, AtRest, Current, nodeVars
<1>6. UpdateIsOld'
  BY <1>1, <1>2 DEF OutcomeInv, UpdateIsOld, Current
<1>7. DeprecationSoFar'
  BY <1>1, <1>2 DEF OutcomeInv, DeprecationSoFar, nodeVars
<1> QED
  BY <1>3, <1>4, <1>5, <1>6, <1>7 DEF OutcomeInv

-----------------------------------------------------------------------------
(***************************************************************************)
(* The theorems.                                                           *)
(***************************************************************************)

\* A new object has no status, and nobody has done anything.
LEMMA OutcomeInit == LifecycleInit => OutcomeInv
<1> SUFFICES ASSUME LifecycleInit PROVE OutcomeInv
  OBVIOUS
<1>1. obj.status \notin Achieved
  BY FreshFacts, PlainStatuses DEF LifecycleInit, Init
<1>2. \A m \in Managers : pc[m] = "idle" /\ res[m] \notin Achieved /\ ncache[m] = node
  BY PlainStatuses DEF LifecycleInit, Init
<1> QED
  BY <1>1, <1>2 DEF OutcomeInv, NodeCopiesAgree, StatusIsTrue, ResultIsTrue, UpdateIsOld,
                    DeprecationSoFar

\* Every step keeps the invariant while nobody else is in an operation.
LEMMA OutcomeNext ==
  ASSUME TypeOK, LockInv, LifecycleTypeOK, OutcomeInv, OneAtWork,
         [LifecycleNext]_<<vars, nodeVars>>
  PROVE  OutcomeInv'
<1>1. ASSUME NEW m \in Managers, Reconcile(m), UNCHANGED nodeVars PROVE OutcomeInv'
  BY <1>1, BeginOutcome, UpdateOutcome, PrepareOutcome, FinalizeOutcome DEF Reconcile
<1>2. ASSUME UNCHANGED <<vars, nodeVars>> PROVE OutcomeInv'
  BY <1>2 DEF OutcomeInv, NodeCopiesAgree, StatusIsTrue, ResultIsTrue, UpdateIsOld,
              DeprecationSoFar, Reached, AtRest, Current, vars, nodeVars
<1> QED
  BY <1>1, <1>2, LaunchOutcome, DeprecateOutcome, ClusterOutcome, ProcessOutcome, UserOutcome,
     TickOutcome DEF LifecycleNext

\* The invariant holds as long as no two managers are in an operation.
THEOREM OutcomeHolds == LifecycleSpec /\ []OneAtWork => []OutcomeInv
<1>1. LifecycleInit => OutcomeInv
  BY OutcomeInit
<1>2. /\ TypeOK /\ LockInv /\ LifecycleTypeOK /\ OutcomeInv /\ OneAtWork
      /\ [LifecycleNext]_<<vars, nodeVars>>
      => OutcomeInv'
  BY OutcomeNext
<1>3. LifecycleSpec => []TypeOK /\ []LockInv
  BY Refinement, TypeCorrect, LockHolds, PTL DEF ControllerSpec
<1> QED
  BY <1>1, <1>2, <1>3, LifecycleTypeCorrect, PTL DEF LifecycleSpec

\* Only finalize makes an object read Active, and it is refused when the
\* spec has changed since the labels were written.
LEMMA BecomesActive ==
  ASSUME TypeOK, LockInv, LifecycleTypeOK, OutcomeInv, [LifecycleNext]_<<vars, nodeVars>>,
         ReadsActive', ~ReadsActive
  PROVE  decorated'
<1> USE DEF ReadsActive
<1>1. ASSUME obj'.status = obj.status, obj'.deadline = NoDeadline <=> obj.deadline = NoDeadline
      PROVE  FALSE
  BY <1>1
<1>2. ASSUME NEW m \in Managers, NEW r \in Reply, Finalize(m, r), UNCHANGED nodeVars
      PROVE  decorated'
  <2>1. /\ pc[m] = "finalize"
        /\ Finalized(m) \in Copy
        /\ Finalized(m).ver = loc[m].ver
        /\ Finalized(m).status = res[m]
        /\ StatusUpdate(m, Finalized(m), r, NoCopy)
    BY <1>2, TimeLeftTypes DEF Finalize, Finalized, TypeOK, Copy
  <2>2. r # "error"
    BY <1>1, <2>1, RefusedFacts, ConstantCopies
  <2>3. loc[m].ver = "current" /\ obj'.status = res[m]
    BY <2>1, <2>2, AppliedFacts, ConstantCopies
  <2> QED
    BY <1>2, <2>3 DEF OutcomeInv, ResultIsTrue, Achieved, Current, nodeVars
<1>3. ASSUME NEW m \in Managers, NEW r \in Reply, Prepare(m, r) PROVE FALSE
  <2> DEFINE c == Prepared(loc[m])
             next == IF r = "lost" THEN [c EXCEPT !.ver = "stale"] ELSE c
  <2>1. /\ c \in Copy /\ next \in Copy
        /\ c.status \in Intermediate
    <3>1. Announce(loc[m]) \in Intermediate /\ Announce(loc[m]) \in NodeStatus
      BY StatusTypes DEF TypeOK, Intermediate, NodeStatus
    <3> QED
      BY <3>1, TimeLeftTypes DEF Prepared, TypeOK, Copy, Version
  <2>2. StatusUpdate(m, c, r, next)
    BY <1>3 DEF Prepare
  <2> HIDE DEF c, next
  <2>3. CASE r = "error"
    BY <1>1, <2>1, <2>2, <2>3, RefusedFacts
  <2>4. CASE r # "error"
    BY <2>1, <2>2, <2>4, AppliedFacts, PlainStatuses DEF Achieved
  <2> QED
    BY <2>3, <2>4
<1>4. ASSUME NEW m \in Managers, NEW r \in Reply, UpdateStatus(m, r) PROVE FALSE
  <2>1. CASE loc[m] = obj
    BY <1>1, <1>4, <2>1 DEF UpdateStatus
  <2>2. CASE loc[m] # obj /\ r = "error"
    BY <1>1, <1>4, <2>2, RefusedFacts, ConstantCopies DEF UpdateStatus, TypeOK
  <2>3. CASE loc[m] # obj /\ r # "error"
    <3>1. /\ pc[m] = "update" /\ loc[m].ver = "current"
          /\ obj'.status = loc[m].status /\ obj'.deadline = loc[m].deadline
      BY <1>4, <2>3, AppliedFacts, ConstantCopies DEF UpdateStatus, TypeOK
    <3> QED
      BY <3>1 DEF OutcomeInv, UpdateIsOld, Current, Achieved
  <2> QED
    BY <2>1, <2>2, <2>3
<1>5. ASSUME UserAll PROVE FALSE
  <2>1. ASSUME NEW s \in Targets, NEW v \in Validity, EditSpec(s, v) PROVE FALSE
    BY <1>1, <2>1 DEF EditSpec, TypeOK, Copy
  <2>2. ASSUME NEW s \in Targets, NEW v \in Validity, Create(s, v) PROVE FALSE
    BY <2>2, FreshFacts, PlainStatuses DEF Create, Achieved
  <2>3. ASSUME Delete PROVE FALSE
    BY <2>3, FreshFacts, PlainStatuses DEF Delete, Achieved
  <2> QED
    BY <1>5, <2>1, <2>2, <2>3 DEF UserAll, User
<1>6. ASSUME Tick PROVE FALSE
  BY <1>1, <1>6, AgeNone DEF Tick, TypeOK, Copy
<1>7. ASSUME obj' = obj PROVE FALSE
  BY <1>1, <1>7
<1>8. ASSUME NEW m \in Managers, launchNode(m) \/ deprecateNode(m) PROVE obj' = obj
  BY <1>8 DEF launchNode, LaunchByCmd, LaunchFails, WatchCached, WatchEvent, Decorate,
              deprecateNode, GetNode, Cordon, Evict, Deprecate, DeprecateFails, DeleteNode,
              Finish, WorkDone, GoTo, vars
<1>9. ASSUME Cluster PROVE obj' = obj
  BY <1>9 DEF Cluster, Register, Heartbeat, Schedule, DeliverNode, vars
<1>10. ASSUME NEW m \in Managers, Reconcile(m), UNCHANGED nodeVars PROVE decorated'
  <2>1. ASSUME \/ ReconcileReturn(m) \/ ReconcileInit(m) \/ ReconcileFallback(m)
               \/ ReconcileRefuse(m) \/ ReconcileWork(m)
        PROVE  obj' = obj
    BY <2>1 DEF ReconcileReturn, ReconcileInit, ReconcileFallback, ReconcileRefuse,
                ReconcileUpdate, ReconcileWork, mgr
  <2> QED
    BY <1>2, <1>3, <1>4, <1>7, <1>10, <2>1 DEF Reconcile
<1>11. ASSUME NEW m \in Managers, \/ Deliver(m) \/ Resync(m) \/ CrashAll(m) \/ RestartAll(m)
       PROVE  obj' = obj
  BY <1>11 DEF Deliver, Resync, CrashAll, Crash, RestartAll, Restart
<1>12. ASSUME UNCHANGED <<vars, nodeVars>> PROVE obj' = obj
  BY <1>12 DEF vars
<1> QED
  BY <1>5, <1>6, <1>7, <1>8, <1>9, <1>10, <1>11, <1>12 DEF LifecycleNext

\* An object comes to read Active when its Node has the labels, taints and
\* annotations that its spec has at that moment, and has a Node ever after.
THEOREM ActiveCorrect == LifecycleSpec /\ []OneAtWork => ActiveIsDecorated
<1>1. /\ TypeOK /\ LockInv /\ LifecycleTypeOK /\ OutcomeInv /\ OutcomeInv'
      /\ [LifecycleNext]_<<vars, nodeVars>>
      => [ ReadsActive' => node'.exists /\ (~ReadsActive => decorated') ]_<<vars, nodeVars>>
  <2> SUFFICES ASSUME TypeOK, LockInv, LifecycleTypeOK, OutcomeInv, OutcomeInv',
                      [LifecycleNext]_<<vars, nodeVars>>, ReadsActive'
               PROVE  node'.exists /\ (~ReadsActive => decorated')
    OBVIOUS
  <2>1. node'.exists
    BY DEF OutcomeInv, StatusIsTrue, Reached, Achieved, ReadsActive
  <2> QED
    BY <2>1, BecomesActive
<1>2. LifecycleSpec => []TypeOK /\ []LockInv
  BY Refinement, TypeCorrect, LockHolds, PTL DEF ControllerSpec
<1> QED
  BY <1>1, <1>2, OutcomeHolds, LifecycleTypeCorrect, PTL DEF LifecycleSpec, ActiveIsDecorated

\* An object that reads Inactive without a deadline has a machine that was
\* reset and no Node, provided that the machine could be reached.
THEOREM InactiveCorrect ==
  ASSUME ~Unreachable
  PROVE  LifecycleSpec /\ []OneAtWork => []InactiveIsOut
<1>1. OutcomeInv => InactiveIsOut
  BY DEF OutcomeInv, StatusIsTrue, Reached, Achieved, InactiveIsOut
<1> QED
  BY <1>1, OutcomeHolds, PTL

\* With IsEvicted a Node that was cordoned is deleted without pods on it.
THEOREM DrainCorrect == LifecycleSpec /\ []OneAtWork => CordonedIsDrained
<1>1. OutcomeInv /\ LifecycleTypeOK /\ [LifecycleNext]_<<vars, nodeVars>> =>
        [ IsEvicted /\ node.exists /\ ~node'.exists /\ node.cordoned => ~pods
        ]_<<vars, nodeVars>>
  BY DeletionStep DEF At, OutcomeInv, DeprecationSoFar
<1> QED
  BY <1>1, OutcomeHolds, LifecycleTypeCorrect, PTL DEF LifecycleSpec, CordonedIsDrained

\* The Deployment's default of one replica: with a single manager the three
\* hold however late it is, through crashes, lost writes, edits, and objects
\* deleted and created again.
THEOREM SingleManager ==
  ASSUME \A m, n \in Managers : m = n
  PROVE  /\ LifecycleSpec => ActiveIsDecorated /\ CordonedIsDrained
         /\ ~Unreachable => (LifecycleSpec => []InactiveIsOut)
<1>1. OneAtWork
  BY DEF OneAtWork
<1>2. LifecycleSpec => ActiveIsDecorated /\ CordonedIsDrained
  BY <1>1, ActiveCorrect, DrainCorrect, PTL
<1>3. ASSUME ~Unreachable PROVE LifecycleSpec => []InactiveIsOut
  BY <1>1, <1>3, InactiveCorrect, PTL
<1> QED
  BY <1>2, <1>3

\* With several managers they hold as long as everybody keeps to its deadline
\* and to its object: the lock then keeps the operations apart.
THEOREM ManagersInTime ==
  /\ LifecycleSpec /\ []EverybodyInTime => ActiveIsDecorated /\ CordonedIsDrained
  /\ ~Unreachable => (LifecycleSpec /\ []EverybodyInTime => []InactiveIsOut)
<1>1. NoOverlap /\ EverybodyInTime => OneAtWork
  BY DEF NoOverlap, EverybodyInTime, OneAtWork
<1>2. LifecycleSpec /\ []EverybodyInTime => []OneAtWork
  BY <1>1, LifecycleExclusion, PTL
<1>3. LifecycleSpec /\ []EverybodyInTime => ActiveIsDecorated /\ CordonedIsDrained
  BY <1>2, ActiveCorrect, DrainCorrect, PTL
<1>4. ASSUME ~Unreachable PROVE LifecycleSpec /\ []EverybodyInTime => []InactiveIsOut
  BY <1>2, <1>4, InactiveCorrect, PTL
<1> QED
  BY <1>3, <1>4

=============================================================================
