--------------------- MODULE NodeDeployControllerProofs ---------------------
(***************************************************************************)
(* Proofs about NodeDeployController, for every set of managers, every set *)
(* of targets, every combination of faults, every deadline and every       *)
(* number of retries.                                                      *)
(***************************************************************************)
EXTENDS NodeDeployController, TLAPS

-----------------------------------------------------------------------------
(***************************************************************************)
(* Types.                                                                  *)
(***************************************************************************)

\* The statuses the branches of Reconcile compute are statuses.
LEMMA StatusTypes ==
  ASSUME NEW c \in Copy, NEW success \in BOOLEAN
  PROVE  /\ getBeforeStatus(c.status) \in NodeStatus
         /\ RefusedStatus(c) \in NodeStatus
         /\ Announce(c) \in Intermediate
         /\ Outcome(c, success) \in NodeStatus
BY DEF Copy, getBeforeStatus, RefusedStatus, Announce, Outcome, Intermediate,
       NodeStatus, NodeUnknown, NodeInit, NodeInactive, NodeActive, NodeLaunching,
       NodeLaunchFail, NodeDeprecating, NodeDeprecateFail

\* A missing deadline and a fresh one are deadlines.
LEMMA TimeLeftTypes ==
  NoDeadline \in TimeLeft /\ DeadlineDuration \in TimeLeft
BY DeadlineAssumption DEF NoDeadline, TimeLeft

\* The constant copies are copies.
LEMMA ConstantCopies ==
  /\ Absent \in Copy
  /\ NoCopy \in Copy
  /\ \A s \in Targets, v \in Validity : Created(s, v) \in Copy
<1>1. NodeUnknown \in NodeStatus
  BY DEF NodeStatus
<1>2. Absent \in Copy
  BY <1>1, TimeLeftTypes DEF Absent, Copy, Version
<1>3. NoCopy \in Copy
  BY <1>2 DEF NoCopy, Copy, Version
<1>4. \A s \in Targets, v \in Validity : Created(s, v) \in Copy
  BY <1>2, ValidityAssumption DEF Created, Copy
<1> QED
  BY <1>2, <1>3, <1>4

\* Copies that were told of a new version are copies, and only their version
\* has changed.
LEMMA OutdatedCopies ==
  ASSUME NEW S \in [Managers -> Copy], NEW v \in { "stale", "gone" }
  PROVE  /\ Outdated(S, v) \in [Managers -> Copy]
         /\ \A m \in Managers :
              LET c == Outdated(S, v)[m]
              IN  /\ c.ver = IF S[m].ver = "gone" THEN "gone" ELSE v
                  /\ c.exists = S[m].exists
                  /\ c.spec = S[m].spec
                  /\ c.status = S[m].status
                  /\ c.deadline = S[m].deadline
BY DEF Outdated, Copy, Version

\* After a change of the stored object no copy is current, and a copy of a
\* deleted object stays one.
LEMMA OutdatedVersions ==
  ASSUME NEW S \in [Managers -> Copy], NEW m \in Managers
  PROVE  /\ Outdated(S, "stale")[m].ver # "current"
         /\ Outdated(S, "stale")[m].ver = "gone" <=> S[m].ver = "gone"
         /\ Outdated(S, "gone")[m].ver = "gone"
<1>1. Outdated(S, "stale")[m].ver = IF S[m].ver = "gone" THEN "gone" ELSE "stale"
  BY OutdatedCopies
<1>2. Outdated(S, "gone")[m].ver = IF S[m].ver = "gone" THEN "gone" ELSE "gone"
  BY OutdatedCopies
<1> QED
  BY <1>1, <1>2

\* A retry count is a natural number.
LEMMA TriesType ==
  ASSUME NEW n \in Nat PROVE NextTry(n) \in Nat
BY DEF NextTry

\* A tick of the clock keeps the time left in its range, never makes a
\* deadline later, and leaves a passed deadline passed.
LEMMA AgeFacts ==
  ASSUME NEW d \in TimeLeft, NEW e \in TimeLeft
  PROVE  /\ Age(d) \in TimeLeft
         /\ Age(d) <= d
         /\ Age(d) > 0 => d > 0
         /\ d >= e => Age(d) >= Age(e)
         /\ Expired(d) => Expired(Age(d))
BY DeadlineAssumption DEF Age, TimeLeft, Expired

\* A status update keeps the types of the three variables it writes.
LEMMA StatusUpdateTypes ==
  ASSUME TypeOK, NEW m \in Managers, NEW c \in Copy, NEW r \in Reply,
         NEW next \in Copy, StatusUpdate(m, c, r, next)
  PROVE  /\ obj' \in Copy /\ obj'.ver = "current"
         /\ cache' \in [Managers -> Copy]
         /\ loc' \in [Managers -> Copy]
<1>1. [c EXCEPT !.ver = "current"] \in Copy
  BY DEF Copy, Version
<1>2. /\ Outdated(cache, "stale") \in [Managers -> Copy]
      /\ Outdated(loc, "stale") \in [Managers -> Copy]
  BY OutdatedCopies DEF TypeOK
<1>3. [c EXCEPT !.ver = "current"].ver = "current"
  BY DEF Copy
<1> QED
  BY <1>1, <1>2, <1>3 DEF StatusUpdate, TypeOK

\* A fresh object, cached by every manager, is well typed.
LEMMA TypeInit == Init => TypeOK
<1> SUFFICES ASSUME Init PROVE TypeOK
  OBVIOUS
<1>1. obj \in Copy /\ obj.ver = "current"
  BY ConstantCopies, ValidityAssumption DEF Init, Created, Absent
<1> QED
  BY <1>1, ConstantCopies DEF Init, TypeOK, PC, NodeStatus, NodeUnknown

\* Every step keeps the types, a conversion of MaxRetry included.
LEMMA TypeNext == TypeOK /\ [Next]_vars => TypeOK'
<1> SUFFICES ASSUME TypeOK, [Next]_vars PROVE TypeOK'
  OBVIOUS
<1> USE DEF TypeOK
<1>1. ASSUME NEW m \in Managers, NEW status \in NodeStatus, ReconcileUpdate(m, status)
      PROVE  TypeOK'
  <2>1. [cache[m] EXCEPT !.status = status] \in Copy
    BY DEF Copy
  <2> QED
    BY <1>1, <2>1 DEF ReconcileUpdate, Dequeue, PC
<1>2. ASSUME NEW m \in Managers, Reconcile(m) PROVE TypeOK'
  <2>1. CASE ReconcileReturn(m)
    BY <2>1 DEF ReconcileReturn, Dequeue, mgr
  <2>2. CASE ReconcileInit(m)
    BY <2>2, <1>1 DEF ReconcileInit, NodeStatus
  <2>3. CASE ReconcileFallback(m)
    BY <2>3, <1>1, StatusTypes DEF ReconcileFallback
  <2>4. CASE ReconcileRefuse(m)
    BY <2>4, <1>1, StatusTypes DEF ReconcileRefuse
  <2>5. CASE ReconcileWork(m)
    BY <2>5 DEF ReconcileWork, Dequeue, PC
  <2>6. ASSUME NEW r \in Reply, UpdateStatus(m, r) PROVE TypeOK'
    <3>1. CASE loc[m] # obj
      <4>1. StatusUpdate(m, loc[m], r, NoCopy)
        BY <2>6, <3>1 DEF UpdateStatus
      <4> QED
        BY <2>6, <4>1, StatusUpdateTypes, ConstantCopies
           DEF UpdateStatus, Return, PC, NodeStatus
    <3>2. CASE loc[m] = obj
      BY <2>6, <3>2, ConstantCopies DEF UpdateStatus, Return, PC, NodeStatus
    <3> QED
      BY <3>1, <3>2
  <2>7. ASSUME NEW r \in Reply, Prepare(m, r) PROVE TypeOK'
    <3> DEFINE c == Prepared(loc[m])
               n == IF r = "lost" THEN [c EXCEPT !.ver = "stale"] ELSE c
    <3>0. Announce(loc[m]) \in NodeStatus
      BY StatusTypes DEF Intermediate, NodeStatus
    <3>1. c \in Copy /\ n \in Copy
      BY <3>0, TimeLeftTypes DEF Prepared, Copy, Version
    <3>2. StatusUpdate(m, c, r, n)
      BY <2>7 DEF Prepare
    <3>3. obj' \in Copy /\ obj'.ver = "current" /\ cache' \in [Managers -> Copy]
            /\ loc' \in [Managers -> Copy]
      BY <3>1, <3>2, StatusUpdateTypes
    <3> QED
      BY <2>7, <3>3, TriesType DEF Prepare, FailAttempt, PC
  <2>8. ASSUME NEW r \in Reply, Finalize(m, r) PROVE TypeOK'
    <3>1. Finalized(m) \in Copy
      BY TimeLeftTypes DEF Finalized, Copy
    <3>2. obj' \in Copy /\ obj'.ver = "current" /\ cache' \in [Managers -> Copy]
            /\ loc' \in [Managers -> Copy]
      BY <2>8, <3>1, StatusUpdateTypes, ConstantCopies DEF Finalize
    <3> QED
      BY <2>8, <3>2 DEF Finalize, Return, PC, NodeStatus
  <2> QED
    BY <1>2, <2>1, <2>2, <2>3, <2>4, <2>5, <2>6, <2>7, <2>8 DEF Reconcile
<1>3. ASSUME NEW m \in Managers, Work(m) PROVE TypeOK'
  <2>1. PICK success \in BOOLEAN, failed \in BOOLEAN : WorkDone(m, success, failed)
    BY <1>3 DEF Work
  <2>2. Outcome(loc[m], success) \in NodeStatus
    BY StatusTypes
  <2> QED
    BY <2>1, <2>2, TriesType DEF WorkDone, FailAttempt, PC
<1>4. ASSUME NEW m \in Managers, Crash(m) \/ Restart(m) \/ Deliver(m) \/ Resync(m)
      PROVE  TypeOK'
  <2>0. obj.exists \in BOOLEAN
    BY DEF Copy
  <2>1. CASE Crash(m)
    BY <2>1, ConstantCopies DEF Crash, PC, NodeStatus
  <2>2. CASE Restart(m)
    BY <2>0, <2>2 DEF Restart, PC
  <2>3. CASE Deliver(m)
    BY <2>3 DEF Deliver, mgr
  <2>4. CASE Resync(m)
    BY <2>4 DEF Resync, mgr
  <2> QED
    BY <1>4, <2>1, <2>2, <2>3, <2>4
<1>5. ASSUME User PROVE TypeOK'
  <2>1. ASSUME NEW s \in Targets, NEW v \in Validity, EditSpec(s, v) PROVE TypeOK'
    <3>1. [obj EXCEPT !.spec = s, !.valid = v] \in Copy
      BY ValidityAssumption DEF Copy
    <3>2. [obj EXCEPT !.spec = s, !.valid = v].ver = "current"
      BY DEF Copy
    <3> QED
      BY <2>1, <3>1, <3>2, OutdatedCopies DEF EditSpec
  <2>2. ASSUME NEW s \in Targets, NEW v \in Validity, Create(s, v) PROVE TypeOK'
    <3>1. Created(s, v).ver = "current"
      BY DEF Created, Absent
    <3> QED
      BY <2>2, <3>1, ConstantCopies, OutdatedCopies DEF Create, mgr
  <2>3. CASE Delete
    BY <2>3, ConstantCopies, OutdatedCopies DEF Delete, Absent
  <2> QED
    BY <1>5, <2>1, <2>2, <2>3 DEF User
<1>6. ASSUME Tick PROVE TypeOK'
  <2>1. \A c \in Copy : /\ [c EXCEPT !.deadline = Age(@)] \in Copy
                        /\ [c EXCEPT !.deadline = Age(@)].ver = c.ver
    BY AgeFacts DEF Copy
  <2> QED
    BY <1>6, <2>1 DEF Tick
<1>7. CASE UNCHANGED vars
  BY <1>7 DEF vars
<1> QED
  BY <1>2, <1>3, <1>4, <1>5, <1>6, <1>7 DEF Next

\* Every variable keeps its type in every reachable state; in particular the
\* object in the API server only ever gets a status of the NodeStatus list
\* and a deadline at most DeadlineDuration away.
THEOREM TypeCorrect == Spec => []TypeOK
BY TypeInit, TypeNext, PTL DEF Spec

-----------------------------------------------------------------------------
(***************************************************************************)
(* The lock.                                                               *)
(***************************************************************************)

\* The two statuses prepare announces are not the others.
LEMMA IntermediateFacts ==
  /\ NodeUnknown \notin Intermediate
  /\ NodeInit \notin Intermediate
BY DEF Intermediate, NodeUnknown, NodeInit, NodeLaunching, NodeDeprecating

\* Only prepare announces an operation: no other status that is written does.
LEMMA PlainFacts ==
  ASSUME NEW c \in Copy, NEW success \in BOOLEAN
  PROVE  /\ getBeforeStatus(c.status) \notin Intermediate
         /\ Outcome(c, success) \notin Intermediate
         /\ c.status \notin Intermediate => RefusedStatus(c) \notin Intermediate
BY DEF getBeforeStatus, Outcome, RefusedStatus, Intermediate, NodeUnknown, NodeInactive,
       NodeActive, NodeLaunching, NodeLaunchFail, NodeDeprecating, NodeDeprecateFail

\* The copies Created and Absent: nobody processes them.
LEMMA FreshFacts ==
  /\ Absent.status = NodeUnknown
  /\ NoCopy.ver = "gone"
  /\ \A s \in Targets, v \in Validity :
       Created(s, v).exists /\ Created(s, v).status = NodeUnknown
BY DEF Absent, NoCopy, Created

\* A refused status update changes the copy in hand only.
LEMMA RefusedFacts ==
  ASSUME TypeOK, NEW m \in Managers, NEW c \in Copy, NEW next \in Copy,
         StatusUpdate(m, c, "error", next)
  PROVE  /\ obj' = obj
         /\ cache' = cache
         /\ loc'[m] = next
         /\ \A n \in Managers \ { m } : loc'[n] = loc[n]
BY DEF StatusUpdate, TypeOK

\* A status update that goes through was made from the stored version, and
\* afterwards nobody but its author may hold the stored version.
LEMMA AppliedFacts ==
  ASSUME TypeOK, NEW m \in Managers, NEW c \in Copy, NEW next \in Copy,
         NEW r \in Reply \ { "error" }, StatusUpdate(m, c, r, next)
  PROVE  /\ c.ver = "current"
         /\ obj'.exists = c.exists
         /\ obj'.spec = c.spec
         /\ obj'.status = c.status
         /\ obj'.deadline = c.deadline
         /\ loc'[m] = next
         /\ \A n \in Managers : cache'[n].ver # "current"
         /\ \A n \in Managers \ { m } :
              /\ loc'[n].ver # "current"
              /\ loc'[n].ver = "gone" <=> loc[n].ver = "gone"
              /\ loc'[n].exists = loc[n].exists
              /\ loc'[n].spec = loc[n].spec
              /\ loc'[n].status = loc[n].status
              /\ loc'[n].deadline = loc[n].deadline
<1>1. c.ver = "current"
  BY DEF StatusUpdate, Answers, Reply
<1>2. /\ obj' = [c EXCEPT !.ver = "current"]
      /\ cache' = Outdated(cache, "stale")
      /\ loc' = [Outdated(loc, "stale") EXCEPT ![m] = next]
  BY DEF StatusUpdate
<1>3. /\ obj'.exists = c.exists
      /\ obj'.spec = c.spec
      /\ obj'.status = c.status
      /\ obj'.deadline = c.deadline
  BY <1>2 DEF Copy
<1>4. \A n \in Managers : cache'[n].ver # "current"
  <2>1. \A n \in Managers :
          Outdated(cache, "stale")[n].ver = IF cache[n].ver = "gone" THEN "gone" ELSE "stale"
    BY OutdatedCopies DEF TypeOK
  <2> QED
    BY <1>2, <2>1
<1>5. /\ Outdated(loc, "stale") \in [Managers -> Copy]
      /\ \A n \in Managers :
           LET d == Outdated(loc, "stale")[n]
           IN  /\ d.ver = IF loc[n].ver = "gone" THEN "gone" ELSE "stale"
               /\ d.exists = loc[n].exists
               /\ d.spec = loc[n].spec
               /\ d.status = loc[n].status
               /\ d.deadline = loc[n].deadline
  BY OutdatedCopies DEF TypeOK
<1>6. loc'[m] = next /\ \A n \in Managers \ { m } : loc'[n] = Outdated(loc, "stale")[n]
  BY <1>2, <1>5
<1> QED
  BY <1>1, <1>3, <1>4, <1>5, <1>6

\* Nobody holds the lock at first.
LEMMA LockInit == Init => LockInv
<1> SUFFICES ASSUME Init PROVE LockInv
  OBVIOUS
<1>1. obj.exists /\ obj.status = NodeUnknown
  BY FreshFacts DEF Init
<1>2. \A m \in Managers : pc[m] = "idle" /\ cache[m] = obj /\ res[m] = NodeUnknown
  BY DEF Init
<1> QED
  BY <1>1, <1>2, IntermediateFacts
     DEF LockInv, CopiesAgree, UpdatesAreSafe, HolderIsAlone, WorkIsAnnounced, NoOverlap,
         Operating, Working, Current

\* Nobody works on an object that is not being processed or is past its
\* deadline.
LEMMA FreeObject ==
  ASSUME TypeOK, LockInv, obj.status \notin Intermediate \/ Expired(obj.deadline)
  PROVE  \A n \in Managers : ~Working(n)
<1> SUFFICES ASSUME NEW n \in Managers, Working(n) PROVE FALSE
  OBVIOUS
<1>1. obj.status \in Intermediate /\ obj.deadline >= loc[n].deadline
  BY StatusTypes DEF LockInv, WorkIsAnnounced, TypeOK
<1>2. loc[n].deadline > 0 /\ loc[n].deadline \in TimeLeft /\ obj.deadline \in TimeLeft
  BY DEF Working, TypeOK, Copy
<1>3. obj.deadline # 0
  BY <1>1, <1>2, DeadlineAssumption DEF TimeLeft
<1> QED
  BY <1>1, <1>3 DEF Expired

\* The holder of the current version of an operation is the only worker.
LEMMA HolderWorksAlone ==
  ASSUME TypeOK, LockInv, NEW m \in Managers, Operating(m), Current(m)
  PROVE  \A n \in Managers \ { m } : ~Working(n)
BY FreeObject DEF LockInv, HolderIsAlone

\* What LockInv says of the state after a step, opened up once.
LEMMA LockOpen ==
  ASSUME CopiesAgree', UpdatesAreSafe', HolderIsAlone', WorkIsAnnounced', NoOverlap'
  PROVE  LockInv'
BY DEF LockInv

\* A step that leaves the object and the calls alone and at most brings a
\* cache up to date.
LEMMA LockCacheStep ==
  ASSUME TypeOK, LockInv, UNCHANGED <<obj, mgr>>,
         \A n \in Managers : cache'[n] = cache[n] \/ cache'[n] = obj
  PROVE  LockInv'
BY DEF LockInv, CopiesAgree, UpdatesAreSafe, HolderIsAlone, WorkIsAnnounced, NoOverlap,
       Operating, Working, Current, mgr

\* A call that is going to write a new status over the one it has read.
LEMMA LockReconcileUpdate ==
  ASSUME TypeOK, LockInv, NEW m \in Managers, NEW status \in NodeStatus,
         ReconcileUpdate(m, status),
         cache[m].exists, status \notin Intermediate,
         cache[m].status \in Intermediate =>
           Expired(cache[m].deadline) /\ status = getBeforeStatus(cache[m].status)
  PROVE  LockInv'
<1>1. /\ obj' = obj /\ cache' = cache /\ res' = res
      /\ pc'[m] = "update" /\ pc[m] = "idle"
      /\ \A n \in Managers \ { m } : pc'[n] = pc[n] /\ loc'[n] = loc[n]
  BY DEF ReconcileUpdate, Dequeue, TypeOK
<1>2. /\ loc'[m].exists = cache[m].exists
      /\ loc'[m].spec = cache[m].spec
      /\ loc'[m].status = status
      /\ loc'[m].ver = cache[m].ver
  BY DEF ReconcileUpdate, TypeOK, Copy
<1>3. \A n \in Managers : Working(n)' => n # m /\ Working(n)
  BY <1>1 DEF Working
<1>4. CopiesAgree'
  BY <1>1, <1>2 DEF LockInv, CopiesAgree, Operating, Current
<1>5. UpdatesAreSafe'
  BY <1>1, <1>2 DEF LockInv, CopiesAgree, UpdatesAreSafe, Current
<1>6. HolderIsAlone'
  BY <1>1, <1>3 DEF LockInv, HolderIsAlone, Operating, Current
<1>7. WorkIsAnnounced'
  BY <1>1, <1>3 DEF LockInv, WorkIsAnnounced
<1>8. NoOverlap'
  BY <1>3 DEF LockInv, NoOverlap
<1> QED
  BY <1>4, <1>5, <1>6, <1>7, <1>8, LockOpen

\* A call that is going to announce an operation has found no other one.
LEMMA LockReconcileWork ==
  ASSUME TypeOK, LockInv, NEW m \in Managers, ReconcileWork(m)
  PROVE  LockInv'
<1>1. /\ obj' = obj /\ cache' = cache /\ res' = res
      /\ pc'[m] = "prepare" /\ loc'[m] = cache[m]
      /\ \A n \in Managers \ { m } : pc'[n] = pc[n] /\ loc'[n] = loc[n]
  BY DEF ReconcileWork, Dequeue, TypeOK
<1>2. /\ cache[m].exists
      /\ cache[m].spec \in { NodeActive, NodeInactive }
      /\ cache[m].status \notin Intermediate
  BY DEF ReconcileWork, NeedsWork, Pending
<1>3. \A n \in Managers : Working(n)' => n # m /\ Working(n)
  BY <1>1 DEF Working
<1>4. CopiesAgree'
  BY <1>1, <1>2 DEF LockInv, CopiesAgree, Operating, Current
<1>5. UpdatesAreSafe'
  BY <1>1 DEF LockInv, UpdatesAreSafe, Current
<1>6. HolderIsAlone'
  <2> SUFFICES ASSUME NEW n \in Managers, (Operating(n) /\ Current(n))',
                      obj'.status \in Intermediate
               PROVE  /\ obj'.status = Announce(loc'[n])
                      /\ pc'[n] # "work" =>
                           res'[n] \in { Outcome(loc'[n], TRUE), Outcome(loc'[n], FALSE) }
                      /\ \A k \in Managers \ { n } : ~Working(k)'
    BY DEF HolderIsAlone
  <2>1. n # m
    BY <1>1, <1>2 DEF LockInv, CopiesAgree, Current
  <2> QED
    BY <2>1, <1>1, <1>3 DEF LockInv, HolderIsAlone, Operating, Current
<1>7. WorkIsAnnounced'
  BY <1>1, <1>3 DEF LockInv, WorkIsAnnounced
<1>8. NoOverlap'
  BY <1>3 DEF LockInv, NoOverlap
<1> QED
  BY <1>4, <1>5, <1>6, <1>7, <1>8, LockOpen

\* The end of a call that has written a status over one nobody works under.
LEMMA LockReturn ==
  ASSUME TypeOK, LockInv, NEW m \in Managers, NEW c \in Copy, NEW r \in Reply,
         StatusUpdate(m, c, r, NoCopy), c.exists,
         pc' = [pc EXCEPT ![m] = "idle"], res' = [res EXCEPT ![m] = NodeUnknown],
         c.ver = "current" => \A n \in Managers \ { m } : ~Working(n)
  PROVE  LockInv'
<1>0. res'[m] \notin Intermediate
  BY IntermediateFacts DEF TypeOK
<1>1. /\ pc'[m] = "idle"
      /\ \A n \in Managers \ { m } : pc'[n] = pc[n] /\ res'[n] = res[n]
  BY DEF TypeOK
<1>2. CASE r = "error"
  <2>1. /\ obj' = obj /\ cache' = cache
        /\ \A n \in Managers \ { m } : loc'[n] = loc[n]
    BY <1>2, RefusedFacts, ConstantCopies
  <2>2. \A n \in Managers : Working(n)' => n # m /\ Working(n)
    BY <1>1, <2>1 DEF Working
  <2>3. CopiesAgree'
    BY <1>1, <2>1 DEF LockInv, CopiesAgree, Operating, Current
  <2>4. UpdatesAreSafe'
    BY <1>0, <1>1, <2>1 DEF LockInv, UpdatesAreSafe, Current
  <2>5. HolderIsAlone'
    BY <1>1, <2>1, <2>2 DEF LockInv, HolderIsAlone, Operating, Current
  <2>6. WorkIsAnnounced'
    BY <2>1, <2>2 DEF LockInv, WorkIsAnnounced
  <2>7. NoOverlap'
    BY <2>2 DEF LockInv, NoOverlap
  <2> QED
    BY <2>3, <2>4, <2>5, <2>6, <2>7, LockOpen
<1>3. CASE r # "error"
  <2>1. /\ c.ver = "current"
        /\ obj'.exists
        /\ \A n \in Managers : cache'[n].ver # "current"
        /\ \A n \in Managers \ { m } :
              /\ loc'[n].ver # "current"
              /\ loc'[n].ver = "gone" <=> loc[n].ver = "gone"
              /\ loc'[n].exists = loc[n].exists
              /\ loc'[n].spec = loc[n].spec
              /\ loc'[n].status = loc[n].status
              /\ loc'[n].deadline = loc[n].deadline
    BY <1>3, AppliedFacts, ConstantCopies
  <2>2. \A n \in Managers : ~Working(n)'
    BY <1>1, <2>1 DEF Working
  <2>3. \A n \in Managers : pc'[n] = "idle" \/ (n # m /\ ~Current(n)')
    BY <1>1, <2>1 DEF Current
  <2>4. CopiesAgree'
    BY <1>1, <2>1, <2>3 DEF LockInv, CopiesAgree, Operating, Current
  <2>5. UpdatesAreSafe'
    BY <1>0, <1>1, <2>1, <2>3 DEF LockInv, UpdatesAreSafe
  <2>6. HolderIsAlone'
    BY <2>3 DEF HolderIsAlone, Operating
  <2>7. WorkIsAnnounced' /\ NoOverlap'
    BY <2>2 DEF WorkIsAnnounced, NoOverlap
  <2> QED
    BY <2>4, <2>5, <2>6, <2>7, LockOpen
<1> QED
  BY <1>2, <1>3

\* The branches of Reconcile that write one status keep the lock.
LEMMA LockUpdateStatus ==
  ASSUME TypeOK, LockInv, NEW m \in Managers, NEW r \in Reply, UpdateStatus(m, r)
  PROVE  LockInv'
<1>1. CASE loc[m] # obj
  <2>1. StatusUpdate(m, loc[m], r, NoCopy) /\ loc[m] \in Copy
    BY <1>1 DEF UpdateStatus, TypeOK
  <2>2. loc[m].exists
    BY DEF UpdateStatus, LockInv, CopiesAgree
  <2>3. loc[m].ver = "current" => \A n \in Managers \ { m } : ~Working(n)
    BY FreeObject DEF UpdateStatus, LockInv, UpdatesAreSafe, Current
  <2> QED
    BY <2>1, <2>2, <2>3, LockReturn DEF UpdateStatus, Return
<1>2. CASE loc[m] = obj
  <2>1. /\ obj' = obj /\ cache' = cache
        /\ pc'[m] = "idle" /\ res'[m] \notin Intermediate
        /\ \A n \in Managers \ { m } :
              pc'[n] = pc[n] /\ res'[n] = res[n] /\ loc'[n] = loc[n]
    BY <1>2, IntermediateFacts DEF UpdateStatus, Return, TypeOK
  <2>2. \A n \in Managers : Working(n)' => n # m /\ Working(n)
    BY <2>1 DEF Working
  <2>3. CopiesAgree' /\ UpdatesAreSafe'
    BY <2>1 DEF LockInv, CopiesAgree, UpdatesAreSafe, Operating, Current
  <2>4. HolderIsAlone'
    BY <2>1, <2>2 DEF LockInv, HolderIsAlone, Operating, Current
  <2>5. WorkIsAnnounced' /\ NoOverlap'
    BY <2>1, <2>2 DEF LockInv, WorkIsAnnounced, NoOverlap
  <2> QED
    BY <2>3, <2>4, <2>5, LockOpen
<1> QED
  BY <1>1, <1>2

\* finalize gives the lock back, or is refused.
LEMMA LockFinalize ==
  ASSUME TypeOK, LockInv, NEW m \in Managers, NEW r \in Reply, Finalize(m, r)
  PROVE  LockInv'
<1>1. /\ Finalized(m) \in Copy
      /\ Finalized(m).exists = loc[m].exists
      /\ Finalized(m).ver = loc[m].ver
  BY TimeLeftTypes DEF Finalized, TypeOK, Copy
<1>2. Operating(m) /\ loc[m].exists
  BY DEF Finalize, Operating, LockInv, CopiesAgree
<1>3. Finalized(m).ver = "current" => \A n \in Managers \ { m } : ~Working(n)
  BY <1>1, <1>2, HolderWorksAlone DEF Current
<1> QED
  BY <1>1, <1>2, <1>3, LockReturn DEF Finalize, Return

\* prepare takes the lock, renews it, or is refused.
LEMMA LockPrepare ==
  ASSUME TypeOK, LockInv, NEW m \in Managers, NEW r \in Reply, Prepare(m, r)
  PROVE  LockInv'
<1> DEFINE c == Prepared(loc[m])
           next == IF r = "lost" THEN [c EXCEPT !.ver = "stale"] ELSE c
<1>1. Announce(loc[m]) \in Intermediate /\ Announce(loc[m]) \in NodeStatus
  BY StatusTypes DEF TypeOK, Intermediate, NodeStatus
<1>2. /\ c \in Copy
      /\ c.status = Announce(loc[m])
      /\ c.deadline = DeadlineDuration
      /\ c.exists = loc[m].exists
      /\ c.spec = loc[m].spec
      /\ c.ver = loc[m].ver
  BY <1>1, TimeLeftTypes DEF Prepared, TypeOK, Copy
<1>3. /\ next \in Copy
      /\ next.exists = loc[m].exists
      /\ next.spec = loc[m].spec
      /\ next.ver = IF r = "lost" THEN "stale" ELSE loc[m].ver
      /\ next.deadline = DeadlineDuration
  BY <1>2 DEF Copy, Version
<1>4. StatusUpdate(m, c, r, next)
  BY DEF Prepare
<1>5. /\ pc[m] = "prepare"
      /\ pc'[m] \in { "prepare", "work", "finalize" }
      /\ pc'[m] = "work" <=> r = "ok"
      /\ \A n \in Managers \ { m } : pc'[n] = pc[n]
      /\ res' = res
  BY DEF Prepare, FailAttempt, TypeOK
<1>6. /\ Operating(m) /\ Operating(m)'
      /\ loc[m].exists
      /\ loc[m].spec \in { NodeActive, NodeInactive }
      /\ Current(m) => obj.exists /\ loc[m].spec = obj.spec
  BY <1>5 DEF Operating, LockInv, CopiesAgree
<1> HIDE DEF c, next
<1>7. CASE r = "error"
  <2>1. /\ obj' = obj /\ cache' = cache
        /\ loc'[m] = next
        /\ \A n \in Managers \ { m } : loc'[n] = loc[n]
    BY <1>2, <1>3, <1>4, <1>7, RefusedFacts
  <2>2. \A n \in Managers : Working(n)' => n # m /\ Working(n)
    BY <1>5, <1>7, <2>1 DEF Working
  <2>3. CopiesAgree'
    <3> SUFFICES ASSUME NEW n \in Managers
                 PROVE  /\ pc'[n] = "update" \/ Operating(n)' => loc'[n].exists
                        /\ Operating(n)' => loc'[n].spec \in { NodeActive, NodeInactive }
                        /\ Current(n)' /\ (pc'[n] = "update" \/ Operating(n)') =>
                             obj'.exists /\ loc'[n].spec = obj'.spec
      BY <2>1 DEF LockInv, CopiesAgree
    <3>1. CASE n = m
      BY <1>3, <1>6, <1>7, <2>1, <3>1 DEF Current
    <3>2. CASE n # m
      BY <1>5, <2>1, <3>2 DEF LockInv, CopiesAgree, Operating, Current
    <3> QED
      BY <3>1, <3>2
  <2>4. UpdatesAreSafe'
    BY <1>5, <2>1 DEF LockInv, UpdatesAreSafe, Current
  <2>5. /\ Announce(next) = Announce(loc[m])
        /\ Outcome(next, TRUE) = Outcome(loc[m], TRUE)
        /\ Outcome(next, FALSE) = Outcome(loc[m], FALSE)
    BY <1>3 DEF Announce, Outcome
  <2>6. HolderIsAlone'
    <3> SUFFICES ASSUME NEW n \in Managers, Operating(n)', Current(n)',
                        obj'.status \in Intermediate
                 PROVE  /\ obj'.status = Announce(loc'[n])
                        /\ pc'[n] # "work" =>
                             res'[n] \in { Outcome(loc'[n], TRUE), Outcome(loc'[n], FALSE) }
                        /\ \A k \in Managers \ { n } : ~Working(k)'
      BY DEF HolderIsAlone
    <3>1. Operating(n) /\ Current(n)
      BY <1>3, <1>5, <1>6, <1>7, <2>1 DEF Operating, Current
    <3>2. pc[n] # "work" \/ pc'[n] = "work"
      BY <1>5
    <3> QED
      BY <1>5, <2>1, <2>2, <2>5, <3>1, <3>2 DEF LockInv, HolderIsAlone
  <2>7. WorkIsAnnounced'
    BY <2>1, <2>2 DEF LockInv, WorkIsAnnounced
  <2>8. NoOverlap'
    BY <2>2 DEF LockInv, NoOverlap
  <2> QED
    BY <2>3, <2>4, <2>6, <2>7, <2>8, LockOpen
<1>8. CASE r # "error"
  <2>1. /\ c.ver = "current"
        /\ obj'.exists = c.exists
        /\ obj'.spec = c.spec
        /\ obj'.status = c.status
        /\ obj'.deadline = c.deadline
        /\ loc'[m] = next
        /\ \A n \in Managers : cache'[n].ver # "current"
        /\ \A n \in Managers \ { m } :
              /\ loc'[n].ver # "current"
              /\ loc'[n].ver = "gone" <=> loc[n].ver = "gone"
              /\ loc'[n].exists = loc[n].exists
              /\ loc'[n].spec = loc[n].spec
              /\ loc'[n].status = loc[n].status
              /\ loc'[n].deadline = loc[n].deadline
    BY <1>2, <1>3, <1>4, <1>8, AppliedFacts
  <2>2. \A n \in Managers \ { m } : ~Working(n)
    BY <1>2, <1>6, <2>1, HolderWorksAlone DEF Current
  <2>3. \A n \in Managers \ { m } : ~Working(n)'
    BY <1>5, <2>1, <2>2 DEF Working
  <2>4. CopiesAgree'
    <3>0. obj'.exists
      BY <1>2, <1>6, <2>1
    <3> SUFFICES ASSUME NEW n \in Managers
                 PROVE  /\ pc'[n] = "update" \/ Operating(n)' => loc'[n].exists
                        /\ Operating(n)' => loc'[n].spec \in { NodeActive, NodeInactive }
                        /\ Current(n)' /\ (pc'[n] = "update" \/ Operating(n)') =>
                             obj'.exists /\ loc'[n].spec = obj'.spec
      BY <2>1, <3>0 DEF CopiesAgree
    <3>1. CASE n = m
      BY <1>2, <1>3, <1>6, <2>1, <3>0, <3>1
    <3>2. CASE n # m
      BY <1>5, <2>1, <3>2 DEF LockInv, CopiesAgree, Operating, Current
    <3> QED
      BY <3>1, <3>2
  <2>5. UpdatesAreSafe'
    BY <1>5, <2>1 DEF LockInv, UpdatesAreSafe, Current
  <2>6. HolderIsAlone'
    <3> SUFFICES ASSUME NEW n \in Managers, Operating(n)', Current(n)',
                        obj'.status \in Intermediate
                 PROVE  /\ obj'.status = Announce(loc'[n])
                        /\ pc'[n] # "work" =>
                             res'[n] \in { Outcome(loc'[n], TRUE), Outcome(loc'[n], FALSE) }
                        /\ \A k \in Managers \ { n } : ~Working(k)'
      BY DEF HolderIsAlone
    <3>1. n = m
      BY <2>1 DEF Current
    <3>2. r = "ok"
      BY <1>3, <1>8, <2>1, <3>1 DEF Current, Reply
    <3>3. Announce(next) = Announce(loc[m])
      BY <1>3 DEF Announce
    <3> QED
      BY <1>2, <1>5, <2>1, <2>3, <3>1, <3>2, <3>3
  <2>7. WorkIsAnnounced'
    <3> SUFFICES ASSUME NEW n \in Managers, Working(n)'
                 PROVE  obj'.status = Announce(loc'[n]) /\ obj'.deadline >= loc'[n].deadline
      BY DEF WorkIsAnnounced
    <3>1. n = m
      BY <2>3
    <3>2. Announce(next) = Announce(loc[m])
      BY <1>3 DEF Announce
    <3> QED
      BY <1>2, <1>3, <2>1, <3>1, <3>2, DeadlineAssumption
  <2>8. NoOverlap'
    BY <2>3 DEF NoOverlap
  <2> QED
    BY <2>4, <2>5, <2>6, <2>7, <2>8, LockOpen
<1> QED
  BY <1>7, <1>8

\* A return of launchNode or deprecateNode keeps the lock.
LEMMA LockWorkDone ==
  ASSUME TypeOK, LockInv, NEW m \in Managers, NEW success \in BOOLEAN,
         NEW failed \in BOOLEAN, WorkDone(m, success, failed)
  PROVE  LockInv'
<1>1. /\ obj' = obj /\ cache' = cache /\ loc' = loc
      /\ pc[m] = "work" /\ pc'[m] \in { "prepare", "finalize" }
      /\ res'[m] = Outcome(loc[m], success)
      /\ \A n \in Managers \ { m } : pc'[n] = pc[n] /\ res'[n] = res[n]
  BY DEF WorkDone, FailAttempt, TypeOK
<1>2. \A n \in Managers : Working(n)' => n # m /\ Working(n)
  BY <1>1 DEF Working
<1>3. \A n \in Managers : Operating(n)' <=> Operating(n)
  BY <1>1 DEF Operating
<1>4. CopiesAgree'
  BY <1>1, <1>3 DEF LockInv, CopiesAgree, Current
<1>5. UpdatesAreSafe'
  <2>1. res'[m] \notin Intermediate
    BY <1>1, PlainFacts DEF TypeOK
  <2> QED
    BY <1>1, <2>1 DEF LockInv, UpdatesAreSafe, Current
<1>6. HolderIsAlone'
  <2> SUFFICES ASSUME NEW n \in Managers, Operating(n)', Current(n)',
                      obj'.status \in Intermediate
               PROVE  /\ obj'.status = Announce(loc'[n])
                      /\ pc'[n] # "work" =>
                           res'[n] \in { Outcome(loc'[n], TRUE), Outcome(loc'[n], FALSE) }
                      /\ \A k \in Managers \ { n } : ~Working(k)'
    BY DEF HolderIsAlone
  <2>1. Operating(n) /\ Current(n) /\ obj.status \in Intermediate
    BY <1>1, <1>3 DEF Current
  <2>2. /\ obj.status = Announce(loc[n])
        /\ pc[n] # "work" => res[n] \in { Outcome(loc[n], TRUE), Outcome(loc[n], FALSE) }
        /\ \A k \in Managers \ { n } : ~Working(k)
    BY <2>1 DEF LockInv, HolderIsAlone
  <2>3. CASE n = m
    BY <1>1, <1>2, <2>2, <2>3
  <2>4. CASE n # m
    BY <1>1, <1>2, <2>2, <2>4
  <2> QED
    BY <2>3, <2>4
<1>7. WorkIsAnnounced'
  BY <1>1, <1>2 DEF LockInv, WorkIsAnnounced
<1>8. NoOverlap'
  BY <1>2 DEF LockInv, NoOverlap
<1> QED
  BY <1>4, <1>5, <1>6, <1>7, <1>8, LockOpen

\* A process that dies leaves the lock to its deadline.
LEMMA LockCrash ==
  ASSUME TypeOK, LockInv, NEW m \in Managers, Crash(m) \/ Restart(m)
  PROVE  LockInv'
<1>1. /\ obj' = obj
      /\ pc'[m] \in { "down", "idle" }
      /\ cache'[m] = NoCopy \/ cache'[m] = obj
      /\ res'[m] \in { NodeUnknown, res[m] }
      /\ \A n \in Managers \ { m } : /\ pc'[n] = pc[n] /\ res'[n] = res[n]
                                     /\ loc'[n] = loc[n] /\ cache'[n] = cache[n]
  BY DEF Crash, Restart, TypeOK
<1>2. \A n \in Managers : Working(n)' => n # m /\ Working(n)
  BY <1>1 DEF Working
<1>3. CopiesAgree'
  BY <1>1, FreshFacts DEF LockInv, CopiesAgree, Operating, Current
<1>4. UpdatesAreSafe'
  BY <1>1, IntermediateFacts DEF LockInv, UpdatesAreSafe, Current
<1>5. HolderIsAlone'
  BY <1>1, <1>2 DEF LockInv, HolderIsAlone, Operating, Current
<1>6. WorkIsAnnounced'
  BY <1>1, <1>2 DEF LockInv, WorkIsAnnounced
<1>7. NoOverlap'
  BY <1>2 DEF LockInv, NoOverlap
<1> QED
  BY <1>3, <1>4, <1>5, <1>6, <1>7, LockOpen

\* An edit, a deletion or a creation takes the lock from nobody.
LEMMA LockUser == ASSUME TypeOK, LockInv, User PROVE LockInv'
<1>1. ASSUME NEW s \in Targets, NEW v \in Validity, EditSpec(s, v) PROVE LockInv'
  <2>1. obj'.exists /\ obj'.status = obj.status /\ obj'.deadline = obj.deadline
    BY <1>1 DEF EditSpec, TypeOK, Copy
  <2>2. \A n \in Managers : /\ cache'[n].ver # "current"
                            /\ loc'[n].ver # "current"
                            /\ loc'[n].ver = "gone" <=> loc[n].ver = "gone"
                            /\ loc'[n].exists = loc[n].exists
                            /\ loc'[n].spec = loc[n].spec
                            /\ loc'[n].status = loc[n].status
                            /\ loc'[n].deadline = loc[n].deadline
    <3>1. cache' = Outdated(cache, "stale") /\ loc' = Outdated(loc, "stale")
      BY <1>1 DEF EditSpec
    <3>2. \A n \in Managers : /\ cache'[n].ver # "current"
                              /\ loc'[n].ver # "current"
                              /\ loc'[n].ver = "gone" <=> loc[n].ver = "gone"
      BY <3>1, OutdatedVersions DEF TypeOK
    <3>3. \A n \in Managers : /\ loc'[n].exists = loc[n].exists
                              /\ loc'[n].spec = loc[n].spec
                              /\ loc'[n].status = loc[n].status
                              /\ loc'[n].deadline = loc[n].deadline
      BY <3>1, OutdatedCopies DEF TypeOK
    <3> QED
      BY <3>2, <3>3
  <2>3. pc' = pc /\ res' = res
    BY <1>1 DEF EditSpec
  <2>4. \A n \in Managers : Working(n)' <=> Working(n)
    BY <2>2, <2>3 DEF Working
  <2>5. CopiesAgree'
    BY <2>1, <2>2, <2>3 DEF LockInv, CopiesAgree, Operating, Current
  <2>6. UpdatesAreSafe' /\ HolderIsAlone'
    BY <2>2, <2>3 DEF LockInv, UpdatesAreSafe, HolderIsAlone, Current
  <2>7. WorkIsAnnounced'
    <3>1. \A n \in Managers : Announce(loc'[n]) = Announce(loc[n])
      BY <2>2 DEF Announce
    <3> QED
      BY <2>1, <2>2, <2>4, <3>1 DEF LockInv, WorkIsAnnounced
  <2>8. NoOverlap'
    BY <2>4 DEF LockInv, NoOverlap
  <2> QED
    BY <2>5, <2>6, <2>7, <2>8, LockOpen
<1>2. ASSUME NEW s \in Targets, NEW v \in Validity, Create(s, v) PROVE LockInv'
  <2>1. /\ obj'.exists /\ obj'.status = NodeUnknown
        /\ pc' = pc /\ loc' = loc /\ res' = res
    BY <1>2, FreshFacts DEF Create, mgr
  <2>2. \A n \in Managers : cache'[n].ver # "current"
    BY <1>2, OutdatedCopies DEF Create, TypeOK
  <2>3. \A n \in Managers : ~Working(n)
    BY <1>2, FreeObject, IntermediateFacts DEF Create, LockInv, CopiesAgree
  <2>4. \A n \in Managers : ~Working(n)'
    BY <2>1, <2>3 DEF Working
  <2>5. \A n \in Managers : pc[n] = "update" \/ Operating(n) => loc[n].ver # "current"
    BY <1>2 DEF Create, LockInv, CopiesAgree, Current
  <2>6. CopiesAgree'
    BY <2>1, <2>2, <2>5 DEF LockInv, CopiesAgree, Operating, Current
  <2>7. UpdatesAreSafe' /\ HolderIsAlone'
    BY <2>1, IntermediateFacts DEF LockInv, UpdatesAreSafe, HolderIsAlone
  <2>8. WorkIsAnnounced' /\ NoOverlap'
    BY <2>4 DEF WorkIsAnnounced, NoOverlap
  <2> QED
    BY <2>6, <2>7, <2>8, LockOpen
<1>3. CASE Delete
  <2>1. obj'.status = NodeUnknown /\ pc' = pc /\ res' = res
    BY <1>3, FreshFacts DEF Delete
  <2>2. /\ \A n \in Managers : cache'[n].ver = "gone"
        /\ \A n \in Managers : /\ loc'[n].ver = "gone"
                               /\ loc'[n].exists = loc[n].exists
                               /\ loc'[n].spec = loc[n].spec
                               /\ loc'[n].status = loc[n].status
    BY <1>3, OutdatedCopies DEF Delete, TypeOK
  <2>3. CopiesAgree'
    BY <2>1, <2>2 DEF LockInv, CopiesAgree, Operating, Current
  <2>4. UpdatesAreSafe' /\ HolderIsAlone' /\ WorkIsAnnounced' /\ NoOverlap'
    BY <2>1, <2>2 DEF LockInv, UpdatesAreSafe, HolderIsAlone, WorkIsAnnounced, NoOverlap,
                      Working, Current
  <2> QED
    BY <2>3, <2>4, LockOpen
<1> QED
  BY <1>1, <1>2, <1>3 DEF User

\* Deadlines pass in the stored object no earlier than in a copy of it.
LEMMA LockTick == ASSUME TypeOK, LockInv, Tick PROVE LockInv'
<1>1. /\ obj' = [obj EXCEPT !.deadline = Age(@)]
      /\ \A n \in Managers : /\ cache'[n] = [cache[n] EXCEPT !.deadline = Age(@)]
                             /\ loc'[n] = [loc[n] EXCEPT !.deadline = Age(@)]
      /\ pc' = pc /\ res' = res
  BY DEF Tick
<1>2. /\ obj'.exists = obj.exists /\ obj'.spec = obj.spec /\ obj'.status = obj.status
      /\ obj'.deadline = Age(obj.deadline)
      /\ \A n \in Managers :
           /\ cache'[n].ver = cache[n].ver
           /\ loc'[n].exists = loc[n].exists
           /\ loc'[n].spec = loc[n].spec
           /\ loc'[n].status = loc[n].status
           /\ loc'[n].ver = loc[n].ver
           /\ loc'[n].deadline = Age(loc[n].deadline)
  <2>1. \A d \in Copy :
          LET e == [d EXCEPT !.deadline = Age(@)]
          IN  /\ e.exists = d.exists /\ e.spec = d.spec /\ e.status = d.status
              /\ e.ver = d.ver /\ e.deadline = Age(d.deadline)
    BY DEF Copy
  <2> QED
    BY <1>1, <2>1 DEF TypeOK
<1>3. /\ obj.deadline \in TimeLeft
      /\ \A n \in Managers : loc[n].deadline \in TimeLeft
  BY DEF TypeOK, Copy
<1>4. \A n \in Managers : Working(n)' => Working(n)
  BY <1>1, <1>2, <1>3, AgeFacts DEF Working
<1>5. CopiesAgree'
  <2>1. ASSUME NEW n \in Managers, cache'[n].ver = "current" PROVE cache'[n] = obj'
    <3>1. cache[n] = obj
      BY <1>2, <2>1 DEF LockInv, CopiesAgree
    <3> QED
      BY <1>1, <3>1
  <2> QED
    BY <1>1, <1>2, <2>1 DEF LockInv, CopiesAgree, Operating, Current
<1>6. UpdatesAreSafe'
  BY <1>1, <1>2, <1>3, AgeFacts DEF LockInv, UpdatesAreSafe, Current
<1>7. HolderIsAlone'
  <2>1. \A n \in Managers : /\ Announce(loc'[n]) = Announce(loc[n])
                            /\ Outcome(loc'[n], TRUE) = Outcome(loc[n], TRUE)
                            /\ Outcome(loc'[n], FALSE) = Outcome(loc[n], FALSE)
    BY <1>2 DEF Announce, Outcome
  <2> QED
    BY <1>1, <1>2, <1>4, <2>1 DEF LockInv, HolderIsAlone, Operating, Current
<1>8. WorkIsAnnounced'
  <2>1. \A n \in Managers : Announce(loc'[n]) = Announce(loc[n])
    BY <1>2 DEF Announce
  <2> QED
    BY <1>2, <1>3, <1>4, <2>1, AgeFacts DEF LockInv, WorkIsAnnounced
<1>9. NoOverlap'
  BY <1>4 DEF LockInv, NoOverlap
<1> QED
  BY <1>5, <1>6, <1>7, <1>8, <1>9, LockOpen

\* Every step keeps the lock.
LEMMA LockNext == TypeOK /\ LockInv /\ [Next]_vars => LockInv'
<1> SUFFICES ASSUME TypeOK, LockInv, [Next]_vars PROVE LockInv'
  OBVIOUS
<1>1. ASSUME NEW m \in Managers, Reconcile(m) PROVE LockInv'
  <2>0. cache[m] \in Copy
    BY DEF TypeOK
  <2>1. CASE ReconcileReturn(m)
    BY <2>1, LockCacheStep DEF ReconcileReturn
  <2>2. CASE ReconcileInit(m)
    <3>1. cache[m].exists /\ cache[m].status \notin Intermediate
      BY <2>2, IntermediateFacts DEF ReconcileInit, NeedsInit
    <3>2. NodeInit \in NodeStatus
      BY DEF NodeStatus
    <3> QED
      BY <2>2, <3>1, <3>2, IntermediateFacts, LockReconcileUpdate DEF ReconcileInit
  <2>3. CASE ReconcileFallback(m)
    <3>1. cache[m].exists /\ Expired(cache[m].deadline)
      BY <2>3 DEF ReconcileFallback, NeedsFallback
    <3> QED
      BY <2>0, <2>3, <3>1, StatusTypes, PlainFacts, LockReconcileUpdate DEF ReconcileFallback
  <2>4. CASE ReconcileRefuse(m)
    <3>1. cache[m].exists /\ cache[m].status \notin Intermediate
      BY <2>4 DEF ReconcileRefuse, NeedsRefusal, Pending
    <3> QED
      BY <2>0, <2>4, <3>1, StatusTypes, PlainFacts, LockReconcileUpdate DEF ReconcileRefuse
  <2> QED
    BY <1>1, <2>1, <2>2, <2>3, <2>4, LockReconcileWork, LockUpdateStatus, LockPrepare,
       LockFinalize DEF Reconcile
<1>2. ASSUME NEW m \in Managers, Work(m) PROVE LockInv'
  BY <1>2, LockWorkDone DEF Work
<1>3. ASSUME NEW m \in Managers, Deliver(m) \/ Resync(m) PROVE LockInv'
  <2>1. UNCHANGED <<obj, mgr>>
    BY <1>3 DEF Deliver, Resync
  <2>2. \A n \in Managers : cache'[n] = cache[n] \/ cache'[n] = obj
    BY <1>3 DEF Deliver, Resync, TypeOK
  <2> QED
    BY <2>1, <2>2, LockCacheStep
<1>4. CASE UNCHANGED vars
  <2>1. UNCHANGED <<obj, mgr>> /\ cache' = cache
    BY <1>4 DEF vars, mgr
  <2> QED
    BY <2>1, LockCacheStep
<1> QED
  BY <1>1, <1>2, <1>3, <1>4, LockCrash, LockUser, LockTick DEF Next

\* The status announced by prepare is a lock on the object, however stale
\* the caches, whatever the user edits, whichever write fails or loses its
\* answer and whenever a manager dies.
THEOREM LockHolds == Spec => []LockInv
<1>1. Init => TypeOK /\ LockInv
  BY TypeInit, LockInit
<1>2. (TypeOK /\ LockInv) /\ [Next]_vars => (TypeOK /\ LockInv)'
  BY TypeNext, LockNext
<1> QED
  BY <1>1, <1>2, PTL DEF Spec

\* Two managers never operate on the machine behind one object at once
\* within their deadlines.
THEOREM MutualExclusion == Spec => []NoOverlap
<1>1. LockInv => NoOverlap
  BY DEF LockInv
<1> QED
  BY <1>1, LockHolds, PTL

\* While a manager operates within its deadline the stored status says so,
\* with a deadline that is no earlier: Reconcile's "other thread are
\* processing".
THEOREM WorkAnnounced == Spec => []WorkIsAnnounced
<1>1. LockInv => WorkIsAnnounced
  BY DEF LockInv
<1> QED
  BY <1>1, LockHolds, PTL

-----------------------------------------------------------------------------
(***************************************************************************)
(* The deadline of an announcement.                                        *)
(***************************************************************************)

\* Time does not bring a deadline where there is none, and takes none away.
LEMMA AgeNone ==
  ASSUME NEW d \in TimeLeft
  PROVE  Age(d) = NoDeadline <=> d = NoDeadline
BY DeadlineAssumption DEF Age, TimeLeft, NoDeadline

\* Every write that leaves an intermediate status leaves a deadline with it.
LEMMA AnnouncementStep ==
  ASSUME TypeOK, LockInv, AnnouncementExpires, [Next]_vars
  PROVE  AnnouncementExpires'
<1>0. ASSUME obj' = obj PROVE AnnouncementExpires'
  BY <1>0 DEF AnnouncementExpires
<1>1. ASSUME NEW m \in Managers, NEW c \in Copy, NEW r \in Reply, NEW next \in Copy,
             StatusUpdate(m, c, r, next),
             c.status \in Intermediate => c.deadline # NoDeadline
      PROVE  AnnouncementExpires'
  BY <1>0, <1>1, RefusedFacts, AppliedFacts DEF AnnouncementExpires
<1>2. ASSUME NEW m \in Managers, NEW r \in Reply, UpdateStatus(m, r) PROVE AnnouncementExpires'
  <2>1. loc[m] \in Copy /\ loc[m].status \notin Intermediate
    BY <1>2 DEF UpdateStatus, LockInv, UpdatesAreSafe, TypeOK
  <2> QED
    BY <1>0, <1>1, <1>2, <2>1, ConstantCopies DEF UpdateStatus
<1>3. ASSUME NEW m \in Managers, NEW r \in Reply, Prepare(m, r) PROVE AnnouncementExpires'
  <2> DEFINE c == Prepared(loc[m])
             next == IF r = "lost" THEN [c EXCEPT !.ver = "stale"] ELSE c
  <2>1. Announce(loc[m]) \in NodeStatus
    BY StatusTypes DEF TypeOK, Intermediate, NodeStatus
  <2>2. c \in Copy /\ c.deadline = DeadlineDuration
    BY <2>1, TimeLeftTypes DEF Prepared, TypeOK, Copy
  <2>3. next \in Copy
    BY <2>2 DEF Copy, Version
  <2>4. StatusUpdate(m, c, r, next)
    BY <1>3 DEF Prepare
  <2>5. c.deadline # NoDeadline
    BY <2>2, DeadlineAssumption DEF NoDeadline
  <2> QED
    BY <1>1, <2>2, <2>3, <2>4, <2>5
<1>4. ASSUME NEW m \in Managers, NEW r \in Reply, Finalize(m, r) PROVE AnnouncementExpires'
  <2>1. /\ Finalized(m) \in Copy
        /\ Finalized(m).status = res[m]
    BY TimeLeftTypes DEF Finalized, TypeOK, Copy
  <2>2. res[m] \notin Intermediate
    BY DEF LockInv, UpdatesAreSafe
  <2> QED
    BY <1>1, <1>4, <2>1, <2>2, ConstantCopies DEF Finalize
<1>5. ASSUME NEW m \in Managers, Reconcile(m) PROVE AnnouncementExpires'
  <2>1. \/ obj' = obj
        \/ \E r \in Reply : UpdateStatus(m, r) \/ Prepare(m, r) \/ Finalize(m, r)
    BY <1>5 DEF Reconcile, ReconcileReturn, ReconcileInit, ReconcileFallback, ReconcileRefuse,
                ReconcileUpdate, ReconcileWork
  <2> QED
    BY <1>0, <1>2, <1>3, <1>4, <2>1
<1>6. ASSUME NEW m \in Managers, Work(m) \/ Crash(m) \/ Restart(m) \/ Deliver(m) \/ Resync(m)
      PROVE  AnnouncementExpires'
  BY <1>0, <1>6 DEF Work, WorkDone, Crash, Restart, Deliver, Resync
<1>7. ASSUME User PROVE AnnouncementExpires'
  <2>1. ASSUME NEW s \in Targets, NEW v \in Validity, EditSpec(s, v) PROVE AnnouncementExpires'
    BY <2>1 DEF EditSpec, TypeOK, Copy, AnnouncementExpires
  <2>2. CASE obj'.status = NodeUnknown
    BY <2>2, IntermediateFacts DEF AnnouncementExpires
  <2> QED
    BY <1>7, <2>1, <2>2, FreshFacts DEF User, Create, Delete
<1>8. ASSUME Tick PROVE AnnouncementExpires'
  <2>1. /\ obj'.status = obj.status
        /\ obj'.deadline = NoDeadline <=> obj.deadline = NoDeadline
    BY <1>8, AgeNone DEF Tick, TypeOK, Copy
  <2> QED
    BY <2>1 DEF AnnouncementExpires
<1>9. CASE UNCHANGED vars
  BY <1>0, <1>9 DEF vars
<1> QED
  BY <1>5, <1>6, <1>7, <1>8, <1>9 DEF Next

\* A stored Launching or Deprecating always has a deadline, for any number of
\* managers: what a crash or a lost answer leaves behind can be taken back.
THEOREM AnnouncementsExpire == Spec => []AnnouncementExpires
<1>1. Init => AnnouncementExpires
  BY FreshFacts, IntermediateFacts DEF Init, AnnouncementExpires
<1>2. TypeOK /\ LockInv /\ AnnouncementExpires /\ [Next]_vars => AnnouncementExpires'
  BY AnnouncementStep
<1> QED
  BY <1>1, <1>2, TypeCorrect, LockHolds, PTL DEF Spec

-----------------------------------------------------------------------------
(***************************************************************************)
(* The outcome of an operation.                                            *)
(***************************************************************************)

\* The status after a status update is the old one or the one of the copy.
LEMMA UpdatedStatus ==
  ASSUME TypeOK, NEW m \in Managers, NEW c \in Copy, NEW r \in Reply, NEW next \in Copy,
         StatusUpdate(m, c, r, next), obj'.status # obj.status
  PROVE  c.ver = "current" /\ obj'.status = c.status
<1>1. r # "error"
  BY RefusedFacts
<1> QED
  BY <1>1, AppliedFacts

\* What one step may do to an intermediate status.
LEMMA OutcomeStep ==
  ASSUME TypeOK, LockInv, [Next]_vars,
         obj.status \in Intermediate, obj'.status # obj.status, obj'.exists
  PROVE  \/ obj'.status = getBeforeStatus(obj.status) /\ Expired(obj.deadline)
         \/ /\ obj.spec \in { NodeActive, NodeInactive }
            /\ obj.status = Announce(obj)
            /\ obj'.status \in { Outcome(obj, TRUE), Outcome(obj, FALSE) }
<1>1. ASSUME NEW m \in Managers, NEW r \in Reply, UpdateStatus(m, r)
      PROVE  obj'.status = getBeforeStatus(obj.status) /\ Expired(obj.deadline)
  <2>1. StatusUpdate(m, loc[m], r, NoCopy) /\ loc[m] \in Copy
    BY <1>1 DEF UpdateStatus, TypeOK
  <2>2. Current(m) /\ obj'.status = loc[m].status
    BY <2>1, UpdatedStatus, ConstantCopies DEF Current
  <2> QED
    BY <1>1, <2>2 DEF UpdateStatus, LockInv, UpdatesAreSafe
<1>2. ASSUME NEW m \in Managers, NEW r \in Reply, Prepare(m, r) PROVE FALSE
  <2> DEFINE c == Prepared(loc[m])
             next == IF r = "lost" THEN [c EXCEPT !.ver = "stale"] ELSE c
  <2>1. Announce(loc[m]) \in NodeStatus
    BY StatusTypes DEF TypeOK, Intermediate, NodeStatus
  <2>2. c \in Copy /\ c.status = Announce(loc[m]) /\ c.ver = loc[m].ver
    BY <2>1, TimeLeftTypes DEF Prepared, TypeOK, Copy
  <2>3. next \in Copy
    BY <2>2 DEF Copy, Version
  <2>4. StatusUpdate(m, c, r, next)
    BY <1>2 DEF Prepare
  <2> HIDE DEF c, next
  <2>5. Current(m) /\ obj'.status = Announce(loc[m])
    BY <2>2, <2>3, <2>4, UpdatedStatus DEF Current
  <2> QED
    BY <1>2, <2>5 DEF Prepare, LockInv, HolderIsAlone, Operating
<1>3. ASSUME NEW m \in Managers, NEW r \in Reply, Finalize(m, r)
      PROVE  /\ obj.spec \in { NodeActive, NodeInactive }
             /\ obj.status = Announce(obj)
             /\ obj'.status \in { Outcome(obj, TRUE), Outcome(obj, FALSE) }
  <2>1. /\ Finalized(m) \in Copy
        /\ Finalized(m).status = res[m]
        /\ Finalized(m).ver = loc[m].ver
    BY TimeLeftTypes DEF Finalized, TypeOK, Copy
  <2>2. Current(m) /\ obj'.status = res[m]
    BY <1>3, <2>1, UpdatedStatus, ConstantCopies DEF Finalize, Current
  <2>3. /\ loc[m].spec = obj.spec
        /\ loc[m].spec \in { NodeActive, NodeInactive }
    BY <1>3, <2>2 DEF Finalize, LockInv, CopiesAgree, Operating
  <2>4. /\ obj.status = Announce(loc[m])
        /\ res[m] \in { Outcome(loc[m], TRUE), Outcome(loc[m], FALSE) }
    BY <1>3, <2>2 DEF Finalize, LockInv, HolderIsAlone, Operating
  <2> QED
    BY <2>2, <2>3, <2>4 DEF Announce, Outcome
<1>4. ASSUME User PROVE FALSE
  <2>1. ASSUME NEW s \in Targets, NEW v \in Validity, EditSpec(s, v) PROVE FALSE
    BY <2>1 DEF EditSpec, TypeOK, Copy
  <2>2. ASSUME NEW s \in Targets, NEW v \in Validity, Create(s, v) PROVE FALSE
    BY <2>2, IntermediateFacts DEF Create, LockInv, CopiesAgree
  <2>3. CASE Delete
    BY <2>3 DEF Delete, Absent
  <2> QED
    BY <1>4, <2>1, <2>2, <2>3 DEF User
<1>5. ASSUME Tick PROVE FALSE
  BY <1>5 DEF Tick, TypeOK, Copy
<1>6. ASSUME NEW m \in Managers, Reconcile(m)
      PROVE \E r \in Reply : UpdateStatus(m, r) \/ Prepare(m, r) \/ Finalize(m, r)
  BY <1>6 DEF Reconcile, ReconcileReturn, ReconcileInit, ReconcileFallback,
              ReconcileRefuse, ReconcileUpdate, ReconcileWork
<1>7. ASSUME NEW m \in Managers,
             Work(m) \/ Crash(m) \/ Restart(m) \/ Deliver(m) \/ Resync(m)
      PROVE  FALSE
  BY <1>7 DEF Work, WorkDone, Crash, Restart, Deliver, Resync
<1>8. CASE UNCHANGED vars
  BY <1>8 DEF vars
<1> QED
  BY <1>1, <1>2, <1>3, <1>4, <1>5, <1>6, <1>7, <1>8 DEF Next

\* The outcome written over an intermediate status is one of the operation
\* the stored spec still asks for; everything else waits for the deadline
\* and goes back by the fallback.
THEOREM OutcomeCorrect == Spec => OutcomeMatchesTarget
<1>1. TypeOK /\ LockInv /\ [Next]_vars =>
        [ /\ obj.status \in Intermediate
          /\ obj'.status # obj.status
          /\ obj'.exists
          => \/ obj'.status = getBeforeStatus(obj.status) /\ Expired(obj.deadline)
             \/ /\ obj.spec \in { NodeActive, NodeInactive }
                /\ obj.status = Announce(obj)
                /\ obj'.status \in { Outcome(obj, TRUE), Outcome(obj, FALSE) } ]_vars
  BY OutcomeStep
<1> QED
  BY <1>1, TypeCorrect, LockHolds, PTL DEF Spec, OutcomeMatchesTarget

=============================================================================
