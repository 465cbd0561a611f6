--------------------------- MODULE NodeLeaseProofs ---------------------------
(***************************************************************************)
(* NodeDeployController implements NodeLease, for every set of managers    *)
(* and targets, every combination of faults, every deadline and every      *)
(* number of retries.                                                      *)
(***************************************************************************)
EXTENDS NodeDeployControllerProofs

\* What a lease does in a step that leaves it alone.
LEMMA LeaseStutters ==
  ASSUME Announced' = Announced,
         Announced => obj'.status = obj.status /\ obj'.deadline = obj.deadline,
         \A n \in Managers : Working(n)' <=> Working(n),
         Announced => \A n \in Managers :
           (Operating(n) /\ Current(n))' <=> (Operating(n) /\ Current(n))
  PROVE  UNCHANGED <<HeldFor, Remains, Owners, Workers>>
<1>1. HeldFor' = HeldFor /\ Remains' = Remains
  BY DEF HeldFor, Remains
<1>2. Owners' = Owners /\ Workers' = Workers
  BY DEF Owners, Workers
<1> QED
  BY <1>1, <1>2

\* After a status update that went through only its author owns the lease,
\* and that only if it has kept the copy it wrote.
LEMMA AppliedOwners ==
  ASSUME TypeOK, LockInv, NEW m \in Managers, NEW c \in Copy, NEW next \in Copy,
         NEW r \in Reply \ { "error" }, StatusUpdate(m, c, r, next),
         \A n \in Managers \ { m } : pc'[n] = pc[n],
         pc[m] = "update" \/ Operating(m), c.ver = loc[m].ver
  PROVE  /\ Current(m)
         /\ \A n \in Managers \ { m } : ~Current(n)' /\ (Working(n)' <=> Working(n))
         /\ next.ver # "current" => Owners' = {}
<1>1. /\ c.ver = "current"
      /\ loc'[m] = next
      /\ \A n \in Managers \ { m } :
           /\ loc'[n].ver # "current"
           /\ loc'[n].ver = "gone" <=> loc[n].ver = "gone"
           /\ loc'[n].deadline = loc[n].deadline
  BY AppliedFacts
<1>2. \A n \in Managers \ { m } : ~Current(n)' /\ (Working(n)' <=> Working(n))
  BY <1>1 DEF Current, Working
<1>3. next.ver # "current" => Owners' = {}
  BY <1>1, <1>2 DEF Owners, Current
<1> QED
  BY <1>1, <1>2, <1>3 DEF Current

\* prepare takes the lease or renews it.
LEMMA LeasePrepare ==
  ASSUME TypeOK, LockInv, NEW m \in Managers, NEW r \in Reply, Prepare(m, r)
  PROVE  Lease!Lend \/ UNCHANGED <<HeldFor, Remains, Owners, Workers>>
<1> DEFINE c == Prepared(loc[m])
           next == IF r = "lost" THEN [c EXCEPT !.ver = "stale"] ELSE c
<1>1. Announce(loc[m]) \in Intermediate /\ Announce(loc[m]) \in NodeStatus
  BY StatusTypes DEF TypeOK, Intermediate, NodeStatus
<1>2. /\ c \in Copy
      /\ c.status = Announce(loc[m])
      /\ c.deadline = DeadlineDuration
      /\ c.ver = loc[m].ver
  BY <1>1, TimeLeftTypes DEF Prepared, TypeOK, Copy
<1>3. /\ next \in Copy
      /\ next.ver = IF r = "lost" THEN "stale" ELSE loc[m].ver
      /\ next.deadline = DeadlineDuration
  BY <1>2 DEF Copy, Version
<1>4. StatusUpdate(m, c, r, next)
  BY DEF Prepare
<1>5. /\ pc[m] = "prepare"
      /\ pc'[m] \in { "prepare", "work", "finalize" }
      /\ pc'[m] = "work" <=> r = "ok"
      /\ \A n \in Managers \ { m } : pc'[n] = pc[n]
  BY DEF Prepare, FailAttempt, TypeOK
<1>6. Operating(m) /\ Operating(m)'
  BY <1>5 DEF Operating
<1> HIDE DEF c, next
<1>7. CASE r = "error"
  <2>1. /\ obj' = obj
        /\ loc'[m] = next
        /\ \A n \in Managers \ { m } : loc'[n] = loc[n]
    BY <1>2, <1>3, <1>4, <1>7, RefusedFacts
  <2>2. \A n \in Managers : Working(n)' <=> Working(n)
    BY <1>5, <1>7, <2>1 DEF Working
  <2>3. \A n \in Managers : (Operating(n) /\ Current(n))' <=> (Operating(n) /\ Current(n))
    BY <1>3, <1>5, <1>6, <1>7, <2>1 DEF Operating, Current
  <2> QED
    BY <2>1, <2>2, <2>3, LeaseStutters DEF Announced
<1>8. CASE r # "error"
  <2>1. /\ obj'.status = c.status
        /\ obj'.deadline = c.deadline
        /\ loc'[m] = next
    BY <1>2, <1>3, <1>4, <1>8, AppliedFacts
  <2>2. /\ Current(m)
        /\ \A n \in Managers \ { m } : ~Current(n)' /\ (Working(n)' <=> Working(n))
    BY <1>2, <1>3, <1>4, <1>5, <1>6, <1>8, AppliedOwners
  <2>3. \A n \in Managers \ { m } : ~Working(n)'
    BY <1>6, <2>2, HolderWorksAlone
  <2>4. Announced' /\ HeldFor' = Announce(loc[m]) /\ Remains' = DeadlineDuration
    BY <1>1, <1>2, <2>1 DEF Announced, HeldFor, Remains
  <2>5. \/ Owners' = { m } /\ Workers' = { m }
        \/ Owners' = {} /\ Workers' = {}
    <3>1. CASE r = "ok"
      <4>1. next.ver = "current" /\ next.deadline > 0
        BY <1>3, <2>2, <3>1, DeadlineAssumption DEF Current
      <4>2. Current(m)' /\ Working(m)'
        BY <1>5, <2>1, <3>1, <4>1 DEF Current, Working
      <4> QED
        BY <1>6, <2>2, <2>3, <2>4, <4>2 DEF Owners, Workers
    <3>2. CASE r = "lost"
      <4>1. ~Current(m)' /\ ~Working(m)'
        BY <1>3, <1>5, <2>1, <3>2 DEF Current, Working
      <4> QED
        BY <2>2, <2>3, <4>1 DEF Owners, Workers
    <3> QED
      BY <1>8, <3>1, <3>2 DEF Reply
  <2>6. Lease!Grant(m)
    BY <2>4, <2>5 DEF Lease!Grant
  <2>7. CASE Announced
    <3>1. m \in Owners /\ obj.status = Announce(loc[m])
      BY <1>6, <2>2, <2>7 DEF Owners, LockInv, HolderIsAlone, Announced
    <3>2. HeldFor' = HeldFor
      BY <2>4, <2>7, <3>1 DEF HeldFor
    <3> QED
      BY <2>6, <3>1, <3>2 DEF Lease!Lend, Lease!Renew
  <2>8. CASE ~Announced
    <3>1. HeldFor = "free" /\ HeldFor' \in Lease!Jobs
      BY <1>1, <2>4, <2>8 DEF HeldFor, Lease!Jobs, Intermediate, NodeLaunching, NodeDeprecating
    <3>2. obj.exists
      BY <1>6, <2>2 DEF LockInv, CopiesAgree
    <3> QED
      BY <2>6, <3>1, <3>2 DEF Lease!Lend, Lease!Take, Lease!Free
  <2> QED
    BY <2>7, <2>8
<1> QED
  BY <1>7, <1>8

\* The write of a plain status calls off a lease that has run out, or finds
\* none.
LEMMA LeaseUpdateStatus ==
  ASSUME TypeOK, LockInv, NEW m \in Managers, NEW r \in Reply, UpdateStatus(m, r)
  PROVE  Lease!Lend \/ UNCHANGED <<HeldFor, Remains, Owners, Workers>>
<1>1. /\ pc[m] = "update" /\ pc'[m] = "idle"
      /\ \A n \in Managers \ { m } : pc'[n] = pc[n]
  BY DEF UpdateStatus, Return, TypeOK
<1>2. ~Working(m) /\ ~Working(m)' /\ ~Operating(m) /\ ~Operating(m)'
  BY <1>1 DEF Working, Operating
<1>3. loc[m] \in Copy /\ NoCopy \in Copy /\ NoCopy.ver # "current"
  BY ConstantCopies, FreshFacts DEF TypeOK
<1>4. CASE loc[m] = obj \/ r = "error"
  <2>1. /\ obj' = obj
        /\ \A n \in Managers \ { m } : loc'[n] = loc[n]
    BY <1>3, <1>4, RefusedFacts DEF UpdateStatus, TypeOK
  <2>2. \A n \in Managers : Working(n)' <=> Working(n)
    BY <1>1, <1>2, <2>1 DEF Working
  <2>3. \A n \in Managers : (Operating(n) /\ Current(n))' <=> (Operating(n) /\ Current(n))
    BY <1>1, <1>2, <2>1 DEF Operating, Current
  <2> QED
    BY <2>1, <2>2, <2>3, LeaseStutters DEF Announced
<1>5. CASE loc[m] # obj /\ r # "error"
  <2>0. StatusUpdate(m, loc[m], r, NoCopy)
    BY <1>5 DEF UpdateStatus
  <2>1. obj'.status = loc[m].status
    BY <1>3, <1>5, <2>0, AppliedFacts
  <2>2. /\ Current(m)
        /\ \A n \in Managers \ { m } : ~Current(n)' /\ (Working(n)' <=> Working(n))
        /\ Owners' = {}
    BY <1>1, <1>3, <1>5, <2>0, AppliedOwners
  <2>3. ~Announced'
    BY <1>1, <2>1 DEF Announced, LockInv, UpdatesAreSafe
  <2>4. Workers' = Workers
    BY <1>2, <2>2 DEF Workers
  <2>5. HeldFor' = "free" /\ Remains' = 0
    BY <2>3 DEF HeldFor, Remains
  <2>6. CASE Announced
    <3>1. Remains = 0
      BY <1>1, <2>2, <2>6 DEF Remains, Announced, LockInv, UpdatesAreSafe, Expired
    <3>2. HeldFor # "free"
      BY <2>6 DEF HeldFor, Announced, Intermediate, NodeLaunching, NodeDeprecating
    <3> QED
      BY <2>2, <2>4, <2>5, <3>1, <3>2 DEF Lease!Lend, Lease!Expire, Lease!Free
  <2>7. CASE ~Announced
    <3>1. HeldFor = "free" /\ Remains = 0 /\ Owners = {}
      BY <2>7 DEF HeldFor, Remains, Owners
    <3> QED
      BY <2>2, <2>4, <2>5, <3>1
  <2> QED
    BY <2>6, <2>7
<1> QED
  BY <1>4, <1>5

\* finalize gives back the lease of its own operation.
LEMMA LeaseFinalize ==
  ASSUME TypeOK, LockInv, NEW m \in Managers, NEW r \in Reply, Finalize(m, r)
  PROVE  Lease!Lend \/ UNCHANGED <<HeldFor, Remains, Owners, Workers>>
<1>1. /\ pc[m] = "finalize" /\ pc'[m] = "idle"
      /\ \A n \in Managers \ { m } : pc'[n] = pc[n]
  BY DEF Finalize, Return, TypeOK
<1>2. ~Working(m) /\ ~Working(m)' /\ Operating(m) /\ ~Operating(m)'
  BY <1>1 DEF Working, Operating
<1>3. /\ Finalized(m) \in Copy
      /\ Finalized(m).status = res[m]
      /\ Finalized(m).ver = loc[m].ver
      /\ NoCopy \in Copy /\ NoCopy.ver # "current"
  BY TimeLeftTypes, ConstantCopies, FreshFacts DEF Finalized, TypeOK, Copy
<1>4. StatusUpdate(m, Finalized(m), r, NoCopy)
  BY DEF Finalize
<1>5. CASE r = "error"
  <2>1. /\ obj' = obj
        /\ \A n \in Managers \ { m } : loc'[n] = loc[n]
    BY <1>3, <1>4, <1>5, RefusedFacts
  <2>2. Workers' = Workers
    BY <1>1, <1>2, <2>1 DEF Workers, Working
  <2>3. Owners' = Owners \ { m }
    BY <1>1, <1>2, <2>1 DEF Owners, Operating, Current, Announced
  <2>4. HeldFor' = HeldFor /\ Remains' = Remains
    BY <2>1 DEF HeldFor, Remains, Announced
  <2>5. Workers' = Workers \ { m }
    BY <1>2, <2>2 DEF Workers
  <2> QED
    BY <2>3, <2>4, <2>5 DEF Lease!Lend, Lease!Leave
<1>6. CASE r # "error"
  <2>1. obj'.status = res[m]
    BY <1>3, <1>4, <1>6, AppliedFacts
  <2>2. /\ Current(m)
        /\ \A n \in Managers \ { m } : ~Current(n)' /\ (Working(n)' <=> Working(n))
        /\ Owners' = {}
    BY <1>1, <1>2, <1>3, <1>4, <1>6, AppliedOwners
  <2>3. ~Announced'
    BY <2>1 DEF Announced, LockInv, UpdatesAreSafe
  <2>4. Workers' = Workers
    BY <1>2, <2>2 DEF Workers
  <2>5. HeldFor' = "free" /\ Remains' = 0
    BY <2>3 DEF HeldFor, Remains
  <2>6. CASE Announced
    <3>1. m \in Owners \ Workers
      BY <1>2, <2>2, <2>6 DEF Owners, Workers
    <3> QED
      BY <2>2, <2>4, <2>5, <3>1 DEF Lease!Lend, Lease!GiveBack, Lease!Free
  <2>7. CASE ~Announced
    <3>1. HeldFor = "free" /\ Remains = 0 /\ Owners = {}
      BY <2>7 DEF HeldFor, Remains, Owners
    <3> QED
      BY <2>2, <2>4, <2>5, <3>1
  <2> QED
    BY <2>6, <2>7
<1> QED
  BY <1>5, <1>6

\* A step of one manager that neither writes the object nor begins or ends
\* an operation of it.
LEMMA LeaseQuietStep ==
  ASSUME TypeOK, LockInv, NEW m \in Managers, obj' = obj,
         \A n \in Managers \ { m } : pc'[n] = pc[n] /\ loc'[n] = loc[n],
         ~Working(m), ~Working(m)',
         Announced => ((Operating(m) /\ Current(m))' <=> (Operating(m) /\ Current(m)))
  PROVE  UNCHANGED <<HeldFor, Remains, Owners, Workers>>
<1>1. \A n \in Managers : Working(n)' <=> Working(n)
  BY DEF Working
<1>2. Announced => \A n \in Managers :
        (Operating(n) /\ Current(n))' <=> (Operating(n) /\ Current(n))
  BY DEF Operating, Current
<1> QED
  BY <1>1, <1>2, LeaseStutters DEF Announced

\* The decision of Reconcile, taken on whatever the cache holds, is not yet
\* a claim to the lease.
LEMMA LeaseReconcile ==
  ASSUME TypeOK, LockInv, NEW m \in Managers, Reconcile(m)
  PROVE  Lease!Lend \/ UNCHANGED <<HeldFor, Remains, Owners, Workers>>
<1>1. CASE ReconcileReturn(m)
  <2>1. obj' = obj /\ pc' = pc /\ loc' = loc
    BY <1>1 DEF ReconcileReturn, mgr
  <2>2. pc[m] = "idle"
    BY <1>1 DEF ReconcileReturn, Dequeue
  <2> QED
    BY <2>1, <2>2, LeaseQuietStep DEF Working, Operating
<1>2. ASSUME NEW status, ReconcileUpdate(m, status)
      PROVE  UNCHANGED <<HeldFor, Remains, Owners, Workers>>
  <2>1. /\ obj' = obj /\ pc[m] = "idle" /\ pc'[m] = "update"
        /\ \A n \in Managers \ { m } : pc'[n] = pc[n] /\ loc'[n] = loc[n]
    BY <1>2 DEF ReconcileUpdate, Dequeue, TypeOK
  <2> QED
    BY <2>1, LeaseQuietStep DEF Working, Operating
<1>3. CASE ReconcileWork(m)
  <2>1. /\ obj' = obj /\ pc[m] = "idle" /\ pc'[m] = "prepare" /\ loc'[m] = cache[m]
        /\ \A n \in Managers \ { m } : pc'[n] = pc[n] /\ loc'[n] = loc[n]
    BY <1>3 DEF ReconcileWork, Dequeue, TypeOK
  <2>2. cache[m].status \notin Intermediate
    BY <1>3 DEF ReconcileWork, NeedsWork, Pending
  <2>3. Announced => ~Current(m)'
    BY <2>1, <2>2 DEF Announced, Current, LockInv, CopiesAgree
  <2> QED
    BY <2>1, <2>3, LeaseQuietStep DEF Working, Operating
<1> QED
  BY <1>1, <1>2, <1>3, LeaseUpdateStatus, LeasePrepare, LeaseFinalize
     DEF Reconcile, ReconcileInit, ReconcileFallback, ReconcileRefuse

\* An operation ends: its manager keeps the lease and may renew it.
LEMMA LeaseWork ==
  ASSUME TypeOK, LockInv, NEW m \in Managers, Work(m)
  PROVE  Lease!Lend \/ UNCHANGED <<HeldFor, Remains, Owners, Workers>>
<1>1. /\ obj' = obj /\ loc' = loc
      /\ pc[m] = "work" /\ pc'[m] \in { "prepare", "finalize" }
      /\ \A n \in Managers \ { m } : pc'[n] = pc[n]
  BY DEF Work, WorkDone, FailAttempt, TypeOK
<1>2. \A n \in Managers : Operating(n)' <=> Operating(n)
  BY <1>1 DEF Operating
<1>3. HeldFor' = HeldFor /\ Remains' = Remains /\ Owners' = Owners
  BY <1>1, <1>2 DEF HeldFor, Remains, Owners, Announced, Current
<1>4. Workers' = Workers \ { m }
  BY <1>1 DEF Workers, Working
<1>5. CASE m \in Workers
  BY <1>3, <1>4, <1>5 DEF Lease!Lend, Lease!Stop
<1>6. CASE m \notin Workers
  BY <1>3, <1>4, <1>6
<1> QED
  BY <1>5, <1>6

\* A process that dies leaves the lease to run out; its successor has no
\* claim to it.
LEMMA LeaseProcess ==
  ASSUME TypeOK, LockInv, NEW m \in Managers,
         Crash(m) \/ Restart(m) \/ Deliver(m) \/ Resync(m)
  PROVE  Lease!Lend \/ UNCHANGED <<HeldFor, Remains, Owners, Workers>>
<1>1. CASE Crash(m)
  <2>1. /\ obj' = obj /\ pc'[m] = "down"
        /\ \A n \in Managers \ { m } : pc'[n] = pc[n] /\ loc'[n] = loc[n]
    BY <1>1 DEF Crash, TypeOK
  <2>2. HeldFor' = HeldFor /\ Remains' = Remains
    BY <2>1 DEF HeldFor, Remains, Announced
  <2>3. Owners' = Owners \ { m }
    BY <2>1 DEF Owners, Operating, Current, Announced
  <2>4. Workers' = Workers \ { m }
    BY <2>1 DEF Workers, Working
  <2> QED
    BY <2>2, <2>3, <2>4 DEF Lease!Lend, Lease!Leave
<1>2. CASE Restart(m)
  <2>1. /\ obj' = obj /\ pc[m] = "down" /\ pc'[m] = "idle" /\ loc' = loc
        /\ \A n \in Managers \ { m } : pc'[n] = pc[n]
    BY <1>2 DEF Restart, TypeOK
  <2> QED
    BY <2>1, LeaseQuietStep DEF Working, Operating
<1>3. CASE Deliver(m) \/ Resync(m)
  <2>1. obj' = obj /\ pc' = pc /\ loc' = loc
    BY <1>3 DEF Deliver, Resync, mgr
  <2> QED
    BY <2>1 DEF HeldFor, Remains, Owners, Workers, Announced, Operating, Current, Working
<1> QED
  BY <1>1, <1>2, <1>3

\* Only the user creates and deletes the object: a status update goes through
\* on the object it was read from.
LEMMA ManagerKeepsObject ==
  ASSUME TypeOK, LockInv, NEW m \in Managers,
         \/ Reconcile(m) \/ Work(m)
         \/ Crash(m) \/ Restart(m) \/ Deliver(m) \/ Resync(m)
  PROVE  obj'.exists = obj.exists
<1>1. ASSUME NEW c \in Copy, NEW next \in Copy, NEW r \in Reply, StatusUpdate(m, c, r, next),
             pc[m] = "update" \/ Operating(m), c.ver = loc[m].ver, c.exists = loc[m].exists
      PROVE  obj'.exists = obj.exists
  <2>1. CASE r = "error"
    BY <1>1, <2>1, RefusedFacts
  <2>2. CASE r # "error"
    <3>1. c.ver = "current" /\ obj'.exists = c.exists
      BY <1>1, <2>2, AppliedFacts
    <3>2. loc[m].exists /\ obj.exists
      BY <1>1, <3>1 DEF LockInv, CopiesAgree, Current
    <3> QED
      BY <1>1, <3>1, <3>2 DEF TypeOK, Copy
  <2> QED
    BY <2>1, <2>2
<1>2. ASSUME NEW r \in Reply, UpdateStatus(m, r) PROVE obj'.exists = obj.exists
  <2>1. pc[m] = "update" /\ loc[m] \in Copy /\ NoCopy \in Copy
    BY <1>2, ConstantCopies DEF UpdateStatus, TypeOK
  <2> QED
    BY <1>1, <1>2, <2>1 DEF UpdateStatus
<1>3. ASSUME NEW r \in Reply, Prepare(m, r) PROVE obj'.exists = obj.exists
  <2> DEFINE c == Prepared(loc[m])
             next == IF r = "lost" THEN [c EXCEPT !.ver = "stale"] ELSE c
  <2>1. /\ c \in Copy /\ c.ver = loc[m].ver /\ c.exists = loc[m].exists
    BY StatusTypes, TimeLeftTypes DEF Prepared, TypeOK, Copy, Intermediate, NodeStatus
  <2>2. next \in Copy
    BY <2>1 DEF Copy, Version
  <2>3. StatusUpdate(m, c, r, next) /\ Operating(m)
    BY <1>3 DEF Prepare, Operating
  <2> HIDE DEF c, next
  <2> QED
    BY <1>1, <2>1, <2>2, <2>3
<1>4. ASSUME NEW r \in Reply, Finalize(m, r) PROVE obj'.exists = obj.exists
  <2>1. /\ Finalized(m) \in Copy /\ NoCopy \in Copy
        /\ Finalized(m).ver = loc[m].ver /\ Finalized(m).exists = loc[m].exists
    BY TimeLeftTypes, ConstantCopies DEF Finalized, TypeOK, Copy
  <2>2. StatusUpdate(m, Finalized(m), r, NoCopy) /\ Operating(m)
    BY <1>4 DEF Finalize, Operating
  <2> QED
    BY <1>1, <2>1, <2>2
<1>5. ASSUME \/ ReconcileReturn(m) \/ ReconcileWork(m) \/ Work(m)
             \/ Crash(m) \/ Restart(m) \/ Deliver(m) \/ Resync(m)
      PROVE  obj'.exists = obj.exists
  BY <1>5 DEF ReconcileReturn, ReconcileWork, Work, WorkDone, Crash, Restart,
     Deliver, Resync
<1>6. ASSUME NEW status, ReconcileUpdate(m, status) PROVE obj'.exists = obj.exists
  BY <1>6 DEF ReconcileUpdate
<1> QED
  BY <1>2, <1>3, <1>4, <1>5, <1>6
     DEF Reconcile, ReconcileInit, ReconcileFallback, ReconcileRefuse

\* An edit leaves the lease without an owner, a deletion takes it away.
LEMMA LeaseUser ==
  ASSUME TypeOK, LockInv, User
  PROVE  Lease!Next
<1>1. ASSUME NEW s \in Targets, NEW v \in Validity, EditSpec(s, v)
      PROVE  Lease!Next
  <2>1. obj'.exists = obj.exists /\ obj'.status = obj.status /\ obj'.deadline = obj.deadline /\ pc' = pc
    BY <1>1 DEF EditSpec, TypeOK, Copy
  <2>2. \A n \in Managers : /\ loc'[n].ver # "current"
                            /\ loc'[n].ver = "gone" <=> loc[n].ver = "gone"
    BY <1>1, OutdatedVersions DEF EditSpec, TypeOK
  <2>3. \A n \in Managers : loc'[n].deadline = loc[n].deadline
    BY <1>1, OutdatedCopies DEF EditSpec, TypeOK
  <2>4. HeldFor' = HeldFor /\ Remains' = Remains
    BY <2>1 DEF HeldFor, Remains, Announced
  <2>5. Owners' = {} /\ Workers' = Workers
    BY <2>1, <2>2, <2>3 DEF Owners, Workers, Current, Working
  <2> QED
    BY <2>1, <2>4, <2>5 DEF Lease!Next, Lease!Lend, Lease!Disown
<1>2. ASSUME NEW s \in Targets, NEW v \in Validity, Create(s, v)
      PROVE  Lease!Next
  <2>1. ~Announced /\ ~Announced'
    BY <1>2, FreshFacts, IntermediateFacts DEF Create, Announced, LockInv, CopiesAgree
  <2>2. \A n \in Managers : Working(n)' <=> Working(n)
    BY <1>2 DEF Create, mgr, Working
  <2>3. UNCHANGED <<HeldFor, Remains, Owners, Workers>>
    BY <2>1, <2>2, LeaseStutters DEF Announced
  <2>4. ~obj.exists /\ obj'.exists = TRUE
    BY <1>2 DEF Create, Created, Absent
  <2> QED
    BY <2>3, <2>4 DEF Lease!Next, Lease!Create
<1>3. CASE Delete
  <2>1. ~Announced'
    BY <1>3, FreshFacts, IntermediateFacts DEF Delete, Announced
  <2>2. \A n \in Managers : loc'[n].ver = "gone"
    BY <1>3, OutdatedVersions DEF Delete, TypeOK
  <2>3. HeldFor' = "free" /\ Remains' = 0
    BY <2>1 DEF HeldFor, Remains
  <2>4. Owners' = {} /\ Workers' = {}
    BY <2>2 DEF Owners, Workers, Current, Working
  <2>5. obj.exists /\ obj'.exists = FALSE
    BY <1>3 DEF Delete, Absent
  <2> QED
    BY <2>3, <2>4, <2>5 DEF Lease!Next, Lease!Revoke, Lease!Free
<1> QED
  BY <1>1, <1>2, <1>3 DEF User

\* A worker's own deadline passes no later than the lease.
LEMMA LeaseTick ==
  ASSUME TypeOK, LockInv, LockInv', TypeOK', Tick
  PROVE  Lease!Lend
<1>1. /\ obj'.status = obj.status /\ obj'.deadline = Age(obj.deadline)
      /\ pc' = pc
      /\ \A n \in Managers : /\ loc'[n].ver = loc[n].ver
                             /\ loc'[n].deadline = Age(loc[n].deadline)
  <2>1. \A d \in Copy :
          LET e == [d EXCEPT !.deadline = Age(@)]
          IN  e.status = d.status /\ e.ver = d.ver /\ e.deadline = Age(d.deadline)
    BY DEF Copy
  <2> QED
    BY <2>1 DEF Tick, TypeOK
<1>2. /\ obj.deadline \in TimeLeft
      /\ \A n \in Managers : loc[n].deadline \in TimeLeft /\ loc'[n].deadline \in TimeLeft
  BY DEF TypeOK, Copy
<1>3. HeldFor' = HeldFor
  BY <1>1 DEF HeldFor, Announced
<1>4. Remains' = IF Remains > 0 THEN Remains - 1 ELSE Remains
  BY <1>1 DEF Remains, Announced, Age
<1>5. Owners' = Owners
  BY <1>1 DEF Owners, Operating, Current, Announced
<1>6. Workers' \in SUBSET Workers
  BY <1>1, <1>2, AgeFacts DEF Workers, Working
<1>7. ASSUME NEW n \in Managers, Working(n)' PROVE Remains' > 0
  <2>1. obj'.status = Announce(loc'[n]) /\ obj'.deadline >= loc'[n].deadline
    BY <1>7 DEF LockInv, WorkIsAnnounced
  <2>2. Announced'
    BY <2>1, StatusTypes DEF Announced, TypeOK
  <2>3. loc'[n].deadline > 0 /\ loc'[n].deadline \in Int /\ obj'.deadline \in Int
    BY <1>1, <1>2, <1>7, AgeFacts DEF Working, TimeLeft
  <2> QED
    BY <2>1, <2>2, <2>3 DEF Remains
<1>8. Workers' # {} => Remains' > 0
  BY <1>7 DEF Workers
<1> QED
  BY <1>3, <1>4, <1>5, <1>6, <1>8 DEF Lease!Lend, Lease!Tick

\* Every step of the controller is a step of the lease or does not touch it.
LEMMA LeaseStep ==
  TypeOK /\ LockInv /\ TypeOK' /\ LockInv' /\ [Next]_vars =>
    [Lease!Next]_Lease!leaseVars
<1> SUFFICES ASSUME TypeOK, LockInv, TypeOK', LockInv', [Next]_vars
             PROVE  Lease!Next \/ UNCHANGED Lease!leaseVars
  OBVIOUS
<1>1. CASE UNCHANGED vars
  BY <1>1 DEF vars, HeldFor, Remains, Owners, Workers, Announced, Operating, Current, Working,
     Lease!leaseVars
<1>2. CASE Tick
  <2>1. obj'.exists = obj.exists
    BY <1>2 DEF Tick, TypeOK, Copy
  <2> QED
    BY <1>2, <2>1, LeaseTick DEF Lease!Next
<1>3. ASSUME NEW m \in Managers,
             \/ Reconcile(m) \/ Work(m)
             \/ Crash(m) \/ Restart(m) \/ Deliver(m) \/ Resync(m)
      PROVE  Lease!Next \/ UNCHANGED Lease!leaseVars
  <2>1. obj'.exists = obj.exists
    BY <1>3, ManagerKeepsObject
  <2>2. Lease!Lend \/ UNCHANGED <<HeldFor, Remains, Owners, Workers>>
    BY <1>3, LeaseReconcile, LeaseWork, LeaseProcess
  <2> QED
    BY <2>1, <2>2 DEF Lease!Next, Lease!leaseVars
<1> QED
  BY <1>1, <1>2, <1>3, LeaseUser DEF Next

\* The status of a NodeDeploy is a lease on its machine: the controller,
\* with any number of managers, stale caches, lost answers, edits and
\* crashes, implements NodeLease.
THEOREM LeaseImplemented == Spec => LeaseSpec
<1>1. Init => Lease!Init
  <2> SUFFICES ASSUME Init PROVE Lease!Init
    OBVIOUS
  <2>1. ~Announced
    BY FreshFacts, IntermediateFacts DEF Init, Announced
  <2>2. \A m \in Managers : pc[m] = "idle"
    BY DEF Init
  <2>3. obj.exists = TRUE
    BY DEF Init, Created, Absent
  <2> QED
    BY <2>1, <2>2, <2>3 DEF Lease!Init, Lease!Free, HeldFor, Remains, Owners, Workers, Working
<1>2. TypeOK /\ LockInv /\ TypeOK' /\ LockInv' /\ [Next]_vars =>
        [Lease!Next]_Lease!leaseVars
  BY LeaseStep
<1> QED
  BY <1>1, <1>2, TypeCorrect, LockHolds, PTL DEF Spec, LeaseSpec, Lease!Spec

\* What the lease promises, of the controller: at most one manager operates
\* or may still write the status of an operation.
THEOREM LeaseIsExclusive == Spec => []Lease!Exclusive
<1>1. Lease!Spec => []Lease!Exclusive
  BY DeadlineAssumption, Lease!LeaseExcludes
<1> QED
  BY <1>1, LeaseImplemented, PTL DEF LeaseSpec

=============================================================================
