------------------------ MODULE NodeDeployController ------------------------
(***************************************************************************)
(* The reconciler of controllers/nodedeploy_controller.go, run by one or   *)
(* more manager processes over one NodeDeploy object.                      *)
(*                                                                         *)
(* The object lives in the API server.  Every manager reads it from its    *)
(* informer cache and writes only its status subresource, by an optimistic *)
(* update that the API server refuses when the object has changed since    *)
(* the copy in hand was read.  The status and its deadline are the lock    *)
(* between the managers: prepare announces Launching or Deprecating with a *)
(* deadline, and a status that is past its deadline may be taken over.     *)
(*                                                                         *)
(* Resource versions and uids are abstracted to what a copy knows of them: *)
(* "current" (the stored version), "stale" (an older version of the same   *)
(* object) or "gone" (the object was deleted since).                       *)
(***************************************************************************)
EXTENDS NodeDeployTypes

CONSTANTS
  Managers,   \* the manager processes
  Targets,    \* the values the user gives Spec.NodeStatus
  Validity,   \* the verdicts of preflight the user's specs can get
  Faults      \* what the environment does, a subset of AllFaults

\* Api: writes fail or lose their reply.  crash: managers die and restart.
\* edit: the user updates the spec.  recreate: the user deletes and creates.
AllFaults == { "api", "crash", "edit", "recreate" }

ASSUME ValidityAssumption == Validity \subseteq BOOLEAN
ASSUME FaultsAssumption == Faults \subseteq AllFaults

VARIABLES
  obj,      \* the stored NodeDeploy
  cache,    \* cache[m]: the copy in m's informer cache
  queued,   \* queued[m]: the key is in m's workqueue, or marked dirty
  pc,       \* pc[m]: where m's Reconcile call stands
  loc,      \* loc[m]: the local variable nodeDeploy of that call
  res,      \* res[m]: its local variable status
  tries     \* tries[m]: the calls of retryV4.Do that have failed

mgr  == <<pc, loc, res, tries>>
vars == <<obj, cache, queued, pc, loc, res, tries>>

Version == { "current", "stale", "gone" }

\* A spec without target has the empty string, which is also NodeUnknown.
Copy == [ exists: BOOLEAN, spec: Targets \cup { NodeUnknown }, valid: BOOLEAN,
          status: NodeStatus, deadline: TimeLeft, ver: Version ]

Absent == [ exists |-> FALSE, spec |-> NodeUnknown, valid |-> FALSE,
            status |-> NodeUnknown, deadline |-> NoDeadline, ver |-> "current" ]

\* loc[m] outside of a Reconcile call.
NoCopy == [Absent EXCEPT !.ver = "gone"]

Created(s, v) == [Absent EXCEPT !.exists = TRUE, !.spec = s, !.valid = v]

PC == { "down", "idle", "update", "prepare", "work", "finalize" }

TypeOK ==
  /\ obj \in Copy /\ obj.ver = "current"
  /\ cache \in [Managers -> Copy]
  /\ queued \in [Managers -> BOOLEAN]
  /\ pc \in [Managers -> PC]
  /\ loc \in [Managers -> Copy]
  /\ res \in [Managers -> NodeStatus]
  /\ tries \in [Managers -> Nat]

Init ==
  /\ \E s \in Targets, v \in Validity : obj = Created(s, v)
  /\ cache = [m \in Managers |-> obj]
  /\ queued = [m \in Managers |-> TRUE]
  /\ pc = [m \in Managers |-> "idle"]
  /\ loc = [m \in Managers |-> NoCopy]
  /\ res = [m \in Managers |-> NodeUnknown]
  /\ tries = [m \in Managers |-> 0]

-----------------------------------------------------------------------------
(***************************************************************************)
(* The API server.                                                         *)
(***************************************************************************)

\* The copies S after the object moved on to another version or was deleted.
Outdated(S, v) ==
  [m \in Managers |-> [S[m] EXCEPT !.ver = IF @ = "gone" THEN "gone" ELSE v]]

Reply == { "ok", "error", "lost" }

\* May a status update with copy c be answered by r?  "error" leaves the
\* object alone, "lost" is a write whose answer never came back.
Answers(c, r) ==
  CASE r = "ok"    -> c.ver = "current"
    [] r = "error" -> c.ver # "current" \/ "api" \in Faults
    [] r = "lost"  -> c.ver = "current" /\ "api" \in Faults

\* r.Status().Update(ctx, c) by m, which is left with the copy next.
StatusUpdate(m, c, r, next) ==
  /\ Answers(c, r)
  /\ obj' = IF r = "error" THEN obj ELSE [c EXCEPT !.ver = "current"]
  /\ cache' = IF r = "error" THEN cache ELSE Outdated(cache, "stale")
  /\ loc' = [IF r = "error" THEN loc ELSE Outdated(loc, "stale")
               EXCEPT ![m] = next]

-----------------------------------------------------------------------------
(***************************************************************************)
(* Reconcile.                                                              *)
(***************************************************************************)

\* The call begins: the key leaves the workqueue, r.Get reads the cache.
Dequeue(m) ==
  /\ pc[m] = "idle"
  /\ queued[m]
  /\ queued' = [queued EXCEPT ![m] = FALSE]

\* The call ends; an error puts the key back into the workqueue.
Return(m, failed) ==
  /\ pc' = [pc EXCEPT ![m] = "idle"]
  /\ res' = [res EXCEPT ![m] = NodeUnknown]
  /\ tries' = [tries EXCEPT ![m] = 0]
  /\ queued' = [queued EXCEPT ![m] = @ \/ failed]

\* Nothing to do: not found, target reached, someone else is at it, the
\* operation has failed before, no target, or from init to inactive.
ReconcileReturn(m) ==
  /\ Dequeue(m)
  /\ LET c == cache[m]
     IN  ~ (NeedsInit(c) \/ NeedsFallback(c) \/ NeedsRefusal(c) \/ NeedsWork(c))
  /\ UNCHANGED <<obj, cache, mgr>>

\* The branches that only write a new status.
ReconcileUpdate(m, status) ==
  /\ Dequeue(m)
  /\ pc' = [pc EXCEPT ![m] = "update"]
  /\ loc' = [loc EXCEPT ![m] = [cache[m] EXCEPT !.status = status]]
  /\ UNCHANGED <<obj, cache, res, tries>>

ReconcileInit(m) ==
  NeedsInit(cache[m]) /\ ReconcileUpdate(m, NodeInit)

ReconcileFallback(m) ==
  NeedsFallback(cache[m]) /\ ReconcileUpdate(m, getBeforeStatus(cache[m].status))

ReconcileRefuse(m) ==
  NeedsRefusal(cache[m]) /\ ReconcileUpdate(m, RefusedStatus(cache[m]))

\* A write that changes nothing does not make a new version of the object.
UpdateStatus(m, r) ==
  /\ pc[m] = "update"
  /\ \/ /\ loc[m] # obj
        /\ StatusUpdate(m, loc[m], r, NoCopy)
     \/ /\ loc[m] = obj
        /\ Answers(loc[m], r)
        /\ loc' = [loc EXCEPT ![m] = NoCopy]
        /\ UNCHANGED <<obj, cache>>
  /\ Return(m, r # "ok")

ReconcileWork(m) ==
  /\ NeedsWork(cache[m])
  /\ Dequeue(m)
  /\ pc' = [pc EXCEPT ![m] = "prepare"]
  /\ loc' = [loc EXCEPT ![m] = cache[m]]
  /\ UNCHANGED <<obj, cache, res, tries>>

\* A call of the function given to retryV4.Do has returned an error.
FailAttempt(m) ==
  /\ pc' = [pc EXCEPT ![m] = IF LastAttempt(tries[m]) THEN "finalize" ELSE "prepare"]
  /\ tries' = [tries EXCEPT ![m] = NextTry(@)]

\* Mutant: the deadline is one tick too far away.
PreparedLate(c) == [c EXCEPT !.status = Announce(c), !.deadline = DeadlineDuration + 1]

\* Mutant: an attempt after the first keeps the deadline of the first.
PreparedKeepsDeadline(c) ==
  [c EXCEPT !.status = Announce(c),
            !.deadline = IF c.status = Announce(c) THEN @ ELSE DeadlineDuration]

\* Mutant: the deadline is not set.
PreparedForever(c) == [c EXCEPT !.status = Announce(c)]

\* The in-memory copy that prepare fills in and writes.
Prepared(c) == [c EXCEPT !.status = Announce(c), !.deadline = DeadlineDuration]

\* Mutant: the error of prepare is dropped.
PrepareIgnoringError(m, r) ==
  /\ pc[m] = "prepare"
  /\ LET c == Prepared(loc[m])
     IN  StatusUpdate(m, c, r, IF r = "lost" THEN [c EXCEPT !.ver = "stale"] ELSE c)
  /\ pc' = [pc EXCEPT ![m] = "work"]
  /\ UNCHANGED <<queued, res, tries>>

\* prepare: the object in memory changes whatever becomes of the write.
Prepare(m, r) ==
  /\ pc[m] = "prepare"
  /\ LET c == Prepared(loc[m])
     IN  StatusUpdate(m, c, r, IF r = "lost" THEN [c EXCEPT !.ver = "stale"] ELSE c)
  /\ \/ /\ r = "ok"
        /\ pc' = [pc EXCEPT ![m] = "work"]
        /\ UNCHANGED tries
     \/ /\ r # "ok"
        /\ FailAttempt(m)
  /\ UNCHANGED <<queued, res>>

\* launchNode or deprecateNode comes back: (true, nil), (false, nil) or
\* (false, err).  Only an error makes retryV4.Do call again.
WorkDone(m, success, failed) ==
  /\ pc[m] = "work"
  /\ ~ (success /\ failed)
  /\ res' = [res EXCEPT ![m] = Outcome(loc[m], success)]
  /\ \/ /\ ~failed
        /\ pc' = [pc EXCEPT ![m] = "finalize"]
        /\ UNCHANGED tries
     \/ failed /\ FailAttempt(m)
  /\ UNCHANGED <<obj, cache, queued, loc>>

\* Mutant: finalize reads the object again before it writes.
FinalizedAnew(m) == [obj EXCEPT !.status = res[m], !.deadline = NoDeadline]

Finalized(m) == [loc[m] EXCEPT !.status = res[m], !.deadline = NoDeadline]

Finalize(m, r) ==
  /\ pc[m] = "finalize"
  /\ StatusUpdate(m, Finalized(m), r, NoCopy)
  /\ Return(m, r # "ok")

-----------------------------------------------------------------------------
(***************************************************************************)
(* The manager process and its informer (controller-runtime, external).    *)
(***************************************************************************)
Crash(m) ==
  /\ "crash" \in Faults
  /\ pc[m] # "down"
  /\ pc' = [pc EXCEPT ![m] = "down"]
  /\ loc' = [loc EXCEPT ![m] = NoCopy]
  /\ cache' = [cache EXCEPT ![m] = NoCopy]
  /\ queued' = [queued EXCEPT ![m] = FALSE]
  /\ res' = [res EXCEPT ![m] = NodeUnknown]
  /\ tries' = [tries EXCEPT ![m] = 0]
  /\ UNCHANGED obj

\* A new process lists the objects and queues every one it finds.
Restart(m) ==
  /\ pc[m] = "down"
  /\ pc' = [pc EXCEPT ![m] = "idle"]
  /\ cache' = [cache EXCEPT ![m] = obj]
  /\ queued' = [queued EXCEPT ![m] = obj.exists]
  /\ UNCHANGED <<obj, loc, res, tries>>

\* The informer catches up with the stored object and queues the key.
Deliver(m) ==
  /\ pc[m] # "down"
  /\ cache[m] # obj
  /\ cache' = [cache EXCEPT ![m] = obj]
  /\ queued' = [queued EXCEPT ![m] = TRUE]
  /\ UNCHANGED <<obj, mgr>>

\* The periodic resync (SyncPeriod) queues the cached object again.
Resync(m) ==
  /\ pc[m] # "down"
  /\ cache[m].exists
  /\ queued' = [queued EXCEPT ![m] = TRUE]
  /\ UNCHANGED <<obj, cache, mgr>>

-----------------------------------------------------------------------------
(***************************************************************************)
(* The user and the clock.                                                 *)
(***************************************************************************)

\* An edit of any field of the spec makes a new version of the object; one
\* of a field other than NodeStatus, and of those that preflight looks at,
\* is an edit with the target and the validity that it had.
EditSpec(s, v) ==
  /\ "edit" \in Faults
  /\ obj.exists
  /\ obj' = [obj EXCEPT !.spec = s, !.valid = v]
  /\ cache' = Outdated(cache, "stale")
  /\ loc' = Outdated(loc, "stale")
  /\ UNCHANGED <<queued, pc, res, tries>>

Delete ==
  /\ "recreate" \in Faults
  /\ obj.exists
  /\ obj' = Absent
  /\ cache' = Outdated(cache, "gone")
  /\ loc' = Outdated(loc, "gone")
  /\ UNCHANGED <<queued, pc, res, tries>>

Create(s, v) ==
  /\ ~obj.exists
  /\ obj' = Created(s, v)
  /\ cache' = Outdated(cache, "gone")
  /\ UNCHANGED <<queued, mgr>>

\* Time passes for the deadlines in every copy alike: the managers, each of
\* which compares a deadline with its own time.Now(), are taken to have
\* clocks that agree.
Tick ==
  /\ obj' = [obj EXCEPT !.deadline = Age(@)]
  /\ cache' = [m \in Managers |-> [cache[m] EXCEPT !.deadline = Age(@)]]
  /\ loc' = [m \in Managers |-> [loc[m] EXCEPT !.deadline = Age(@)]]
  /\ UNCHANGED <<queued, pc, res, tries>>

-----------------------------------------------------------------------------
Reconcile(m) ==
  \/ ReconcileReturn(m)
  \/ ReconcileInit(m)
  \/ ReconcileFallback(m)
  \/ ReconcileRefuse(m)
  \/ ReconcileWork(m)
  \/ \E r \in Reply : UpdateStatus(m, r) \/ Prepare(m, r) \/ Finalize(m, r)

Work(m) == \E success, failed \in BOOLEAN : WorkDone(m, success, failed)

User ==
  \/ \E s \in Targets, v \in Validity : EditSpec(s, v) \/ Create(s, v)
  \/ Delete

Next ==
  \/ \E m \in Managers : \/ Reconcile(m) \/ Work(m)
                         \/ Crash(m) \/ Restart(m) \/ Deliver(m) \/ Resync(m)
  \/ User
  \/ Tick

Spec == Init /\ [][Next]_vars

-----------------------------------------------------------------------------
(***************************************************************************)
(* Safety.                                                                 *)
(***************************************************************************)

\* m runs launchNode or deprecateNode for the stored object, within the
\* deadline it announced.
Working(m) == pc[m] = "work" /\ loc[m].ver # "gone" /\ loc[m].deadline > 0

\* While a manager works within its deadline, the stored status announces its
\* operation and no other, with a deadline that is no earlier: the status
\* written by prepare is not lost to another manager, to a user's edit of the
\* target or to a late finalize.
WorkIsAnnounced ==
  \A m \in Managers :
    Working(m) => /\ obj.status = Announce(loc[m])
                  /\ obj.deadline >= loc[m].deadline

\* Two managers never work on the same object at once within their
\* deadlines: the announced status excludes the other one, however stale
\* its cache is ("other thread are processing").
NoOverlap ==
  \A m1, m2 \in Managers : Working(m1) /\ Working(m2) => m1 = m2

\* Nobody announces an operation for ever: a stored Launching or Deprecating
\* has a deadline, whichever of the writes of prepare, of the fallback, of a
\* refusal and of finalize came last and whoever died since.  Without one the
\* fallback would never take the status back.
AnnouncementExpires == obj.status \in Intermediate => obj.deadline # NoDeadline

\* An operation that ends while the user has already asked for the opposite
\* does not report its outcome as that of the new target: Launching becomes
\* Active or LaunchFail only while the spec asks for active, Deprecating
\* becomes Inactive or DeprecateFail only while it asks for inactive; the
\* only other way out is the fallback, after the deadline.
OutcomeMatchesTarget ==
  [][ /\ obj.status \in Intermediate
      /\ obj'.status # obj.status
      /\ obj'.exists
      => \/ obj'.status = getBeforeStatus(obj.status) /\ Expired(obj.deadline)
         \/ /\ obj.spec \in { NodeActive, NodeInactive }
            /\ obj.status = Announce(obj)
            /\ obj'.status \in { Outcome(obj, TRUE), Outcome(obj, FALSE) } ]_vars

-----------------------------------------------------------------------------
(***************************************************************************)
(* Why the lock works: the inductive invariant behind the three properties *)
(* above.                                                                  *)
(***************************************************************************)
Operating(m) == pc[m] \in { "prepare", "work", "finalize" }

Current(m) == loc[m].ver = "current"

\* A copy of the stored version is a copy of the stored object: a cached one
\* in everything, the one in hand in what a Reconcile call never changes.
CopiesAgree ==
  /\ obj.exists \/ obj.status = NodeUnknown
  /\ \A m \in Managers :
       /\ cache[m].ver = "current" => cache[m] = obj
       /\ pc[m] = "update" \/ Operating(m) => loc[m].exists
       /\ Operating(m) => loc[m].spec \in { NodeActive, NodeInactive }
       /\ Current(m) /\ (pc[m] = "update" \/ Operating(m)) =>
            obj.exists /\ loc[m].spec = obj.spec

\* A manager that may still replace the status by another one either found
\* an object nobody processes, or one past its deadline; and only prepare
\* ever announces an operation.
UpdatesAreSafe ==
  \A m \in Managers :
    /\ pc[m] = "update" /\ Current(m) /\ obj.status \in Intermediate =>
         /\ Expired(obj.deadline)
         /\ loc[m].status = getBeforeStatus(obj.status)
    /\ pc[m] = "update" => loc[m].status \notin Intermediate
    /\ res[m] \notin Intermediate

\* An operation that holds the current version of an object under way is
\* the one that announced it: nobody else works on it.
HolderIsAlone ==
  \A m \in Managers :
    Operating(m) /\ Current(m) /\ obj.status \in Intermediate =>
      /\ obj.status = Announce(loc[m])
      /\ pc[m] # "work" => res[m] \in { Outcome(loc[m], TRUE), Outcome(loc[m], FALSE) }
      /\ \A n \in Managers \ { m } : ~Working(n)

\* The announced status is a lock: the four facts together are preserved by
\* every step of every manager, of the user and of the API server.
LockInv ==
  /\ CopiesAgree
  /\ UpdatesAreSafe
  /\ HolderIsAlone
  /\ WorkIsAnnounced
  /\ NoOverlap

-----------------------------------------------------------------------------
(***************************************************************************)
(* The lease the status stands for.                                        *)
(***************************************************************************)
Announced == obj.status \in Intermediate

HeldFor == IF Announced THEN obj.status ELSE "free"
Remains == IF Announced THEN obj.deadline ELSE 0
Owners  == { m \in Managers : Operating(m) /\ Current(m) /\ Announced }
Workers == { m \in Managers : Working(m) }

Lease == INSTANCE NodeLease WITH
  Duration <- DeadlineDuration, present <- obj.exists,
  lease <- HeldFor, left <- Remains, owners <- Owners, workers <- Workers

\* The controller implements the lease: through every interleaving of stale
\* reads, refused, repeated and lost writes, edits, deletions and crashes, the
\* status is taken by one manager, renewed and given back by that one alone,
\* and called off by others only once its deadline has passed or when the
\* user deletes the object.
LeaseSpec == Lease!Spec

-----------------------------------------------------------------------------
(***************************************************************************)
(* Liveness.                                                               *)
(***************************************************************************)

\* A process runs its Reconcile call to the end and the commands it started
\* come back; the informer delivers and resyncs; a dead process is started
\* again (the Deployment's restart policy); time passes.
Fairness ==
  /\ WF_vars(Tick)
  /\ \A m \in Managers :
       /\ WF_vars(Reconcile(m))
       /\ WF_vars(Work(m))
       /\ WF_vars(Restart(m))
       /\ WF_vars(Deliver(m))
       /\ WF_vars(Resync(m))

FairSpec == Spec /\ Fairness

\* What the environment does to a manager, and what has to come to an end
\* before the object can be expected to come to rest.
Disturbance ==
  \/ User
  \/ \E m \in Managers :
       \/ Crash(m)
       \/ /\ loc[m].ver = "current"
          /\ \E r \in Reply \ { "ok" } :
               UpdateStatus(m, r) \/ Prepare(m, r) \/ Finalize(m, r)

\* Nothing is left to do for the object as it is stored.
Settled ==
  /\ obj.status \notin Intermediate
  /\ ~ (NeedsInit(obj) \/ NeedsWork(obj))
  /\ NeedsRefusal(obj) => RefusedStatus(obj) = obj.status

\* Once the disturbances end, the object comes to rest for good in a status
\* that asks for no more work: a status left at Launching or Deprecating by
\* a crash, a lost answer or a conflicting edit is recovered by the deadline
\* and the work is done again.  This holds of a single manager: of two, each
\* may outlast its deadline and be taken over by the other for ever.
Settles == <>[][~Disturbance]_vars => <>[]Settled

-----------------------------------------------------------------------------
(***************************************************************************)
(* What comments of the code say, and the code does not do.                *)
(***************************************************************************)

\* "if MaxRetry <= 0 disable retry" (api/v1/nodedeploy_types.go): after a
\* failed call of launchNode or deprecateNode there is no other call.
RetryDisabled ==
  MaxRetry <= 0 => \A m \in Managers : tries[m] > 0 => pc[m] = "finalize"

\* "an object without status is one that joins for the first time" (the
\* comment above the NodeUnknown branch of Reconcile): an object that once
\* had a status does not lose it again.
UnknownOnlyAtFirst ==
  [][ obj.exists /\ obj'.exists /\ obj.status # NodeUnknown
      => obj'.status # NodeUnknown ]_vars

=============================================================================
