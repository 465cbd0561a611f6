-------------------------- MODULE NodeDeployTypes --------------------------
(***************************************************************************)
(* The NodeDeploy custom resource as the controller sees it:               *)
(* api/v1/nodedeploy_types.go, and the pure helpers of controllers/utils.go*)
(* and of Reconcile that only look at one copy of the object.              *)
(***************************************************************************)
EXTENDS Integers

CONSTANTS
  DeadlineDuration,  \* clock ticks from prepare to the deadline (30 minutes)
  MaxRetry,          \* Spec.MaxRetry of the object, an int32
  UintRange          \* 2^64 in the build: the range of Go's uint

ASSUME DeadlineAssumption == DeadlineDuration \in Nat \ {0}
ASSUME RetryAssumption == MaxRetry \in Int /\ UintRange \in Nat \ {0}

(***************************************************************************)
(* NodeStatus.  NodeUnknown is the empty string, the value of the field    *)
(* before anything was ever written to it.                                 *)
(***************************************************************************)
NodeUnknown       == ""
NodeInit          == "init"
NodeInactive      == "inactive"
NodeActive        == "active"
NodeLaunching     == "launching"
NodeLaunchFail    == "launchFail"
NodeDeprecating   == "deprecating"
NodeDeprecateFail == "deprecateFail"

NodeStatus == { NodeUnknown, NodeInit, NodeInactive, NodeActive, NodeLaunching,
                NodeLaunchFail, NodeDeprecating, NodeDeprecateFail }

\* The statuses that say "other thread are processing".
Intermediate == { NodeLaunching, NodeDeprecating }

\* Status.Deadline, as the time left until it; a nil pointer is NoDeadline.
NoDeadline == -1
TimeLeft   == -1 .. DeadlineDuration

\* time.Now().After(Deadline), with the nil check in front of it.
Expired(d) == d = 0

\* One clock tick: the time left shrinks until the deadline has passed.
Age(d) == IF d > 0 THEN d - 1 ELSE d

getBeforeStatus(status) ==
  CASE status = NodeLaunching   -> NodeInactive
    [] status = NodeDeprecating -> NodeActive
    [] OTHER                    -> NodeUnknown

-----------------------------------------------------------------------------
(***************************************************************************)
(* The decision Reconcile takes on the copy c it has read.  Each predicate *)
(* conjoins the early returns that come before its branch.  c.valid stands *)
(* for what preflight computes from the labels, the IP address and the     *)
(* version of the spec.  Reconcile returns without a write on a copy none  *)
(* of these predicates holds of.                                           *)
(***************************************************************************)
NeedsInit(c) == c.exists /\ c.status = NodeUnknown

\* Mutant: the expiry of the deadline is not looked at.
NeedsFallbackEarly(c) ==
  c.exists /\ c.status \in Intermediate /\ c.spec # c.status

\* Mutant: an intermediate status is left to "other thread" for ever.
NeedsFallbackNever(c) == FALSE

NeedsFallback(c) ==
  /\ c.exists
  /\ c.status \in Intermediate
  /\ c.spec # c.status
  /\ Expired(c.deadline)

HasFailed(c) ==
  \/ c.spec = NodeActive   /\ c.status = NodeLaunchFail
  \/ c.spec = NodeInactive /\ c.status = NodeDeprecateFail

\* Mutant: an object that is being processed is taken up again.
PendingBusy(c) ==
  /\ c.exists
  /\ c.status \notin { NodeUnknown, c.spec }
  /\ ~HasFailed(c)

Pending(c) ==
  /\ c.exists
  /\ c.status \notin Intermediate \cup { NodeUnknown, c.spec }
  /\ ~HasFailed(c)

NeedsRefusal(c) == Pending(c) /\ ~c.valid

NeedsWork(c) ==
  /\ Pending(c)
  /\ c.valid
  /\ \/ c.spec = NodeActive
     \/ c.spec = NodeInactive /\ c.status # NodeInit

\* The status a failed preflight leaves in the object.
RefusedStatus(c) ==
  IF c.status = NodeInactive THEN NodeDeprecateFail
  ELSE IF c.spec = NodeActive THEN NodeLaunchFail
  ELSE c.status

\* The status prepare announces, and the one the operation ends in.
Announce(c) == IF c.spec = NodeActive THEN NodeLaunching ELSE NodeDeprecating

Outcome(c, success) ==
  IF c.spec = NodeActive
  THEN IF success THEN NodeActive   ELSE NodeLaunchFail
  ELSE IF success THEN NodeInactive ELSE NodeDeprecateFail

-----------------------------------------------------------------------------
(***************************************************************************)
(* retryV4.Do (an external library, github.com/avast/retry-go/v4): the     *)
(* function is called until it succeeds or until Attempts calls were made; *)
(* Attempts(0) means no limit.  The code passes uint(Spec.MaxRetry), the   *)
(* conversion of a signed to an unsigned number.                           *)
(***************************************************************************)
Attempts == MaxRetry % UintRange

\* n counts the failed calls so far; is the call that now fails the last one?
LastAttempt(n) == Attempts # 0 /\ n + 1 >= Attempts

\* Without a limit the number of calls is immaterial: 1 says "called before".
NextTry(n) == IF Attempts = 0 THEN 1 ELSE n + 1

=============================================================================
