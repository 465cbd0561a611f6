# nodedeploy-controller: TLA+ models, TLC runs and TLAPS proofs

nodedeploy-controller is a Kubernetes operator. A `NodeDeploy` object names a
machine and says whether it should be a node of the cluster (`nodeStatus:
active`) or not (`inactive`); the controller connects to the machine by ssh and
makes it so. This directory holds the models of the controller, the
configurations TLC checks them with, and proofs for TLAPS.

## The system

| part | source | state | operations |
|---|---|---|---|
| NodeDeploy resource | `api/v1/nodedeploy_types.go` | spec (target, type, credentials, MaxRetry, IsEvicted), status (NodeStatus, Deadline) | `getBeforeStatus` and the decisions of `Reconcile` |
| Reconciler | `controllers/nodedeploy_controller.go` | none but the local variables of a call; the object in the API server, the informer cache | `Reconcile`, `preflight`, `prepare`, `finalize` |
| Operations on the Node | the same, `controllers/utils.go` | the Node object, the pods on it | `launchNode`, `watchNode`, `deprecateNode`, `drainNode`, `nodeIsReady` |
| NodeManager | `pkg/nodemanager/manager.go`, `join.go`, `disjoin.go`, `progress.go` | the machine; the progress of a launch | `LaunchByCmd` (ten phases), `Deprecate`, both for worker and KubeEdge nodes |
| Scripts | `build/work`, `build/kubeedge` | the machine | one script per phase |
| ssh client | `utils/ssh/ssh.go` | a connection | `NewClient`, `Exec`, `Upload` |
| Join information | `pkg/nodemanager/token.go` | bootstrap token Secrets | `GetWorkJoinInfo`, `GetKubeEdgeJoinInfo`, `GetToken` |
| Process | `main.go` | the manager | start, leader election (a flag, off by default) |

How they interact. The workqueue calls `Reconcile` for a key, one call at a
time per process. `Reconcile` reads the object from the informer cache, decides
by its status and its target, and writes the status subresource with an
optimistic update. For an operation it calls `prepare` (status `launching` or
`deprecating`, and a deadline 30 minutes ahead), then `launchNode` or
`deprecateNode`, both inside of a retry loop, then `finalize`. The operations
read the Node from a second informer cache, write it in the API server, and run
commands on the machine through NodeManager and the ssh client.

What is hard. The status with its deadline is the only lock between two
processes, and it is taken on the word of a cache. An operation takes minutes;
meanwhile the user edits the spec, deletes and creates the object, the process
dies, writes fail or lose their answer, and the deadline passes. The machine and
the Node keep what a failed attempt did to them. Errors are logged and dropped
in several places. `PROJECT.json` lists these hazards line by line, with the
properties that cover them.

## Modules

### NodeDeployTypes

The statuses, the deadline and the decision tree of `Reconcile` as predicates on
one copy of the object: `NeedsInit`, `NeedsFallback`, `NeedsRefusal`,
`NeedsWork`, each the conjunction of the early returns before its branch.
A deadline is the time left until it, in ticks; -1 is the nil pointer, 0 a
deadline that has passed. `valid` is the verdict of `preflight`. `Attempts` is
the conversion `uint(MaxRetry)`; retry-go reads 0 as "no limit".

### NodeDeployController

One NodeDeploy object (`obj`), and per manager process the cached copy
(`cache`), the presence of the key in the workqueue (`queued`), and the call of
`Reconcile`: its position (`pc`), its variable `nodeDeploy` (`loc`), its
variable `status` (`res`) and the failed calls of the retry loop (`tries`).

| action | code |
|---|---|
| `ReconcileReturn`, `ReconcileInit`, `ReconcileFallback`, `ReconcileRefuse`, `ReconcileWork` | `Reconcile` up to its first write: the branches on the cached copy |
| `UpdateStatus` | the `Status().Update` of the init, fallback and preflight branches, and the return |
| `Prepare`, `WorkDone`, `FailAttempt`, `Finalize` | the retry loop: `prepare`, the return of `launchNode` or `deprecateNode`, the next attempt, `finalize` |
| `Crash`, `Restart` | the process |
| `Deliver`, `Resync` | the informer (external) |
| `EditSpec`, `Delete`, `Create`, `Tick` | the user and the clock |

Resource versions and uids are abstracted to what a copy knows of them: it is
`current`, `stale` (the object has a newer version) or `gone` (the object was
deleted since). That is all an optimistic update looks at, and it keeps the
state space finite. A status update is answered `ok`, `error` (nothing was
written) or `lost` (it was written, the caller sees an error). `Deliver` brings
a cache to the stored version in one step: a cache that passes through an
intermediate version behaves like one that is delivered at that moment, or like
one that is still stale, since every update from it is refused either way.
Within a call only the local copy counts, so the read of the cache and the
decision are one step.

The constant `Faults` switches groups of environment steps on: failing and lost
writes, crashes, edits, deletion with re-creation.

### NodeLifecycle

Extends the controller with the Node object, its informer caches, the pods, and
the membership of the machine, and replaces the abstract `WorkDone` by the steps
of `launchNode` (`LaunchByCmd`, `LaunchFails`, `WatchCached`, `WatchEvent`,
`Decorate`) and of `deprecateNode` (`GetNode`, `Cordon`, `Evict`, `Deprecate`,
`DeprecateFails`, `DeleteNode`). `Register`, `Heartbeat`, `Schedule` and
`DeliverNode` are the cluster around it (external). `ControllerSpec` states that
this is an implementation of NodeDeployController: TLC checks it, TLAPS proves
it. A failing command has its effect on the machine in one step and the return
in the next, so that a crash may fall between; writes of the Node may lose their
answer like those of the NodeDeploy. Labels, taints and annotations are the one
flag `decorated`: the stored Node has those of the stored spec. An edit by the
user (`UserAll`) may make them differ at any time, and a launch writes those of
the copy it holds. The conflict retries of `RetryOnConflict` read the
same cache; a conflict that outlives them is the failing disjunct of `Decorate`.

### NodeLease

The promise behind status and deadline, as an abstract specification: one
manager takes a lease for a job, may renew it as long as nobody has touched the
object, and gives it back; a lease that has run out may be called off. Only the
deletion of the object by the user (`Revoke`) ends a lease early without its
owner. The controller implements it (`LeaseSpec` in NodeDeployController): the lease is the
intermediate status, its owner is the manager in an operation with the current
copy, its workers are the managers at work before the deadline.

### NodeManager and Membership

`LaunchByCmd` and `Deprecate` on a machine that remembers: unpacked packages,
docker, images, tools, the agent's configuration for the cluster, and the agents
that run, per node type. Each method is an operator that gives the set of its
outcomes; a command may fail before its effect, after it, or (for a script of
several commands) in one of the states on the way. `WorkSetNodeComponents`
removes the kubelet itself, installs it anew and starts it with whatever
configuration there is; `EdgeSetNodeComponents` does nothing where the binary
answers, even if the service is missing. The history variable `gone` holds the
types that were reset, with no join begun since.

| action | code |
|---|---|
| `LaunchByCmd`, `Deprecate` | the call begins; `NewProgress` |
| `NewClient` | the connection, or the nil client of a failed one |
| `LaunchRefused`, `LaunchUnknown`, `LaunchPhase` | `LaunchByCmd` after it: the error is returned; a type that is neither `work` nor `kubeedge` panics; the next phase |
| `DeprecateUnreached`, `DeprecateUnknown`, `DeprecatePhase` | the same for `Deprecate`, where the error of the connection is only logged and `Exec` recovers from the nil client |
| `EditType` | the user, between two calls |

`Membership` says what the operations of NodeLifecycle rely on: the machine is a
node or is not, and what a returned call says about that. `MembershipSpec` is
the refinement, for the type the node has at the moment.

### JoinInfo

`GetWorkJoinInfo` and `GetToken`: several callers, each at the last phase of a
launch, with one action per request to the API server (`GetToken`,
`CreateSecret`, `UpdateSecret`). A request may fail, or go through and lose its
answer. The choice of a cluster from the kubeconfig and of its certificates is
`GetClusterFromKubeConfig` and `HasPin`; hashes and encodings are left out. A
token is an id, which names its Secret and may collide, and a key, which stands
for its random part and never does. `AdminCreate`, `AdminDelete`,
`TokenCleaner` and `Tick` are the cluster around it (external). `stored`,
`known` and `blind` are history variables: what was ever stored, what of it the
caller's look-up could have seen, and whether the look-up failed.

### SshClient

One connection and the calls on it, one after the other. A call opens a session
(`NewSession`, or `NewSftp` for an upload, which then creates the file on the
machine: `CreateFile`, `CreateFails`), starts a runner goroutine and waits for its channel or for the context (`ReceiveResult`, `ContextDone`). The
runner (`RequestCommand`, `RunEnds`, `CopyEnds`, `CopyFails`) and the command on
the machine (`CommandStarts`, `CommandEnds`) outlive the call where the code
lets them. `Hang`, `Resume`, `Break`, `GiveUp` and `Cancel` are the machine, the
connection and the context. Upload's chmod is an Exec in a session of its own
while the one of the transfer is still open; closing the file waits for an
answer of the machine (`CloseFile`). Each exit of Upload is there: the session
or the subsystem is refused, the source cannot be looked at, the destination
cannot be created, the source cannot be opened, the copy fails, the context
ends, the chmod fails. sftp.NewClient opens a session before it asks for the
subsystem; when that is refused (`SftpRefused`) the session stays open, `lost`
to the code, for as long as the connection lasts. The goroutine that writes the password to
the command's input and the output buffers are left out; `ExecPipe` is not
called.

## Runs

| run | instance | shows |
|---|---|---|
| `controller_one` | 1 manager, targets active, inactive and none, both preflight verdicts, all faults, deadline 2, MaxRetry 2, with fairness | `TypeOK`, `WorkIsAnnounced`, `OutcomeMatchesTarget`, `Settles` |
| `controller_lock` | 2 managers, one target, all faults, deadline 2, MaxRetry 2 | `LockInv`, `NoOverlap`, `AnnouncementExpires`, `LeaseSpec` |
| `lifecycle_one` | 1 manager, API errors, crashes, edits, eviction, MaxRetry 1 | `LifecycleTypeOK`, `ActiveIsDecorated`, `InactiveIsOut`, `ControllerSpec`, `CordonedIsDrained` |
| `lifecycle_keep` | 1 manager, API errors, edits, no eviction, unreachable machines, MaxRetry 2 | `ActiveIsDecorated` |
| `manager` | both types and an unknown one | `TypeOK`, `DeprecatedStaysOut`, `LaunchIsComplete`, `DeprecateIsComplete`, `MembershipSpec` |
| `joininfo` | 2 callers, 2 ids, 3 tokens and one of the administrator, lifetime of 1 tick, with fairness | `TypeOK`, `TokenIsStored`, `OverwriteNeedsRace`, `LeftoversExpire` |
| `ssh` | 3 sessions, one hang, with fairness | `TypeOK`, `NilMeansDone`, `NoOrphan`, `SessionsAreClosed`, `NothingStartsLate`, `CancelReturns`, `RunnersEnd` |

What the less obvious ones say. `LockInv` is the inductive invariant of the
proof. `AnnouncementExpires`: a stored `launching` or `deprecating` has a
deadline, the safety half of `Settles`, which holds of several managers too.
`ActiveIsDecorated` speaks of a moment: when an object comes to read
Active without a deadline, the Node has the labels, taints and annotations of
the spec that is stored then, also if the launch began under an older spec;
afterwards only the Node's existence is claimed, because `Reconcile` returns for
an object that has its target and never applies labels edited later.
`InactiveIsOut` and `ActiveIsDecorated` leave out objects with a passed deadline
beside their status: that is how the fallback leaves them, which writes the
status of before the operation without looking at the machine.
`DeprecatedStaysOut`: a node that was reset over a connection does not run again
until a launch gets to its join, although the phase before reinstalls and starts
the kubelet; it rests on the reset having removed the configuration.
`OverwriteNeedsRace`: the unconditional update of `CreateOrUpdateSecret`
hits a token of somebody else only if that token was stored after the caller's
look-up, or the look-up failed, since `GetToken` takes any error for "not
found". `LeftoversExpire`: every attempt stores a token and nothing removes it,
but none stays, since each has an expiry.
`SessionsAreClosed`: an upload holds one session while its chmod opens a second,
and every way out closes those that the code has got hold of; a session in which
sftp was refused is not among them (a hazard without a property). `NoOrphan` and `NothingStartsLate`: while the connection lives
and nobody cancels, at most the command of the call under way runs, and a runner
that comes after its call was cancelled starts nothing. `RunnersEnd`: the room
for one result in `errChan` is what lets a runner end that nobody waits for.

Bounds. Two ticks are enough for a deadline that is fresh, running and passed;
one tick where only fresh and passed matter. Two managers are the smallest number
with an overlap, and the proofs hold for any number; NodeLifecycle with two
managers is beyond TLC, and what is said of it there is proved. Two attempts give
a first, a repeated and a last call. Two callers with two ids can collide and
can miss each other; the third token makes one caller start over against what
its first attempt left. Three sessions are an upload with its chmod and a
command after or before it, so a runner of a cancelled call meets a later call.
No run has a state constraint: all of them exhaust their state space. Managers
are symmetric in `controller_lock`, which checks no liveness.

Fairness in `controller_one`: weak fairness of a process's steps (goroutines
are scheduled), of the return of an operation, of `Restart` (the Deployment's
restart policy), of `Deliver` and `Resync` (the informer; controller-runtime's
default sync period is ten hours) and of the clock. The fairness of the
operation's return is an assumption about the machine: the ssh client has no
timeouts, so the code alone does not guarantee it (listed as a hazard). The
hypothesis of `Settles` is that the disturbances end: edits, crashes, and writes
that fail although the copy is current. Conflicts are not disturbances. Without
`Resync` the property fails: an intermediate status before its deadline is left
without a requeue. It is stated for one manager; two whose operations outlast
the deadline can take over from each other for ever.

Fairness in `joininfo`: the clock, and the controller of kube-controller-manager
that removes expired tokens. Nothing is assumed of the callers.

Fairness in `ssh`: the caller and the runner goroutines are scheduled, and a
`select` that can see the end of the context does not overlook it for ever; TCP
gives up a connection whose data a silent machine does not acknowledge
(`GiveUp`). Nothing is assumed of the commands or of the machine's return. A
machine whose kernel acknowledges while its sshd is stuck is outside of that
assumption: there a cancelled upload may wait for ever in closing the file.

Runs that refute what the repository says of itself:

| run | says | does |
|---|---|---|
| `controller_noretry` | `api/v1/nodedeploy_types.go:66` "if MaxRetry <= 0 disable retry" | 0 retries without limit |
| `controller_unknown` | `controllers/nodedeploy_controller.go:85`, no status means the first join | when every `prepare` fails, `finalize` writes the empty status |
| `lifecycle_unreachable` | `pkg/nodemanager/manager.go:53` "deprecate success" | said of a machine that could not be reached |
| `lifecycle_evict` | `README.md:47`, pods are evicted when the node goes offline | the cordon is an empty patch when the cached Node is a cordoned earlier one |
| `lifecycle_ready` | `controllers/nodedeploy_controller.go:368` "node %s ready: %v" | any Ready condition passes, False too |

Every property of a passing run has a mutant in `PROJECT.json`: a definition
changed as a slip in the code would change it, under which TLC finds the
property violated. The mutants stand before the definitions they replace.

## Proofs

`NodeDeployControllerProofs`, for every set of managers and targets, every
deadline, MaxRetry and combination of faults:

- `TypeCorrect`: `Spec => []TypeOK`.
- `LockHolds`: `Spec => []LockInv`, by induction. "Nobody overlaps" is not
  inductive: a manager with an old copy may be about to write. `LockInv` adds
  why that is harmless. `CopiesAgree`: a copy of the current version is the
  stored object, so the decision made on it still holds. `UpdatesAreSafe`: a
  manager about to write a plain status with a current copy found the object
  free or past its deadline. `HolderIsAlone`: a manager in an operation with the
  current copy of an intermediate object is the one that announced it. Every
  write that goes through makes all other copies stale (`AppliedFacts`), so
  nobody but its author can write next without reading again.
- `MutualExclusion` and `WorkAnnounced`: `NoOverlap` and `WorkIsAnnounced` follow.
- `AnnouncementsExpire`: `Spec => []AnnouncementExpires`. It is inductive next to
  `LockInv`, which says that nothing but `prepare` writes an intermediate status
  (`UpdatesAreSafe`); the clock never turns a deadline into none (`AgeNone`).
- `OutcomeCorrect`: `Spec => OutcomeMatchesTarget`, an action property from the
  same invariant.

`NodeLease` and `NodeLeaseProofs`: `LeaseExcludes`, the abstract lease is
exclusive and never without its object, by its own invariant; `LeaseImplemented`, every step of the controller
is a step of the lease or leaves it alone, which needs `LockInv` (that the author
of a write is the only owner, and that no write brings a deleted object back:
`ManagerKeepsObject`); `LeaseIsExclusive` puts the two together.

`NodeLifecycleProofs`: `Refinement`, each step of the detailed operations is a
step of the controller or leaves its variables alone; `LifecycleExclusion` and
`LifecycleLease` carry the controller's properties over; `LifecycleTypeCorrect`,
the types, with the fact that no position inside of an operation survives the
operation or its process.

`NodeOutcomeProofs`, what the outcome of an operation is worth:
`ActiveCorrect` (`ActiveIsDecorated`), `InactiveCorrect` (`InactiveIsOut`, for
machines that can be reached) and `DrainCorrect` (`CordonedIsDrained`).

- The hypothesis. All three speak of the machine and of the Node, which somebody
  else's operation can change, so they are stated under `OneAtWork`: no two
  managers are inside of `launchNode` or `deprecateNode`. `SingleManager` removes
  the hypothesis for one manager, the default of the Deployment: nothing is then
  asked of deadlines, crashes, edits or re-creation. `ManagersInTime` replaces it,
  for any number of managers, by `EverybodyInTime`: nobody outlasts its deadline
  or the deletion of its object. That this keeps the operations apart is the lock
  (`LifecycleExclusion`).
- The invariant. None of the three is inductive: `finalize` writes what an
  operation found some steps earlier. `OutcomeInv` follows that along.
  `DeprecationSoFar`: before the Node is deleted the machine is reset, and a
  cordoned Node has no pods since the eviction, because the scheduler leaves a
  cordoned Node alone. `NodeCopiesAgree`: a cached Node of the current version is
  the stored one, so labels written from it reach a Node that exists.
  `ResultIsTrue`: a result Active or Inactive that can still be written (its copy
  is current) is true, and nobody is at work who could make it false.
  `UpdateIsOld`: the other writes of Active or Inactive without a deadline repeat
  what is stored; the fallback, which writes them unseen, leaves the passed
  deadline beside them. `StatusIsTrue`: hence the stored status is true.
- The steps. A step that changes the object makes every other copy outdated, so
  nobody can write a result found before it (`WrittenStep`); a step that does not
  change it begins no operation (`QuietStep`); inside of an operation nothing is
  reported (`NothingReported`), so only its return has something to show
  (`FinishOutcome`).

`JoinInfoProofs`, for any number of callers, ids and tokens: `JoinInfoTypeCorrect`,
and `JoinTokenCorrect` and `OverwriteCorrect` from the inductive `TokenInv`.
`OverwriteNeedsRace` alone is no invariant to start from: the step that
overwrites knows nothing of when the other token came. `NameWasFree` says that
under the id of a caller whose look-up was answered there is nothing or something
newer, and `FreshKeys` keeps it so: a key is stored once, by the caller that made
it, so what appears under the id after the look-up is not in `known`.

`NodeManagerProofs`, for any set of node types. One lemma (`PhaseIsSound`) says
what an outcome of each phase may be; `Reached` says that what the phases of the
launch under way have done is still there, which holds because no phase undoes
the work of an earlier one when it succeeds. From the two follow
`ManagerTypeCorrect`, `LaunchCorrect`, `DeprecateCorrect` and the refinement
`MembershipImplemented`. `StaysOutCorrect` needs more than its own statement: the
kubelet is started with the configuration that is found, so the invariant says
that a type that was reset has no configuration either.

`SshClientProofs`, for any number of sessions: `SshTypeCorrect`,
`ResultsCorrect`, `NoSessionLeft`, `NothingLeftBehind` and `LateRunnersCorrect`,
from one inductive invariant. `NoOrphan` and `NilMeansDone` need to know more: an open
session belongs to the transfer or to the command the call waits for
(`SessionsInUse`), a runner that has reported is done and, while the connection
lives and nobody cancels, so is its command (`RunnerState`), and a result without
error can be followed from the runner through the channel and the deferred close
to the caller (`ResultState`).

Assumptions: `DeadlineAssumption` (a positive number of ticks),
`RetryAssumption` (integers), `ValidityAssumption`, `FaultsAssumption`;
`ConfigAssumption` and `TokenAssumption` (the tokens' lifetime is positive and
the marks for "nothing" are no names); `SshAssumption` (a number of sessions).

Assumptions about the surroundings, in the models and therefore in the proofs:

- The clocks of the managers agree. A deadline is written with one `time.Now()`
  and compared with another; `Tick` lets all copies age alike.
- The scheduler sees a cordon at once (`Schedule`), and `pods` are those that
  `drainNode` has to evict: the pods of DaemonSets, which ignore a cordon, are
  not among them. `CordonedIsDrained` rests on both.
- Nobody but the controller and the kubelet changes the Node: an administrator
  who deletes, relabels or uncordons it is not modelled.
- Nobody but the scripts changes the machine: no reboot, and nobody starts or
  stops an agent by hand.
- An object names one machine and one Node: edits of `nodeIP` and `nodeName` are
  not modelled, an edit of `nodeType` only in NodeManager.

Only model-checked: liveness under fairness, which is outside of the prover
(`Settles`, `LeftoversExpire`, `CancelReturns`, `RunnersEnd`). The safety half of
`Settles` is proved (`AnnouncementExpires`). Every invariant and action
property of a passing run is stated by a theorem.

What the lock does not promise: "within the deadline" is part of `NoOverlap`. A
manager whose operation outlasts its deadline goes on with it, next to the one
that has taken over, and one whose object was deleted goes on as well. Nor does
it promise that an intermediate status means somebody is at work: when the user
edits the object during an operation, `finalize` conflicts with the edit and the
status stays until its deadline. The lease is per object: two objects that name
one machine have two leases.

## Not modelled

Several NodeDeploy objects and the single worker they share: nothing but the
queue relates two objects in the code. A second launch of the same machine next
to a command an earlier process left running (SshClient says when there is one;
NodeManager's calls follow each other). The texts of architectures, versions,
tokens and certificates and the hash of a certificate: conversions without
state, whose failures are modelled where a caller sees them. The goroutine that
answers sudo's password prompt. Events and logs; generated deep copies;
manifests and the chart; flags, probes and metrics of `main.go`;
`getNodeInfoFormSecret` and `ExecPipe`, which are not called.

## Plan

1. Done: NodeDeployTypes, NodeDeployController, NodeLease, NodeLifecycle,
   NodeManager, Membership, JoinInfo, SshClient, with the proofs above.
2. Left: what holds of the machine and the Node when a manager outlasts its
   deadline while another one works (it may delete the Node the other has just
   launched: the deletion is by name); clocks that disagree; and the safety on
   which `RunnersEnd` and `CancelReturns` rest, as properties of their own.
