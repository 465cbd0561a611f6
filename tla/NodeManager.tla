----------------------------- MODULE NodeManager -----------------------------
(***************************************************************************)
(* pkg/nodemanager: LaunchByCmd, the ten phases that turn a machine into a *)
(* node, and Deprecate, which takes it out again, over an ssh connection.  *)
(*                                                                         *)
(* A call finds the machine as earlier calls left it: the reconciler tries *)
(* a failed launch again from the first phase, launches a machine that is  *)
(* a node already, and the user may change the type of the node between    *)
(* two calls.  Every command on the machine may fail, before or after it   *)
(* has had a part of its effect, and some errors are only logged.          *)
(***************************************************************************)
EXTENDS Integers

CONSTANTS
  NodeTypes      \* the values of Spec.NodeType: the CRD admits any string

ASSUME NodeTypesAssumption == NodeTypes # {}

VARIABLES
  nodeType,   \* Spec.NodeType
  machine,    \* what the commands have done to the machine
  call,       \* the call under way: "none", "launch" or "deprecate"
  sshclient,  \* its client: "none" yet, "up", or "nil" when NewClient failed
  progress,   \* progress.i
  result,     \* how the last call returned
  gone        \* history: the types that were reset, with no join begun since

vars == <<nodeType, machine, call, sshclient, progress, result, gone>>

NodeWork     == "work"
NodeKubeedge == "kubeedge"
Known        == { NodeWork, NodeKubeedge }

\* pkg: the unpacked scripts.  edgecore: the binary is in place.  tools: kubeadm
\* and kubelet, or edgecore with its service.  conf: the agent's configuration
\* for the cluster.  agent: the kubelet or edgecore runs with it.
Machine == [ pkg: SUBSET Known, docker: BOOLEAN, images: SUBSET Known, edgecore: BOOLEAN,
             tools: SUBSET Known, conf: SUBSET Known, agent: SUBSET Known ]

Results == { "none", "nil", "error", "panic" }

Sum == 10   \* NewProgress(10)

TypeOK ==
  /\ nodeType \in NodeTypes
  /\ machine \in Machine
  /\ call \in { "none", "launch", "deprecate" }
  /\ sshclient \in { "none", "up", "nil" }
  /\ call = "none" => sshclient = "none"
  /\ call = "launch" /\ progress > 0 => nodeType \in Known /\ sshclient = "up"
  /\ progress \in 0 .. Sum
  /\ result \in Results
  /\ gone \in SUBSET Known

Init ==
  /\ nodeType \in NodeTypes
  /\ machine = [ pkg |-> {}, docker |-> FALSE, images |-> {}, edgecore |-> FALSE,
                 tools |-> {}, conf |-> {}, agent |-> {} ]
  /\ call = "none" /\ sshclient = "none"
  /\ progress = 0
  /\ result = "none"
  /\ gone = {}

-----------------------------------------------------------------------------
(***************************************************************************)
(* The commands.  Each operator is the set of outcomes of one method on    *)
(* machine x for type t: the machine afterwards and what is returned.      *)
(***************************************************************************)
Ok(x)    == [machine |-> x, ret |-> "nil"]
Fails(x) == [machine |-> x, ret |-> "error"]

\* A command that makes y of the machine x.  Exec returns an error when the
\* command fails and when the connection breaks, before or after its effect.
Command(x, y) == { Ok(y), Fails(x), Fails(y) }

\* A script is there only where the package was unpacked.  One that is cut
\* short leaves the machine as it was, or in one of the states on the way.
Script(x, t, halves, y) ==
  IF t \in x.pkg THEN { Fails(z) : z \in halves } \cup Command(x, y) ELSE { Fails(x) }

\* The output of uname, with whatever sudo has written, contains the name of
\* a known architecture or it does not.
ParseArch(output) == output \in { "aarch64", "arm64", "x86_64", "amd64" }

\* The temporary directory is not used, and an error in making it is only
\* logged; an unknown architecture is an error.
CheckArch(x, t) ==
  { Fails(x) } \cup { IF ParseArch(output) THEN Ok(x) ELSE Fails(x) :
                        output \in { "aarch64", "x86_64", "riscv64" } }

\* preflight has parsed the version with the same function.
CheckNodeVersion(x, t) == { Ok(x) }

\* Upload, mkdir (its error is overwritten) and tar.
PrepareSetupPkg(x, t) == Command(x, [x EXCEPT !.pkg = @ \cup { t }])

StopFirewalld(x, t) == Script(x, t, {}, x)

\* Docker is left alone when it runs.
InstallDocker(x, t) == Script(x, t, {}, [x EXCEPT !.docker = TRUE])

\* Skipped when the account of the registry is not complete.
SetDockerConf(x, t) == { Ok(x) } \cup Script(x, t, {}, x)

SetHostName(x, t) == Script(x, t, {}, x)

LoadImage(x, t) ==
  IF x.docker THEN Script(x, t, {}, [x EXCEPT !.images = @ \cup { t }]) ELSE { Fails(x) }

\* 06-k8s-setup.sh removes the installed kubelet and kubeadm before it
\* installs its own, and starts the kubelet: an agent that is configured
\* for the cluster comes back.  In between it may be stopped.
WorkSetNodeComponents(x) ==
  LET removed   == [x EXCEPT !.tools = @ \ { NodeWork }]
      installed == [x EXCEPT !.tools = @ \cup { NodeWork }]
      stopped   == x.agent \ { NodeWork }
  IN  Script(x, NodeWork,
             { removed, [removed EXCEPT !.agent = stopped], [installed EXCEPT !.agent = stopped] },
             [installed EXCEPT !.agent = @ \cup (x.conf \cap { NodeWork })])

\* 06-edgecore_setup.sh does nothing when the binary is there, even if an
\* earlier run has not got to the service.
EdgeSetNodeComponents(x) ==
  Script(x, NodeKubeedge, { [x EXCEPT !.edgecore = TRUE] },
         IF x.edgecore THEN x
         ELSE [x EXCEPT !.edgecore = TRUE, !.tools = @ \cup { NodeKubeedge }])

\* The configuration of t is gone and its agent stopped.
Reset(x, t) == [x EXCEPT !.conf = @ \ { t }, !.agent = @ \ { t }]

Joined(x, t) == [x EXCEPT !.conf = @ \cup { t }, !.agent = @ \cup { t }]

\* The agent is stopped and its configuration is still there.
Stopped(x, t) == [x EXCEPT !.agent = @ \ { t }]

\* 07-work-join.sh resets the machine and joins it.  Without join
\* information (its error is only logged) the arguments are empty and the
\* join fails, after the reset.
WorkJoin(x) ==
  IF NodeWork \in x.tools
  THEN Script(x, NodeWork, { Stopped(x, NodeWork), Reset(x, NodeWork) }, Joined(x, NodeWork))
  ELSE { Fails(x) }

\* The hosts of GetKubeEdgeJoinInfo: none when the client, the ConfigMap or
\* the Secret with the token is not to be had, or the ConfigMap names none.
GetKubeEdgeJoinInfo == { <<>>, <<"host">> }

\* Mutant: the service is enabled and not started.
EdgeJoinUnstarted(x) ==
  IF NodeKubeedge \in x.tools
  THEN Script(x, NodeKubeedge, {}, [x EXCEPT !.conf = @ \cup { NodeKubeedge }])
  ELSE { Fails(x) }

\* The error of GetKubeEdgeJoinInfo is only logged; without a host,
\* cloudHosts[0] panics.  The script configures edgecore before it starts it.
EdgeJoin(x) ==
  UNION { IF cloudHosts = <<>> THEN { [machine |-> x, ret |-> "panic"] }
          ELSE IF NodeKubeedge \in x.tools
          THEN Script(x, NodeKubeedge, { [x EXCEPT !.conf = @ \cup { NodeKubeedge }] },
                      Joined(x, NodeKubeedge))
          ELSE { Fails(x) } : cloudHosts \in GetKubeEdgeJoinInfo }

\* Mutant: the kubelet is stopped, and not reset.
WorkDisJoinStops(x) ==
  IF NodeWork \in x.tools THEN Script(x, NodeWork, {}, Stopped(x, NodeWork)) ELSE { Fails(x) }

\* 08-work-disjoin.sh is a kubeadm reset.
WorkDisJoin(x) ==
  IF NodeWork \in x.tools
  THEN Script(x, NodeWork, { Stopped(x, NodeWork) }, Reset(x, NodeWork))
  ELSE { Fails(x) }

\* 08-edgecore_disjoin.sh stops the service, which the setup has installed,
\* and removes its configuration.
EdgeDisJoin(x) ==
  IF NodeKubeedge \in x.tools
  THEN Script(x, NodeKubeedge, { Stopped(x, NodeKubeedge) }, Reset(x, NodeKubeedge))
  ELSE { Fails(x) }

SetNodeComponents(x, t) ==
  IF t = NodeWork THEN WorkSetNodeComponents(x) ELSE EdgeSetNodeComponents(x)

Join(x, t) == IF t = NodeWork THEN WorkJoin(x) ELSE EdgeJoin(x)

DisJoin(x, t) == IF t = NodeWork THEN WorkDisJoin(x) ELSE EdgeDisJoin(x)

\* The phases of LaunchByCmd in their order.
Phase(i, x, t) ==
  CASE i = 1  -> CheckArch(x, t)
    [] i = 2  -> CheckNodeVersion(x, t)
    [] i = 3  -> PrepareSetupPkg(x, t)
    [] i = 4  -> StopFirewalld(x, t)
    [] i = 5  -> InstallDocker(x, t)
    [] i = 6  -> SetDockerConf(x, t)
    [] i = 7  -> SetHostName(x, t)
    [] i = 8  -> LoadImage(x, t)
    [] i = 9  -> SetNodeComponents(x, t)
    [] i = 10 -> Join(x, t)

-----------------------------------------------------------------------------
Return(r) == call' = "none" /\ sshclient' = "none" /\ result' = r

LaunchByCmd ==
  /\ call = "none"
  /\ call' = "launch" /\ progress' = 0 /\ result' = "none"
  /\ UNCHANGED <<nodeType, machine, sshclient, gone>>

\* Deprecate is at progress 1/1 from the start.
Deprecate ==
  /\ call = "none"
  /\ call' = "deprecate" /\ progress' = 1 /\ result' = "none"
  /\ UNCHANGED <<nodeType, machine, sshclient, gone>>

NewClient ==
  /\ call # "none" /\ sshclient = "none"
  /\ sshclient' \in { "up", "nil" }
  /\ UNCHANGED <<nodeType, machine, call, progress, result, gone>>

\* LaunchByCmd returns the error of NewClient.
LaunchRefused ==
  /\ call = "launch" /\ sshclient = "nil"
  /\ Return("error")
  /\ UNCHANGED <<nodeType, machine, progress, gone>>

\* Progress.Add
Add(i) == IF i + 1 > Sum THEN Sum ELSE i + 1

\* Mutant: a type that is neither work nor kubeedge passes the first phase.
LaunchUnknownPasses ==
  /\ call = "launch" /\ sshclient = "up" /\ nodeType \notin Known
  /\ progress' = Add(progress)
  /\ UNCHANGED <<nodeType, machine, call, sshclient, result, gone>>

\* A type that is neither work nor kubeedge leaves nodeJoin nil, and its first
\* use panics.
LaunchUnknown ==
  /\ call = "launch" /\ sshclient = "up" /\ nodeType \notin Known
  /\ progress' = Add(progress) /\ Return("panic")
  /\ UNCHANGED <<nodeType, machine, gone>>

\* Mutant: an error of a phase before the last does not end the launch.
LaunchPhaseIgnoringError ==
  /\ call = "launch" /\ sshclient = "up" /\ nodeType \in Known
  /\ progress' = Add(progress)
  /\ \E o \in Phase(progress', machine, nodeType) :
       /\ machine' = o.machine
       /\ IF progress' < Sum THEN UNCHANGED <<call, sshclient, result>> ELSE Return(o.ret)
  /\ UNCHANGED <<nodeType, gone>>

\* The next phase; an error ends the launch at the progress it has reached.
LaunchPhase ==
  /\ call = "launch" /\ sshclient = "up" /\ nodeType \in Known
  /\ progress' = Add(progress)
  /\ \E o \in Phase(progress', machine, nodeType) :
       /\ machine' = o.machine
       /\ \/ o.ret = "nil" /\ progress' < Sum /\ UNCHANGED <<call, sshclient, result>>
          \/ (o.ret # "nil" \/ progress' = Sum) /\ Return(o.ret)
  /\ gone' = IF progress' = Sum THEN gone \ { nodeType } ELSE gone
  /\ UNCHANGED nodeType

\* The error of NewClient is only logged: Exec panics on the nil client,
\* recovers and returns no error.
DeprecateUnreached ==
  /\ call = "deprecate" /\ sshclient = "nil" /\ nodeType \in Known
  /\ Return("nil")
  /\ UNCHANGED <<nodeType, machine, progress, gone>>

\* nodedisJoin is nil.
DeprecateUnknown ==
  /\ call = "deprecate" /\ sshclient # "none" /\ nodeType \notin Known
  /\ Return("panic")
  /\ UNCHANGED <<nodeType, machine, progress, gone>>

\* Mutant: the script of the other type is run.
DeprecatePhaseWrongScript ==
  /\ call = "deprecate" /\ sshclient = "up" /\ nodeType \in Known
  /\ \E o \in EdgeDisJoin(machine) : machine' = o.machine /\ Return(o.ret)
  /\ UNCHANGED <<nodeType, progress, gone>>

DeprecatePhase ==
  /\ call = "deprecate" /\ sshclient = "up" /\ nodeType \in Known
  /\ \E o \in DisJoin(machine, nodeType) :
       /\ machine' = o.machine /\ Return(o.ret)
       /\ gone' = IF o.ret = "nil" THEN gone \cup { nodeType } ELSE gone
  /\ UNCHANGED <<nodeType, progress>>

\* The user changes the type of the node between two calls.
EditType(t) ==
  /\ call = "none"
  /\ nodeType' = t
  /\ result' = "none"
  /\ UNCHANGED <<machine, call, sshclient, progress, gone>>

Next ==
  \/ LaunchByCmd \/ Deprecate \/ NewClient
  \/ LaunchRefused \/ LaunchUnknown \/ LaunchPhase
  \/ DeprecateUnreached \/ DeprecateUnknown \/ DeprecatePhase
  \/ \E t \in NodeTypes : EditType(t)

Spec == Init /\ [][Next]_vars

-----------------------------------------------------------------------------
(***************************************************************************)
(* Properties.                                                             *)
(***************************************************************************)

\* LaunchByCmd returns without error only for a machine on which every phase
\* has had its effect and whose agent is started, at progress 10/10, however
\* many failed launches and deprecations the machine has behind it.
LaunchIsComplete ==
  [][ call = "launch" /\ result' = "nil" =>
        /\ progress' = Sum
        /\ machine'.docker
        /\ nodeType \in machine'.pkg
        /\ nodeType \in machine'.images
        /\ nodeType \in machine'.tools
        /\ nodeType \in machine'.agent ]_vars

\* When Deprecate has got a connection and returns without error, the agent
\* of the type it was called for is down, whatever calls came before it.
DeprecateIsComplete ==
  [][ call = "deprecate" /\ sshclient = "up" /\ result' = "nil" =>
        nodeType \notin machine'.agent ]_vars

\* A node that Deprecate has taken out over a connection stays out until a
\* launch gets to its join: no launch that fails before brings it back, of
\* either type, also where it installs and starts the kubelet anew.
DeprecatedStaysOut == gone \cap machine.agent = {}

\* For the type the node has, the calls are those Membership allows: what
\* launchNode and deprecateNode make of LaunchByCmd and Deprecate holds of
\* the ten phases and of the reset.
Members == INSTANCE Membership WITH
  host   <- IF nodeType \in machine.agent THEN "joined" ELSE "out",
  client <- sshclient

MembershipSpec == Members!Spec

=============================================================================
