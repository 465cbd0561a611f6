-------------------------- MODULE NodeManagerProofs --------------------------
(***************************************************************************)
(* Proofs about NodeManager, for any set of node types: the properties of  *)
(* a launch and of a deprecation, and that the phases implement            *)
(* Membership.                                                             *)
(***************************************************************************)
EXTENDS NodeManager, TLAPS

-----------------------------------------------------------------------------
(***************************************************************************)
(* What a phase may do.                                                    *)
(***************************************************************************)

Returned == { "nil", "error", "panic" }

\* An outcome of phase i: no package, docker or image is lost; only the last
\* phase changes a configuration, and an agent that runs has one; and a phase
\* that returns no error has done its work.
Sound(i, x, t, o) ==
  /\ o.machine \in Machine
  /\ o.ret \in Returned
  /\ x.pkg \subseteq o.machine.pkg
  /\ x.docker => o.machine.docker
  /\ x.images \subseteq o.machine.images
  /\ x.agent \subseteq x.conf => o.machine.agent \subseteq o.machine.conf
  /\ i # 10 => o.machine.conf = x.conf
  /\ o.machine.conf \subseteq x.conf \cup { t }
  /\ o.ret = "nil" =>
       /\ i = 3 => t \in o.machine.pkg
       /\ i = 5 => o.machine.docker
       /\ i = 8 => t \in o.machine.images
       /\ i = 10 => t \in o.machine.tools /\ t \in o.machine.agent

\* The outcomes of a script: it returns no error only where it was unpacked
\* and has run to its end.
LEMMA ScriptOutcomes ==
  ASSUME NEW x, NEW t, NEW halves, NEW y, NEW o \in Script(x, t, halves, y)
  PROVE  /\ o.machine \in { x, y } \cup halves
         /\ (o.ret = "nil" /\ o.machine = y) \/ o.ret = "error"
  BY DEF Script, Command, Ok, Fails

\* CheckArch and CheckNodeVersion leave the machine alone.
LEMMA CheckOutcomes ==
  ASSUME NEW x, NEW t, NEW o \in CheckArch(x, t) \cup CheckNodeVersion(x, t)
  PROVE  o.machine = x /\ o.ret \in Returned
  BY DEF CheckArch, CheckNodeVersion, Ok, Fails, Returned

\* The configuration is written, and the agent not yet started.
Configured(x, t) == [x EXCEPT !.conf = @ \cup { t }]

\* The join touches the configuration and the agent of its type, and has
\* started the agent when it returns no error.
LEMMA JoinOutcomes ==
  ASSUME NEW x \in Machine, NEW t \in Known, NEW o \in Join(x, t)
  PROVE  /\ o.machine \in { x, Stopped(x, t), Reset(x, t), Configured(x, t), Joined(x, t) }
         /\ o.ret \in Returned
         /\ o.ret = "nil" => o.machine = Joined(x, t) /\ t \in x.tools
<1>1. CASE t = NodeWork
  <2>1. o \in WorkJoin(x)
    BY <1>1 DEF Join
  <2> QED
    BY <1>1, <2>1, ScriptOutcomes DEF WorkJoin, Fails, Returned
<1>2. CASE t # NodeWork
  <2>1. o \in EdgeJoin(x) /\ t = NodeKubeedge
    BY <1>2 DEF Join, Known
  <2>2. \/ o = [machine |-> x, ret |-> "panic"]
        \/ o = Fails(x)
        \/ /\ NodeKubeedge \in x.tools
           /\ o \in Script(x, NodeKubeedge, { Configured(x, NodeKubeedge) }, Joined(x, NodeKubeedge))
    BY <2>1 DEF EdgeJoin, Configured
  <2> QED
    BY <2>1, <2>2, ScriptOutcomes DEF Fails, Returned
<1> QED
  BY <1>1, <1>2

\* The disjoin touches nothing, stops the agent, or takes its configuration
\* away as well; without error it has done the last.
LEMMA DisJoinOutcomes ==
  ASSUME NEW x \in Machine, NEW t \in Known, NEW o \in DisJoin(x, t)
  PROVE  /\ o.machine \in { x, Stopped(x, t), Reset(x, t) }
         /\ (o.ret = "nil" /\ o.machine = Reset(x, t)) \/ o.ret = "error"
<1>1. CASE t = NodeWork
  <2>1. o \in WorkDisJoin(x)
    BY <1>1 DEF DisJoin
  <2> QED
    BY <1>1, <2>1, ScriptOutcomes DEF WorkDisJoin, Fails
<1>2. CASE t # NodeWork
  <2>1. o \in EdgeDisJoin(x) /\ t = NodeKubeedge
    BY <1>2 DEF DisJoin, Known
  <2> QED
    BY <2>1, ScriptOutcomes DEF EdgeDisJoin, Fails
<1> QED
  BY <1>1, <1>2

\* The setup of the components changes no configuration, and starts no agent
\* that has none.
LEMMA SetupOutcomes ==
  ASSUME NEW x \in Machine, NEW t \in Known, NEW o \in SetNodeComponents(x, t)
  PROVE  /\ o.machine \in Machine
         /\ o.machine.pkg = x.pkg /\ o.machine.docker = x.docker /\ o.machine.images = x.images
         /\ o.machine.conf = x.conf
         /\ o.machine.agent \subseteq x.agent \cup x.conf
         /\ o.ret \in { "nil", "error" }
<1>1. CASE t = NodeWork
  <2>1. o \in WorkSetNodeComponents(x)
    BY <1>1 DEF SetNodeComponents
  <2> DEFINE removed   == [x EXCEPT !.tools = @ \ { NodeWork }]
             installed == [x EXCEPT !.tools = @ \cup { NodeWork }]
             stopped   == x.agent \ { NodeWork }
             z1 == [removed EXCEPT !.agent = stopped]
             z2 == [installed EXCEPT !.agent = stopped]
             y  == [installed EXCEPT !.agent = @ \cup (x.conf \cap { NodeWork })]
             Keeps(z) ==
               /\ z \in Machine
               /\ z.pkg = x.pkg /\ z.docker = x.docker /\ z.images = x.images /\ z.conf = x.conf
               /\ z.agent \subseteq x.agent \cup x.conf
  <2>2. o \in Script(x, NodeWork, { removed, z1, z2 }, y)
    BY <2>1 DEF WorkSetNodeComponents
  <2>3. Keeps(x) /\ Keeps(removed) /\ Keeps(z1)
    BY DEF Machine, Known
  <2>4. Keeps(z2) /\ Keeps(y)
    BY DEF Machine, Known
  <2> HIDE DEF removed, z1, z2, y
  <2>5. o.machine \in { x, y, removed, z1, z2 } /\ o.ret \in { "nil", "error" }
    BY <2>2, ScriptOutcomes
  <2> QED
    BY <2>3, <2>4, <2>5
<1>2. CASE t # NodeWork
  <2>1. o \in EdgeSetNodeComponents(x)
    BY <1>2 DEF SetNodeComponents
  <2> DEFINE z == [x EXCEPT !.edgecore = TRUE]
             y == [x EXCEPT !.edgecore = TRUE, !.tools = @ \cup { NodeKubeedge }]
  <2>2. o.machine \in { x, y, z } /\ o.ret \in { "nil", "error" }
    BY <2>1, ScriptOutcomes DEF EdgeSetNodeComponents
  <2> QED
    BY <2>2 DEF Machine, Known, NodeWork, NodeKubeedge
<1> QED
  BY <1>1, <1>2

\* Every outcome of every phase is sound.
LEMMA PhaseIsSound ==
  ASSUME NEW i \in 1 .. Sum, NEW x \in Machine, NEW t \in Known, NEW o \in Phase(i, x, t)
  PROVE  Sound(i, x, t, o)
<1> USE DEF Sum
<1> DEFINE P == [x EXCEPT !.pkg = @ \cup { t }]
           D == [x EXCEPT !.docker = TRUE]
           L == [x EXCEPT !.images = @ \cup { t }]
<1>0. /\ P \in Machine /\ x.pkg \subseteq P.pkg /\ t \in P.pkg
      /\ P.docker = x.docker /\ P.images = x.images /\ P.conf = x.conf /\ P.agent = x.agent
  BY DEF Machine
<1>a. /\ D \in Machine /\ D.docker = TRUE
      /\ D.pkg = x.pkg /\ D.images = x.images /\ D.conf = x.conf /\ D.agent = x.agent
  BY DEF Machine
<1>b. /\ L \in Machine /\ x.images \subseteq L.images /\ t \in L.images
      /\ L.pkg = x.pkg /\ L.docker = x.docker /\ L.conf = x.conf /\ L.agent = x.agent
  BY DEF Machine
<1> HIDE DEF P, D, L
<1>1. CASE i \in { 1, 2 }
  <2>1. o \in CheckArch(x, t) \cup CheckNodeVersion(x, t)
    BY <1>1 DEF Phase
  <2> QED
    BY <1>1, <2>1, CheckOutcomes DEF Sound
<1>2. CASE i = 3
  <2>1. o \in Command(x, P)
    BY <1>2 DEF Phase, PrepareSetupPkg, P
  <2> QED
    BY <1>0, <1>2, <2>1 DEF Command, Ok, Fails, Sound, Returned
<1>3. CASE i \in { 4, 6, 7 }
  <2>1. o = Ok(x) \/ o \in Script(x, t, {}, x)
    BY <1>3 DEF Phase, StopFirewalld, SetDockerConf, SetHostName
  <2>2. o.machine = x /\ o.ret \in Returned
    BY <2>1, ScriptOutcomes DEF Ok, Returned
  <2> QED
    BY <1>3, <2>2 DEF Sound
<1>4. CASE i = 5
  <2>1. o \in Script(x, t, {}, D)
    BY <1>4 DEF Phase, InstallDocker, D
  <2>2. o.machine \in { x, D } /\ o.ret \in Returned /\ (o.ret = "nil" => o.machine = D)
    BY <2>1, ScriptOutcomes DEF Returned
  <2> QED
    BY <1>4, <1>a, <2>2 DEF Sound
<1>5. CASE i = 8
  <2>1. o \in Script(x, t, {}, L) \/ o = Fails(x)
    BY <1>5 DEF Phase, LoadImage, L
  <2>2. o.machine \in { x, L } /\ o.ret \in Returned /\ (o.ret = "nil" => o.machine = L)
    BY <2>1, ScriptOutcomes DEF Returned, Fails
  <2> QED
    BY <1>5, <1>b, <2>2 DEF Sound
<1>6. CASE i = 9
  <2>1. o \in SetNodeComponents(x, t)
    BY <1>6 DEF Phase
  <2> QED
    BY <1>6, <2>1, SetupOutcomes DEF Sound, Returned
<1>7. CASE i = 10
  <2>1. o \in Join(x, t)
    BY <1>7 DEF Phase
  <2>2. /\ o.machine \in { x, Stopped(x, t), Reset(x, t), Configured(x, t), Joined(x, t) }
        /\ o.ret \in Returned
        /\ o.ret = "nil" => o.machine = Joined(x, t) /\ t \in x.tools
    BY <2>1, JoinOutcomes
  <2> DEFINE Keeps(z) ==
        /\ z \in Machine
        /\ z.pkg = x.pkg /\ z.docker = x.docker /\ z.images = x.images /\ z.tools = x.tools
        /\ z.conf \subseteq x.conf \cup { t }
        /\ x.agent \subseteq x.conf => z.agent \subseteq z.conf
  <2>a. Keeps(Stopped(x, t))
    BY DEF Stopped, Machine
  <2>b. Keeps(Reset(x, t))
    BY DEF Reset, Machine
  <2>c. Keeps(Configured(x, t))
    BY DEF Configured, Machine
  <2>d. Keeps(Joined(x, t))
    BY DEF Joined, Machine
  <2>3. \A z \in { Stopped(x, t), Reset(x, t), Configured(x, t), Joined(x, t) } : Keeps(z)
    BY <2>a, <2>b, <2>c, <2>d
  <2>4. t \in Joined(x, t).agent
    BY DEF Joined, Machine
  <2>5. o.machine = x \/ o.machine \in { Stopped(x, t), Reset(x, t), Configured(x, t), Joined(x, t) }
    BY <2>2
  <2>6. o.ret = "nil" => t \in o.machine.tools /\ t \in o.machine.agent
    BY <2>2, <2>3, <2>4
  <2> QED
    BY <1>7, <2>2, <2>3, <2>5, <2>6 DEF Sound
<1> QED
  BY <1>1, <1>2, <1>3, <1>4, <1>5, <1>6, <1>7

-----------------------------------------------------------------------------
(***************************************************************************)
(* The machine while a launch is under way: what its phases have done so   *)
(* far is still there.  A call under way has no result yet.                *)
(***************************************************************************)
Reached ==
  /\ call # "none" => result = "none"
  /\ call = "launch" =>
       /\ progress < Sum
       /\ progress >= 3 => nodeType \in machine.pkg
       /\ progress >= 5 => machine.docker
       /\ progress >= 8 => nodeType \in machine.images

\* Agents run with their configuration, and those that were reset have none.
ResetInv ==
  /\ machine.agent \subseteq machine.conf
  /\ gone \cap machine.conf = {}

\* The inductive invariant: the types, what the phases have reached, and what
\* is left of a machine that was reset.
LaunchInv == TypeOK /\ Reached /\ ResetInv

\* A step of LaunchPhase is one sound phase.
LEMMA PhaseStep ==
  ASSUME TypeOK, Reached, LaunchPhase
  PROVE  /\ call = "launch" /\ sshclient = "up" /\ nodeType \in Known
         /\ progress' = progress + 1 /\ progress' \in 1 .. Sum /\ nodeType' = nodeType
         /\ \E o : /\ Sound(progress', machine, nodeType, o)
                   /\ machine' = o.machine
                   /\ \/ o.ret = "nil" /\ progress' < Sum /\ UNCHANGED <<call, sshclient, result>>
                      \/ (o.ret # "nil" \/ progress' = Sum) /\ Return(o.ret)
<1>1. progress' = progress + 1 /\ progress' \in 1 .. Sum /\ machine \in Machine
  BY DEF TypeOK, Reached, LaunchPhase, Add, Sum
<1> QED
  BY <1>1, PhaseIsSound DEF LaunchPhase

\* A step of DeprecatePhase takes the agent out or fails.
LEMMA DisJoinStep ==
  ASSUME TypeOK, DeprecatePhase
  PROVE  /\ machine' \in Machine
         /\ machine' \in { machine, Stopped(machine, nodeType), Reset(machine, nodeType) }
         /\ \/ /\ machine' = Reset(machine, nodeType) /\ Return("nil")
               /\ gone' = gone \cup { nodeType }
            \/ Return("error") /\ gone' = gone
<1>1. /\ machine \in Machine /\ Stopped(machine, nodeType) \in Machine
      /\ Reset(machine, nodeType) \in Machine
  BY DEF TypeOK, Machine, Stopped, Reset
<1>2. PICK o \in DisJoin(machine, nodeType) :
        /\ machine' = o.machine /\ Return(o.ret)
        /\ gone' = IF o.ret = "nil" THEN gone \cup { nodeType } ELSE gone
  BY DEF DeprecatePhase
<1>3. nodeType \in Known
  BY DEF DeprecatePhase
<1> QED
  BY <1>1, <1>2, <1>3, DisJoinOutcomes

\* The invariant is inductive.
LEMMA LaunchInvStep ==
  ASSUME LaunchInv, [Next]_vars
  PROVE  LaunchInv'
<1> USE DEF Sum, LaunchInv
<1>1. CASE LaunchByCmd
  BY <1>1 DEF LaunchByCmd, TypeOK, Reached, ResetInv, Results
<1>2. CASE Deprecate
  BY <1>2 DEF Deprecate, TypeOK, Reached, ResetInv, Results
<1>3. CASE NewClient
  BY <1>3 DEF NewClient, TypeOK, Reached, ResetInv
<1>4. CASE LaunchRefused
  BY <1>4 DEF LaunchRefused, Return, TypeOK, Reached, ResetInv, Results
<1>5. CASE LaunchUnknown
  <2>1. progress' \in 0 .. Sum
    BY <1>5 DEF LaunchUnknown, Add, TypeOK
  <2> QED
    BY <1>5, <2>1 DEF LaunchUnknown, Return, TypeOK, Reached, ResetInv, Results
<1>6. CASE LaunchPhase
  <2>1. PICK o : /\ Sound(progress', machine, nodeType, o)
                 /\ machine' = o.machine
                 /\ \/ o.ret = "nil" /\ progress' < Sum /\ UNCHANGED <<call, sshclient, result>>
                    \/ (o.ret # "nil" \/ progress' = Sum) /\ Return(o.ret)
    BY <1>6, PhaseStep
  <2>2. /\ call = "launch" /\ sshclient = "up" /\ nodeType \in Known
        /\ progress' = progress + 1 /\ progress' \in 1 .. Sum /\ nodeType' = nodeType
    BY <1>6, PhaseStep
  <2>0. gone' = IF progress' = Sum THEN gone \ { nodeType } ELSE gone
    BY <1>6 DEF LaunchPhase
  <2>3. TypeOK'
    BY <2>0, <2>1, <2>2 DEF TypeOK, Sound, Return, Returned, Results
  <2>4. Reached'
    <3>1. CASE Return(o.ret)
      BY <3>1 DEF Return, Reached
    <3>2. CASE o.ret = "nil" /\ progress' < Sum
      <4>1. progress \in 0 .. 9
        BY <2>2 DEF TypeOK, Reached
      <4>2. progress' >= 3 => nodeType' \in machine'.pkg
        BY <2>1, <2>2, <3>2, <4>1 DEF Reached, Sound
      <4>3. progress' >= 5 => machine'.docker
        BY <2>1, <2>2, <3>2, <4>1 DEF Reached, Sound
      <4>4. progress' >= 8 => nodeType' \in machine'.images
        BY <2>1, <2>2, <3>2, <4>1 DEF Reached, Sound
      <4> QED
        BY <2>1, <2>2, <3>2, <4>2, <4>3, <4>4 DEF Reached, Return
    <3> QED
      BY <2>1, <3>1, <3>2
  <2>5. ResetInv'
    BY <2>0, <2>1, <2>2 DEF ResetInv, Sound
  <2> QED
    BY <2>3, <2>4, <2>5
<1>7. CASE DeprecateUnreached \/ DeprecateUnknown
  BY <1>7 DEF DeprecateUnreached, DeprecateUnknown, Return, TypeOK, Reached, ResetInv, Results
<1>8. CASE DeprecatePhase
  <2>1. /\ machine' \in Machine
        /\ machine' \in { machine, Stopped(machine, nodeType), Reset(machine, nodeType) }
        /\ \/ /\ machine' = Reset(machine, nodeType) /\ Return("nil")
              /\ gone' = gone \cup { nodeType }
           \/ Return("error") /\ gone' = gone
    BY <1>8, DisJoinStep
  <2>2. TypeOK' /\ Reached'
    BY <1>8, <2>1 DEF DeprecatePhase, Return, TypeOK, Reached, Results
  <2>3. machine \in Machine
    BY DEF TypeOK
  <2>4. ResetInv'
    BY <2>1, <2>3 DEF ResetInv, Stopped, Reset, Machine
  <2> QED
    BY <2>2, <2>4
<1>9. ASSUME NEW t \in NodeTypes, EditType(t) PROVE LaunchInv'
  BY <1>9 DEF EditType, TypeOK, Reached, ResetInv, Results
<1>10. CASE UNCHANGED vars
  BY <1>10 DEF vars, TypeOK, Reached, ResetInv
<1> QED
  BY <1>1, <1>2, <1>3, <1>4, <1>5, <1>6, <1>7, <1>8, <1>9, <1>10 DEF Next

\* The invariant holds initially: no call is under way.
LEMMA LaunchInvInit == Init => LaunchInv
  BY DEF Init, LaunchInv, TypeOK, Reached, ResetInv, Machine, Results, Sum

\* Types, with what they say of a launch: one that has passed a phase has a
\* client and a type the code knows.
THEOREM ManagerTypeCorrect == Spec => []TypeOK
<1>1. LaunchInv => TypeOK
  BY DEF LaunchInv
<1> QED
  BY <1>1, LaunchInvInit, LaunchInvStep, PTL DEF Spec

\* LaunchByCmd returns without error only for a machine on which every phase
\* has had its effect, whatever earlier calls of both types have done to it.
THEOREM LaunchCorrect == Spec => LaunchIsComplete
<1> DEFINE Complete ==
      /\ progress' = Sum
      /\ machine'.docker
      /\ nodeType \in machine'.pkg
      /\ nodeType \in machine'.images
      /\ nodeType \in machine'.tools
      /\ nodeType \in machine'.agent
<1>1. ASSUME LaunchInv, [Next]_vars, call = "launch", result' = "nil" PROVE Complete
  <2>1. result = "none"
    BY <1>1 DEF LaunchInv, Reached
  <2>2. LaunchPhase
    BY <1>1, <2>1 DEF Next, vars, LaunchByCmd, Deprecate, NewClient, LaunchRefused, LaunchUnknown,
                      DeprecateUnreached, DeprecateUnknown, DeprecatePhase, EditType, Return
  <2>3. PICK o : /\ Sound(progress', machine, nodeType, o)
                 /\ machine' = o.machine
                 /\ \/ o.ret = "nil" /\ progress' < Sum /\ UNCHANGED <<call, sshclient, result>>
                    \/ (o.ret # "nil" \/ progress' = Sum) /\ Return(o.ret)
    BY <1>1, <2>2, PhaseStep DEF LaunchInv
  <2>4. o.ret = "nil" /\ progress' = Sum
    BY <1>1, <2>1, <2>3 DEF Return
  <2>5. progress = 9
    BY <1>1, <2>2, <2>4, PhaseStep DEF LaunchInv, TypeOK, Sum
  <2> QED
    BY <1>1, <2>3, <2>4, <2>5 DEF LaunchInv, Reached, Sound, Sum
<1> QED
  BY <1>1, LaunchInvInit, LaunchInvStep, PTL DEF Spec, LaunchIsComplete

\* A deprecation that has a connection and returns without error has taken
\* the agent out.
THEOREM DeprecateCorrect == Spec => DeprecateIsComplete
<1>1. ASSUME LaunchInv, [Next]_vars, call = "deprecate", sshclient = "up", result' = "nil"
      PROVE  nodeType \notin machine'.agent
  <2>1. result = "none"
    BY <1>1 DEF LaunchInv, Reached
  <2>2. DeprecatePhase
    BY <1>1, <2>1 DEF Next, vars, LaunchByCmd, Deprecate, NewClient, LaunchRefused, LaunchUnknown,
                      LaunchPhase, DeprecateUnreached, DeprecateUnknown, EditType, Return
  <2>3. machine' = Reset(machine, nodeType)
    BY <1>1, <2>2, DisJoinStep DEF LaunchInv, Return
  <2> QED
    BY <1>1, <2>3 DEF LaunchInv, TypeOK, Machine, Reset
<1> QED
  BY <1>1, LaunchInvInit, LaunchInvStep, PTL DEF Spec, DeprecateIsComplete

\* A node that was taken out over a connection stays out until a launch gets
\* to its join: a reset takes the configuration with the agent, and no other
\* phase starts an agent that has none.
THEOREM StaysOutCorrect == Spec => []DeprecatedStaysOut
<1>1. LaunchInv => DeprecatedStaysOut
  BY DEF LaunchInv, ResetInv, DeprecatedStaysOut
<1> QED
  BY <1>1, LaunchInvInit, LaunchInvStep, PTL DEF Spec

-----------------------------------------------------------------------------
(***************************************************************************)
(* The refinement.                                                         *)
(***************************************************************************)
Host == IF nodeType \in machine.agent THEN "joined" ELSE "out"

\* A step that leaves the agents and the type alone leaves the membership.
LEMMA HostKept ==
  ASSUME nodeType' = nodeType, machine'.agent = machine.agent
  PROVE  Host' = Host
  BY DEF Host

\* Every step of NodeManager is one of Membership.
LEMMA MembershipStep ==
  ASSUME LaunchInv, [Next]_vars
  PROVE  Members!Next \/ UNCHANGED <<Host, call, sshclient, result>>
<1> USE DEF LaunchInv
<1>0. Host \in { "joined", "out" } /\ Host' \in { "joined", "out" }
  BY DEF Host
<1>1. CASE LaunchByCmd \/ Deprecate
  <2>1. Host' = Host
    BY <1>1, HostKept DEF LaunchByCmd, Deprecate
  <2>2. Members!Begin
    BY <1>1, <2>1 DEF LaunchByCmd, Deprecate, Members!Begin, Host
  <2> QED
    BY <2>2 DEF Members!Next
<1>2. CASE NewClient
  <2>1. Host' = Host
    BY <1>2, HostKept DEF NewClient
  <2>2. Members!Dial
    BY <1>2, <2>1 DEF NewClient, Members!Dial, Host
  <2> QED
    BY <2>2 DEF Members!Next
<1>3. CASE LaunchRefused \/ LaunchUnknown \/ DeprecateUnknown
  <2>1. Host' = Host
    BY <1>3, HostKept DEF LaunchRefused, LaunchUnknown, DeprecateUnknown
  <2>2. Members!Fail
    BY <1>3, <2>1 DEF LaunchRefused, LaunchUnknown, DeprecateUnknown, Return,
                      Members!Fail, Members!Return, Host
  <2> QED
    BY <2>2 DEF Members!Next
<1>4. CASE LaunchPhase
  <2>1. PICK o : /\ Sound(progress', machine, nodeType, o)
                 /\ machine' = o.machine
                 /\ \/ o.ret = "nil" /\ progress' < Sum /\ UNCHANGED <<call, sshclient, result>>
                    \/ (o.ret # "nil" \/ progress' = Sum) /\ Return(o.ret)
    BY <1>4, PhaseStep
  <2>2. call = "launch" /\ sshclient = "up" /\ nodeType' = nodeType /\ progress' \in 1 .. Sum
    BY <1>4, PhaseStep
  <2>3. CASE o.ret = "nil" /\ progress' < Sum /\ UNCHANGED <<call, sshclient, result>>
    <3>1. Members!Progress
      BY <1>0, <2>2, <2>3 DEF Members!Progress, Host
    <3> QED
      BY <3>1 DEF Members!Next
  <2>4. CASE o.ret = "nil" /\ progress' = Sum /\ Return(o.ret)
    <3>1. Host' = "joined"
      BY <2>1, <2>2, <2>4 DEF Sound, Sum, Host
    <3>2. Members!Launched
      BY <2>2, <2>4, <3>1 DEF Members!Launched, Members!Return, Return, Host
    <3> QED
      BY <3>2 DEF Members!Next
  <2>5. CASE o.ret # "nil" /\ Return(o.ret)
    <3>1. o.ret \in { "error", "panic" }
      BY <2>1, <2>5 DEF Sound, Returned
    <3>2. Members!Fail
      BY <1>0, <2>2, <2>5, <3>1 DEF Members!Fail, Members!Return, Return, Host
    <3> QED
      BY <3>2 DEF Members!Next
  <2> QED
    BY <2>1, <2>3, <2>4, <2>5
<1>5. CASE DeprecateUnreached
  <2>1. Host' = Host
    BY <1>5, HostKept DEF DeprecateUnreached
  <2>2. Members!Unreached
    BY <1>5, <2>1 DEF DeprecateUnreached, Return, Members!Unreached, Members!Return, Host
  <2> QED
    BY <2>2 DEF Members!Next
<1>6. CASE DeprecatePhase
  <2>1. call = "deprecate" /\ sshclient = "up" /\ nodeType' = nodeType
    BY <1>6 DEF DeprecatePhase
  <2>2. /\ machine' \in { machine, Stopped(machine, nodeType), Reset(machine, nodeType) }
        /\ (machine' = Reset(machine, nodeType) /\ Return("nil")) \/ Return("error")
    BY <1>6, DisJoinStep
  <2>3. machine' # machine => Host' = "out"
    BY <2>1, <2>2 DEF Host, TypeOK, Machine, Stopped, Reset
  <2>4. machine' = Reset(machine, nodeType) => Host' = "out"
    BY <2>1 DEF Host, TypeOK, Machine, Reset
  <2>5. Host' \in { Host, "out" }
    BY <2>1, <2>2, <2>3, HostKept
  <2>6. Members!Deprecated \/ Members!Fail
    BY <2>1, <2>2, <2>4, <2>5
       DEF Members!Deprecated, Members!Fail, Members!Return, Return, Host
  <2> QED
    BY <2>6 DEF Members!Next
<1>7. ASSUME NEW t \in NodeTypes, EditType(t) PROVE Members!Next
  <2>1. Members!Retype
    BY <1>0, <1>7 DEF EditType, Members!Retype, Host
  <2> QED
    BY <2>1 DEF Members!Next
<1>8. CASE UNCHANGED vars
  BY <1>8, HostKept DEF vars
<1> QED
  BY <1>1, <1>2, <1>3, <1>4, <1>5, <1>6, <1>7, <1>8 DEF Next

\* The ten phases and the reset implement the membership that launchNode and
\* deprecateNode rely on.
THEOREM MembershipImplemented == Spec => MembershipSpec
<1>1. Init => Members!Init
  BY DEF Init, Members!Init
<1>2. LaunchInv /\ [Next]_vars => [Members!Next]_Members!memberVars
  BY MembershipStep DEF Members!memberVars, Host
<1> QED
  BY <1>1, <1>2, LaunchInvInit, LaunchInvStep, PTL DEF Spec, MembershipSpec, Members!Spec

=============================================================================
