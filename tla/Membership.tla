----------------------------- MODULE Membership -----------------------------
(***************************************************************************)
(* What launchNode and deprecateNode rely on of pkg/nodemanager: a machine *)
(* that is a node of the cluster or is not, a launch that returns without  *)
(* error only when it is, and a deprecation that does so only when it is   *)
(* not, unless the machine could not be reached.  A call that fails may    *)
(* leave the machine either way.                                           *)
(***************************************************************************)
VARIABLES
  host,      \* the machine: "joined" or "out"
  call,      \* the call under way: "none", "launch" or "deprecate"
  client,    \* its connection: "none" yet, "up", or "nil" when it failed
  result     \* how the last call returned

memberVars == <<host, call, client, result>>

Return(r) == call' = "none" /\ client' = "none" /\ result' = r

Init == host \in { "joined", "out" } /\ call = "none" /\ client = "none" /\ result = "none"

Begin ==
  /\ call = "none"
  /\ call' \in { "launch", "deprecate" } /\ result' = "none"
  /\ UNCHANGED <<host, client>>

Dial ==
  /\ call # "none" /\ client = "none"
  /\ client' \in { "up", "nil" }
  /\ UNCHANGED <<host, call, result>>

\* Some phases of a launch are done.  A kubelet that an earlier failure has
\* left stopped may run again.
Progress ==
  /\ call = "launch" /\ client = "up"
  /\ host' \in { "joined", "out" }
  /\ UNCHANGED <<call, client, result>>

Launched ==
  /\ call = "launch" /\ client = "up"
  /\ host' = "joined" /\ Return("nil")

Deprecated ==
  /\ call = "deprecate" /\ client = "up"
  /\ host' = "out" /\ Return("nil")

\* The deprecation of a machine that was not reached is no error.
Unreached ==
  /\ call = "deprecate" /\ client = "nil"
  /\ UNCHANGED host /\ Return("nil")

Fail ==
  /\ call # "none" /\ client # "none"
  /\ \/ host' \in { host, "out" }
     \/ call = "launch" /\ client = "up" /\ host' = "joined"
  /\ \E r \in { "error", "panic" } : Return(r)

\* The user makes it another kind of node, which the machine is or is not.
Retype ==
  /\ call = "none"
  /\ host' \in { "joined", "out" } /\ result' = "none"
  /\ UNCHANGED <<call, client>>

Next == \/ Begin \/ Dial \/ Progress \/ Launched \/ Deprecated \/ Unreached
        \/ Fail \/ Retype

Spec == Init /\ [][Next]_memberVars

=============================================================================
