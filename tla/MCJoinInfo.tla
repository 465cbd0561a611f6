---------------------------- MODULE MCJoinInfo ----------------------------
(***************************************************************************)
(* An instance of JoinInfo for TLC.                                        *)
(***************************************************************************)
EXTENDS JoinInfo

CONSTANTS c1, c2

\* An unnamed cluster, a named one, both or none, with every kind of
\* certificate; a current context that is there or not.
MCKubeConfigs ==
  { k \in KubeConfig : k.current = "a" /\ k.contexts[""] = NoContext }

=============================================================================
