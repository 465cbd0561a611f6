----------------------- MODULE MCNodeDeployController -----------------------
(***************************************************************************)
(* Instances of NodeDeployController for TLC.                              *)
(***************************************************************************)
EXTENDS NodeDeployController, TLC

\* A target the CRD admits beside the two the controller knows: none at all.
AnyTarget == { NodeActive, NodeInactive, NodeUnknown }

\* The managers run the same code and no property names one of them.
ManagerSymmetry == Permutations(Managers)

=============================================================================
