---------------------------- MODULE MCControlPlane ----------------------------
(* ControlPlane for TLC: the agents are interchangeable.                   *)
EXTENDS ControlPlane, TLC

Symmetry == Permutations(Agents)
=============================================================================
