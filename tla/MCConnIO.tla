------------------------------ MODULE MCConnIO ------------------------------
(* ConnIO for TLC. *)
EXTENDS ConnIO

Symmetry ==
  UNION {Permutations(S) : S \in {TrackMsgs, TaskMsgs, HookMsgs, OpenMsgs}}
=============================================================================
