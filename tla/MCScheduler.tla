---------------------------- MODULE MCScheduler -----------------------------
(* A small instance of Scheduler: one root with two members of different      *)
(* cadence.                                                                   *)
EXTENDS Scheduler

CONSTANTS root, child

Roots == {root}
Members == {root, child}
MemberRoot == [m \in Members |-> root]
MemberCadence == [m \in Members |-> IF m = root THEN 2 ELSE 1]
=============================================================================
