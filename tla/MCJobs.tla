------------------------------- MODULE MCJobs -------------------------------
(* One root with at most one target, with one kind of disturbance per         *)
(* behaviour.                                                                 *)
EXTENDS Jobs

Behaviour(target, start, snapshots, toggles, failures, refusals, reloads, turned) ==
    [kind |-> target, start |-> start, snapshots |-> snapshots, toggles |-> toggles,
     failures |-> failures, refusals |-> refusals, reloads |-> reloads,
     turned |-> turned]

OneAtATime == {
    Behaviour("local",  "settled", 2, 0, 2, 0, 0, 0),
    Behaviour("remote", "settled", 2, 0, 2, 0, 0, 0),
    Behaviour("remote", "settled", 1, 0, 1, 0, 1, 0),
    Behaviour("remote", "settled", 2, 0, 0, 0, 1, 0),
    Behaviour("local",  "settled", 1, 1, 0, 0, 0, 0),
    Behaviour("local",  "settled", 0, 2, 0, 0, 0, 0),
    Behaviour("remote", "fresh",   1, 0, 0, 0, 0, 0),
    Behaviour("none",   "settled", 0, 2, 1, 1, 0, 0),
    Behaviour("none",   "settled", 0, 3, 0, 0, 0, 0),
    Behaviour("local",  "settled", 2, 0, 0, 0, 0, 1),
    Behaviour("remote", "settled", 1, 0, 1, 0, 0, 1),
    Behaviour("none",   "settled", 0, 2, 0, 0, 0, 1)}

OffOnOff == {Behaviour("none", "settled", 0, 3, 0, 0, 0, 0)}
=============================================================================
