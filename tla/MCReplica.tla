----------------------------- MODULE MCReplica -----------------------------
(* A root, a dataset beneath it and one beneath that, with one kind of        *)
(* disturbance per behaviour.                                                 *)
EXTENDS Replica

R == <<"r">>
H == <<"r", "h">>
G == <<"r", "h", "g">>

Chain == {R, H, G}

Quiet == [first |-> {G}, policies |-> <<>>, owner |-> "ours", snapshots |-> 0, crashes |-> 0,
          breaks |-> 0, outages |-> 0, replacements |-> 0, reseeds |-> 0, aborts |-> 0, adopts |-> 0]

OneAtATime == {
    [Quiet EXCEPT !.policies = <<{R, G}, Chain>>, !.crashes = 2, !.breaks = 1],
    [Quiet EXCEPT !.policies = <<Chain>>, !.snapshots = 1, !.crashes = 1],
    [Quiet EXCEPT !.policies = <<Chain>>, !.breaks = 2, !.crashes = 1],
    [Quiet EXCEPT !.policies = <<Chain>>, !.breaks = 2, !.aborts = 1],
    [Quiet EXCEPT !.first = {H}, !.policies = <<{G}>>, !.breaks = 1, !.aborts = 1],
    [Quiet EXCEPT !.policies = <<{R, G}, {G}, Chain>>, !.crashes = 1, !.breaks = 1],
    [Quiet EXCEPT !.policies = <<Chain>>, !.outages = 1, !.breaks = 1],
    [Quiet EXCEPT !.policies = <<Chain>>, !.reseeds = 2, !.crashes = 2, !.breaks = 1],
    [Quiet EXCEPT !.first = {R, H}, !.replacements = 1, !.snapshots = 1, !.reseeds = 1],
    [Quiet EXCEPT !.first = {H}, !.policies = <<{R, H}>>, !.replacements = 1, !.reseeds = 1, !.outages = 1],
    [Quiet EXCEPT !.first = {R, H}, !.owner = "other", !.outages = 1, !.adopts = 2, !.crashes = 1, !.replacements = 1]}

\* Something is put in the place of the root's placeholder.
RootTaken == {[Quiet EXCEPT !.first = {H}, !.replacements = 1]}

OneCrash == {[Quiet EXCEPT !.policies = <<{R, G}>>, !.crashes = 1]}
=============================================================================
