------------------------------ MODULE MCStatus ------------------------------
(* Instances of Status: two jobs, channels of three, one watch and the log. *)
EXTENDS Status

CONSTANTS backup, prune

TwoJobs == {backup, prune}

Idle == [transitions |-> 0, drops |-> 0, views |-> 0, samples |-> 0, flushes |-> 0,
         watches |-> 0, cancels |-> 0, generation |-> 0, log |-> FALSE]

Inputs == {
  \* A watch behind a burst of transitions.
  [Idle EXCEPT !.transitions = 1, !.drops = 3, !.watches = 1],
  \* A watch that is cancelled.
  [Idle EXCEPT !.drops = 1, !.views = 2, !.watches = 1, !.cancels = 1],
  \* A watch and progress samples.
  [Idle EXCEPT !.transitions = 3, !.samples = 2, !.watches = 1],
  \* The log behind a burst, and flushes.
  [Idle EXCEPT !.drops = 3, !.views = 1, !.flushes = 1, !.log = TRUE],
  [Idle EXCEPT !.drops = 2, !.views = 1, !.flushes = 2, !.log = TRUE]}
=============================================================================
