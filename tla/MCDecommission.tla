--------------------------- MODULE MCDecommission ---------------------------
(* Instances of Decommission: a local target and a remote one. *)
EXTENDS Decommission

Calm == [enables |-> 0, outages |-> 0, crashes |-> 0, starts |-> 0,
         interrupts |-> 0, transfers |-> 0, adoptions |-> 0]

Cleaning ==
  [goal |-> "clean", destroy |-> FALSE, recursive |-> FALSE, scopes |-> {Datasets},
   gone |-> {}, begun |-> {}, stage |-> [near |-> "sent", far |-> "fresh"], format |-> 2,
   up |-> TRUE, enabled |-> "off", bounds |-> [Calm EXCEPT !.interrupts = 2]]

Stopped == [Cleaning EXCEPT !.up = FALSE]

Retiring ==
  [Cleaning EXCEPT !.goal = "retire", !.recursive = TRUE,
                   !.stage = [near |-> "checkpointed", far |-> "sent"]]

TwoTargets == {
  \* A clean interrupted anywhere, twice, at each stage of two targets.
  Cleaning,
  [Cleaning EXCEPT !.recursive = TRUE, !.destroy = TRUE,
                   !.stage = [near |-> "checkpointed", far |-> "sent"]],
  \* Targets that are gone, or were never bound.
  [Cleaning EXCEPT !.recursive = TRUE, !.gone = {"far"},
                   !.stage = [near |-> "recorded", far |-> "held"]],
  \* The root is enabled again under a clean, and a transfer starts.
  [Cleaning EXCEPT !.recursive = TRUE,
                   !.stage = [near |-> "checkpointed", far |-> "fresh"],
                   !.bounds = [Calm EXCEPT !.enables = 1, !.transfers = 1]],
  \* The same, when an earlier transfer stopped between its proof and its hold.
  [Cleaning EXCEPT !.recursive = TRUE, !.begun = {"near"},
                   !.stage = [near |-> "checkpointed", far |-> "fresh"],
                   !.bounds = [Calm EXCEPT !.enables = 1, !.transfers = 1]],
  \* Cleaned alone, then with its member.
  [Cleaning EXCEPT !.scopes = {{Root}}, !.bounds = [Calm EXCEPT !.interrupts = 1]],
  [Cleaning EXCEPT !.scopes = {{Root}, Datasets}, !.recursive = TRUE,
                   !.bounds = [Calm EXCEPT !.interrupts = 1],
                   !.stage = [near |-> "checkpointed", far |-> "fresh"]],
  \* The daemon is stopped: cleaned, then enabled and adopted again.
  [Stopped EXCEPT !.enabled = "on", !.recursive = TRUE,
                  !.bounds = [Calm EXCEPT !.enables = 1, !.adoptions = 1, !.interrupts = 1]],
  \* State of the first format is migrated, then cleaned.
  [Stopped EXCEPT !.format = 1, !.stage = [near |-> "sent", far |-> "held"],
                  !.bounds = [Calm EXCEPT !.interrupts = 2, !.enables = 1, !.adoptions = 1]],
  \* Retirement, with failures, restarts and targets that come and go.
  [Retiring EXCEPT !.bounds = [Calm EXCEPT !.interrupts = 1, !.outages = 1]],
  [Retiring EXCEPT !.recursive = FALSE,
                   !.bounds = [Calm EXCEPT !.crashes = 1, !.starts = 1]],
  [Retiring EXCEPT !.stage = [near |-> "sent", far |-> "fresh"],
                   !.bounds = [Calm EXCEPT !.enables = 1, !.transfers = 1]]}

\* `dataset clean ROOT --apply`, without --recursive.
ExactScope == {[Cleaning EXCEPT !.scopes = {{Root}}, !.recursive = TRUE,
                                !.stage = [near |-> "checkpointed", far |-> "fresh"]]}

\* A transfer to a target without a replica stops after its record; the target
\* is forgotten while the root is enabled again and sent to once more.
ForgetBesideTransfer ==
  {[Cleaning EXCEPT !.enabled = "on", !.recursive = TRUE,
                    !.stage = [near |-> "fresh", far |-> "fresh"],
                    !.bounds = [Calm EXCEPT !.enables = 1, !.transfers = 2]]}

=============================================================================
