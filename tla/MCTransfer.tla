----------------------------- MODULE MCTransfer -----------------------------
(* Small instances of Transfer: one root, with or without one member.      *)
EXTENDS Transfer

CONSTANTS root, child

OneDataset == {root}
OneBeneath == [d \in OneDataset |-> {root}]

TwoDatasets == {root, child}
TwoBeneath == [d \in TwoDatasets |-> IF d = root THEN TwoDatasets ELSE {child}]
=============================================================================
