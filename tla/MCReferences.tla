---------------------------- MODULE MCReferences ----------------------------
(* A root with one member, as small instances of References.               *)
EXTENDS References

CONSTANTS root, child

Datasets == {root, child}
Subtrees == [d \in Datasets |-> IF d = root THEN Datasets ELSE {child}]
=============================================================================
