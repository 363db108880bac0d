------------------------------- MODULE MCPool -------------------------------
(* A root's reconciliation, which waits for its transfers to end, and three   *)
(* transfers of two roots whose scopes below the target overlap: t with t/a   *)
(* and t/b, but not these with each other.                                   *)
EXTENDS Pool

CONSTANTS QuietA, SendA, SendAll, SendB, m1, x1, x2

JobSet == {QuietA, SendA, SendAll, SendB}
Two == <<"management", "transfer">>
JobPool == [j \in JobSet |-> IF j = QuietA THEN "management" ELSE "transfer"]
RootOfJob == [j \in JobSet |-> IF j = SendB THEN "b" ELSE "a"]
JobKey == [j \in JobSet |-> IF j = QuietA THEN "a" ELSE "target"]
JobScope == [j \in JobSet |-> CASE j = SendA -> <<"t", "a">> [] j = SendB -> <<"t", "b">>
                                [] j = SendAll -> <<"t">> [] OTHER -> <<>>]
JobAwaits == [j \in JobSet |-> IF j = QuietA THEN {SendA, SendAll} ELSE {}]
WorkerSlots == [p \in {"management", "transfer"} |-> IF p = "transfer" THEN {x1, x2} ELSE {m1}]
OneAtATime == {{"clean"}, {"resize"}, {"shutdown"}}
RootKeys == <<"a", "b">>
=============================================================================
