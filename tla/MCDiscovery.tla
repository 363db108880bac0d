---------------------------- MODULE MCDiscovery -----------------------------
(* Instances of Discovery: two source pools, a backup pool and two remotes. *)
EXTENDS Discovery

Names8 == << <<"a">>, <<"a", "x">>, <<"a", "x", "m">>, <<"a", "y">>,
             <<"b">>, <<"b", "x">>, <<"c">>, <<"c", "x">> >>

A == <<"a">>
AX == <<"a", "x">>
AXM == <<"a", "x", "m">>
AY == <<"a", "y">>
B == <<"b">>
BX == <<"b", "x">>
C == <<"c">>
CX == <<"c", "x">>

\* One remote or two, on another host or, as it turns out, on this one.
Elsewhere == [r |-> [host |-> "far", root |-> B, here |-> FALSE]]
Here == [r |-> [host |-> "far", root |-> B, here |-> TRUE]]
Both == [r |-> [host |-> "far", root |-> B, here |-> TRUE],
         q |-> [host |-> "far", root |-> C, here |-> TRUE]]

Unset == [enabled |-> {}, policy |-> {}, replicate |-> {}, raw |-> {},
          discard |-> {}, local |-> {}, remote |-> {}]

\* a/x is a root with a member, sent to the local b.
OneRoot ==
  [d \in {A, AX, AXM, B} |->
     IF d = AX THEN [Bare EXCEPT !.enabled = "on", !.local = {B}] ELSE Bare]

\* a/x is sent to the remotes.
Sent(to) == [d \in {A, AX, B, C} |->
               IF d = AX THEN [Bare EXCEPT !.enabled = "on", !.remote = to] ELSE Bare]

\* a/x and c/x would both be received at b/x.
TwoRoots ==
  [d \in {A, AX, B, C, CX} |->
     IF d \in {AX, CX}
     THEN [Bare EXCEPT !.enabled = "on", !.discard = "first", !.local = IF d = AX THEN {B} ELSE {}]
     ELSE Bare]

Quiet == [tree |-> OneRoot, remotes |-> Elsewhere, edits |-> 0, settings |-> Unset,
          creates |-> {}, destroys |-> {}, reloads |-> {}]

Instances == {
  \* Activation changes at the root, above it, beneath it and at its destination.
  [Quiet EXCEPT !.edits = 3,
     !.settings = [Unset EXCEPT
        !.enabled = {<<A, "on">>, <<AX, "off">>, <<AXM, "off">>, <<AXM, "bad">>, <<B, "on">>},
        !.replicate = {<<AX, "on">>}]],
  \* Policy changes above the root and in its member; a member that is encrypted.
  [Quiet EXCEPT !.edits = 3, !.tree[AXM].encrypted = TRUE,
     !.settings = [Unset EXCEPT
        !.policy = {<<A, "bad">>, <<AXM, "bad">>}, !.raw = {<<AX, "off">>},
        !.replicate = {<<A, "on">>}, !.local = {<<AXM, {BX}>>}, !.remote = {<<A, {"r"}>>, <<AXM, {"q"}>>}]],
  \* Two roots whose replicas would overlap, here or on the remote.
  [Quiet EXCEPT !.edits = 3, !.tree = TwoRoots,
     !.settings = [Unset EXCEPT
        !.local = {<<AX, {B}>>, <<AX, {}>>, <<CX, {B}>>},
        !.remote = {<<AX, {"r"}>>, <<CX, {"r"}>>}, !.discard = {<<CX, "all">>}]],
  \* Datasets that come and go under a scan, some with received state.
  [Quiet EXCEPT !.edits = 3, !.creates = {AY, BX}, !.destroys = {AX, AXM, BX},
     !.settings = [Unset EXCEPT !.enabled = {<<AY, "on">>, <<AX, "off">>}]],
  [Quiet EXCEPT !.edits = 3, !.tree = [d \in {A, AX, AXM, B, BX} |->
                   IF d = BX THEN [Bare EXCEPT !.received = TRUE] ELSE OneRoot[d]],
     !.destroys = {BX}, !.settings = [Unset EXCEPT !.enabled = {<<BX, "on">>, <<B, "on">>}]],
  \* Reloads that change the remotes, or do not, while transfers find out that
  \* one or two of them are local.
  [Quiet EXCEPT !.tree = Sent({"r"}), !.remotes = Here, !.reloads = {Elsewhere, Here}],
  [Quiet EXCEPT !.tree = Sent({"r", "q"}), !.remotes = Both, !.reloads = {Elsewhere, Both}]}

\* A root is destroyed.
RootDestroyed == {[Quiet EXCEPT !.edits = 3, !.destroys = {AX},
                     !.settings = [Unset EXCEPT !.enabled = {<<B, "on">>}]]}

\* A transfer finds out that its remote is local while a reload replaces it.
Replaced == {[Quiet EXCEPT !.tree = Sent({"r"}), !.remotes = Here, !.reloads = {Elsewhere}]}

\* Two transfers learn where their remotes receive, and set it in either order.
TwoLearners == {[Quiet EXCEPT !.tree = Sent({"r", "q"}), !.remotes = Both]}
=============================================================================
