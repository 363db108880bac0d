---------------------------- MODULE Decommission ----------------------------
(***************************************************************************)
(* Letting go of a source root.  A root keeps state in ZFS: the metadata   *)
(* of its snapshots, a hold or a bookmark on every snapshot a target       *)
(* needs, the proof of each, a binding per target, and the properties that *)
(* make it a root at all.  Four commands take that state apart or rewrite  *)
(* it, one ZFS command at a time:                                          *)
(*   dataset clean          everything in its scope (clean.go)             *)
(*   clean --forget-target  one target's state, unchecked (forget.go)      *)
(*   automatic retirement   the replicas, then the source (retirement.go)  *)
(*   migrate                every record, then the marker (migrate.go)     *)
(* Each may stop after any write: the process is killed, ZFS refuses, the  *)
(* state changed underneath.  The daemon's own clean and retirement run    *)
(* beside its transfers, which the user wakes by enabling the root again.  *)
(*                                                                         *)
(* The state of a root is a function from the kinds of thing it keeps to   *)
(* the set of those it has, and a plan is a part of it still to be removed.*)
(* Names, hashes and timestamps are abstracted to what they distinguish.   *)
(***************************************************************************)
EXTENDS Naturals, Sequences, FiniteSets

CONSTANTS
  Targets,       \* the targets the root sends to
  Remotes,       \* those named by the configuration file, not by policy
  Environments   \* what a behaviour starts from and what disturbs it

VARIABLES
  env,       \* the environment of this behaviour
  left,      \* how often each disturbance may still happen
  src,       \* the root's state, and its member's
  replica,   \* per target, the owned snapshots of its replica
  seeded,    \* the targets whose replica dataset exists
  ready,     \* the targets that answer with the identity of their binding
  partial,   \* the targets with an interrupted receive to be resumed
  up,        \* the daemon runs, and holds the lifecycle lock
  gate,      \* its admission gate has the root enabled
  sending,   \* the transfer it runs, if any
  cmd,       \* the command or retirement under way, if any
  stray      \* history: what was put on the root, or kept outside a clean's
             \* scope, with nothing on the root to account for it

vars == <<env, left, src, replica, seeded, ready, partial, up, gate, sending, cmd, stray>>

Root == "root"
Member == "member"
Datasets == {Root, Member}
Instants == {1, 2}
CurrentVersion == 2

\* There are two formats of a root's records, and each was sent with replicate
\* on or off.
ASSUME EnvironmentAssumption ==
  \A e \in Environments : e.format \in {1, CurrentVersion} /\ e.recursive \in BOOLEAN

\* A plan sorted by property name alone clears a proof before its holds.
StagesByName == <<"enabled", "local", "inactive", "proofs", "owner", "marks", "holds",
                  "snaps", "meta", "targets", "version", "lineage">>

\* A plan's order: references before snapshots, snapshot metadata before the
\* dataset's properties, those by name, and the lineage last.
Stages == <<"marks", "holds", "snaps", "meta", "enabled", "local", "inactive",
            "owner", "proofs", "targets", "version", "lineage">>
Kinds == {Stages[n] : n \in 1..Len(Stages)}
Empty == [k \in Kinds |-> {}]

Plans == {"clean", "forget", "retire"}
Idle == [op |-> "idle"]
NotSending == [target |-> "none", step |-> "idle"]

-----------------------------------------------------------------------------
(* What the root's state says. *)

StateVersion(s) == IF s.version = {} THEN 1 ELSE CurrentVersion

KeepsRecords(s) == s.proofs \cup s.targets # {}

RecordsReadable(s) == KeepsRecords(s) => StateVersion(s) = CurrentVersion

\* Every proof decodes: it is in the format the marker names, and of a lineage.
ReferenceRecords(s) ==
  /\ RecordsReadable(s)
  /\ \A p \in s.proofs : p.format = CurrentVersion /\ s.lineage # {}

RootAuthority(s) ==
  s.owner # {} /\ s.lineage # {} /\ StateVersion(s) = CurrentVersion

\* A snapshot's own metadata carries the root's lineage.
Complete(s, d, i) == {<<d, i, "lineage">>, <<d, i, "snapshot">>} \subseteq s.meta
Ownership(s, d, i) == s.lineage # {} /\ <<d, i>> \in s.snaps /\ Complete(s, d, i)

\* The datasets whose snapshot a proof accounts for, among those inspected.
Sources(s, p, scope) ==
  {d \in scope : /\ d = p.stream \/ p.recursive
                 /\ <<d, p.instant, p.target>> \in s.holds \cup s.marks}

Proved(s, proofs, scope) ==
  UNION {{<<d, p.instant, p.target>> : d \in Sources(s, p, scope)} : p \in proofs}

\* A local destination is configured by the root's policy, a remote by the
\* configuration file.
Configured(s, t) == t \in Remotes \/ s.local # {}

BindingOf(t) == [target |-> t, kind |-> "binding", format |-> CurrentVersion]

\* The replica is inspected, so it has to exist, and no receive into it may be
\* waiting to be resumed.
CheckTarget(s, t) ==
  /\ Configured(s, t) /\ t \in ready /\ t \in seeded \ partial
  /\ BindingOf(t) \in s.targets

\* The daemon waits for the scope to be disabled and idle; a standalone
\* command for the daemon to be gone.
Quiescent == up => ~gate /\ sending = NotSending

-----------------------------------------------------------------------------
(* Plans. *)

\* A scope is the root alone, or the root and its member.
Destroyable(s, scope) ==
  {x \in s.snaps : /\ x[1] \in scope
                   /\ Ownership(s, x[1], x[2])
                   /\ \A h \in s.holds : <<h[1], h[2]>> = x =>
                        h \in Proved(s, s.proofs, scope)}

CleanBlocked(s, scope, destroy) ==
  LET proved == Proved(s, s.proofs, scope)
  IN \/ ~Quiescent
     \/ ~ReferenceRecords(s)
     \/ /\ destroy /\ s.lineage = {}
        /\ \E x \in s.snaps : x[1] \in scope /\ Complete(s, x[1], x[2])
     \/ \E p \in s.proofs : ~CheckTarget(s, p.target)
     \/ \E h \in proved \cap s.holds : ~Ownership(s, h[1], h[2])
     \/ \E x \in s.holds \cup s.marks : x[1] \in scope /\ x \notin proved

CleanPlan(s, scope, destroy) ==
  LET proved == Proved(s, s.proofs, scope)
      destroyed == IF destroy THEN Destroyable(s, scope) ELSE {}
      removed == [marks |-> s.marks \cap proved, holds |-> s.holds \cap proved,
                  snaps |-> destroyed,
                  meta |-> {m \in s.meta : m[1] \in scope /\ <<m[1], m[2]>> \notin destroyed}]
  IN [k \in Kinds |-> IF k \in DOMAIN removed THEN removed[k] ELSE s[k]]

\* Retirement keeps public policy and the metadata of what it does not destroy.
RetirementPlan(s) ==
  [CleanPlan(s, Datasets, TRUE) EXCEPT !.meta = {}, !.enabled = {}, !.local = {}]

RetirementBlocked(s) ==
  \/ CleanBlocked(s, Datasets, TRUE)
  \/ s.enabled = {"on"} \/ s.inactive = {} \/ ~RootAuthority(s)
  \/ \E x \in s.snaps : Ownership(s, x[1], x[2]) /\ x \notin Destroyable(s, Datasets)

OfTarget(s, t) == {p \in s.proofs : p.target = t}

ForgetPlan(s, t) ==
  LET proved == Proved(s, OfTarget(s, t), Datasets)
  IN [Empty EXCEPT !.marks = s.marks \cap proved, !.holds = s.holds \cap proved,
                   !.proofs = OfTarget(s, t),
                   !.targets = {x \in s.targets : x.target = t}]

\* A forget that verifies its target, as a clean does.
ForgetVerified(s, t) ==
  ~Quiescent \/ s.lineage = {} \/ ~ReferenceRecords(s) \/ ~CheckTarget(s, t)

ForgetBlocked(s, t) ==
  LET proved == Proved(s, OfTarget(s, t), Datasets)
  IN \/ ~Quiescent \/ s.lineage = {} \/ ~ReferenceRecords(s)
     \/ \E h \in proved \cap s.holds : ~Ownership(s, h[1], h[2])
     \/ \E x \in s.holds \cup s.marks : x[3] = t /\ x \notin proved
     \/ ForgetPlan(s, t) = Empty

MigratePlan(s) ==
  [Empty EXCEPT !.proofs = {p \in s.proofs : p.format = 1},
                !.targets = {x \in s.targets : x.format = 1}]

\* An unmanaged dataset has no format, and is never given one.
MigratePending(s) ==
  /\ StateVersion(s) < CurrentVersion
  /\ s.owner # {} \/ KeepsRecords(s)
  /\ s.proofs # {} => s.lineage # {}

-----------------------------------------------------------------------------
(* Disturbances and the world outside. *)

Spend(what) == left[what] > 0 /\ left' = [left EXCEPT ![what] = @ - 1]

\* `zfs set org.boomerangz:enabled`, by the user.
Enable ==
  /\ src.enabled # {"on"} /\ Spend("enables")
  /\ src' = [src EXCEPT !.enabled = {"on"}]
  /\ UNCHANGED <<env, replica, seeded, ready, partial, up, gate, sending, cmd, stray>>

Disable ==
  /\ src.enabled = {"on"}
  /\ src' = [src EXCEPT !.enabled = {"off"}]
  /\ UNCHANGED <<env, left, replica, seeded, ready, partial, up, gate, sending, cmd, stray>>

Outage(t) ==
  /\ t \in ready /\ Spend("outages")
  /\ ready' = ready \ {t}
  /\ UNCHANGED <<env, src, replica, seeded, partial, up, gate, sending, cmd, stray>>

Return(t) ==
  /\ t \notin ready \cup env.gone
  /\ ready' = ready \cup {t}
  /\ UNCHANGED <<env, left, src, replica, seeded, partial, up, gate, sending, cmd, stray>>

\* A transfer stopped while it receives may leave a receive to be resumed.
StopTransfer ==
  /\ sending' = NotSending
  /\ \/ UNCHANGED partial
     \/ sending.step = "receive" /\ partial' = partial \cup {sending.target}

\* The daemon ends, and with it whatever it was doing.
Crash ==
  /\ up /\ Spend("crashes")
  /\ up' = FALSE /\ gate' = FALSE /\ StopTransfer /\ cmd' = Idle
  /\ UNCHANGED <<env, src, replica, seeded, ready, stray>>

\* It starts again once no standalone command holds the lifecycle lock.
Start ==
  /\ ~up /\ cmd = Idle /\ Spend("starts")
  /\ up' = TRUE
  /\ UNCHANGED <<env, src, replica, seeded, ready, partial, gate, sending, cmd, stray>>

\* A command is killed, or one of its ZFS commands fails, between two writes.
Interrupt ==
  /\ cmd # Idle /\ Spend("interrupts")
  /\ cmd' = Idle
  /\ UNCHANGED <<env, src, replica, seeded, ready, partial, up, gate, sending, stray>>

-----------------------------------------------------------------------------
(* The daemon's own work on the root. *)

\* A published generation admits or stops the root's work.
Discover ==
  /\ up /\ gate # (src.enabled = {"on"})
  /\ gate' = ~gate
  /\ UNCHANGED <<env, left, src, replica, seeded, ready, partial, up, sending, cmd, stray>>

\* The transfer is inside an operation of the daemon's lifecycle service, which
\* holds the service's lock of the root.  Retirement and the inactive marker go
\* through that service; a clean is a service of its own.
Locked == sending.step \in {"record", "hold", "mark"}

\* The inactive marker follows the activation the daemon has seen, once the
\* scope is idle; the job holds the root's lock.
ReconcileInactive ==
  /\ up /\ cmd = Idle /\ RootAuthority(src) /\ ~Locked
  /\ \/ /\ ~gate /\ sending = NotSending /\ src.inactive = {}
        /\ src' = [src EXCEPT !.inactive = {"since"}]
     \/ /\ gate /\ src.inactive # {}
        /\ src' = [src EXCEPT !.inactive = {}]
  /\ UNCHANGED <<env, left, replica, seeded, ready, partial, up, gate, sending, cmd, stray>>

Endpoint(t) == [target |-> t, stream |-> Root, instant |-> 2,
                recursive |-> env.recursive, format |-> CurrentVersion]
Carried(p) == {<<d, p.instant>> : d \in IF p.recursive THEN Datasets ELSE {p.stream}}
Tagged(p) == {<<x[1], x[2], p.target>> : x \in Carried(p)}

\* A transfer of the newest instant.  It needs the target's lock and not the
\* root's, so it runs beside a clean once the root is enabled again.
BeginTransfer(t) ==
  /\ up /\ gate /\ sending = NotSending /\ Spend("transfers")
  /\ RootAuthority(src) /\ Configured(src, t) /\ t \in ready
  /\ sending' = [target |-> t, step |-> IF BindingOf(t) \in src.targets THEN "protect" ELSE "bind"]
  /\ UNCHANGED <<env, src, replica, seeded, ready, partial, up, gate, cmd, stray>>

SendStep(from, to) ==
  /\ sending.step = from /\ sending' = [sending EXCEPT !.step = to]
  /\ UNCHANGED <<env, left, replica, seeded, ready, partial, up, gate, cmd>>

\* An operation reads the root under the service's lock, and again before its
\* first write; the writes then follow unchecked.
ReadRoot == RootAuthority(src) /\ ReferenceRecords(src) /\ cmd.op # "retire"

Accounted(s, x) == s.lineage # {} /\ \E p \in s.proofs : x \in Tagged(p)

\* The binding was found missing when the transfer was planned.
StoreBinding ==
  LET binding == BindingOf(sending.target)
  IN /\ SendStep("bind", "protect")
     /\ src' = [src EXCEPT !.targets = @ \cup {binding}]
     /\ stray' = IF RootAuthority(src) THEN stray ELSE [stray EXCEPT !.targets = @ \cup {binding}]

ProtectSet ==
  LET p == Endpoint(sending.target)
  IN /\ SendStep("protect", CASE p \notin src.proofs -> "record"
                              [] p \in src.proofs /\ ~(Tagged(p) \subseteq src.holds) -> "hold"
                              [] OTHER -> "receive")
     /\ ReadRoot
     /\ \A x \in Carried(p) : Ownership(src, x[1], x[2])
     /\ p \notin src.proofs => Tagged(p) \cap src.holds = {}
     /\ UNCHANGED <<src, stray>>

ProtectRecord ==
  LET p == Endpoint(sending.target)
  IN /\ SendStep("record", "hold")
     /\ src' = [src EXCEPT !.proofs = @ \cup {p}]
     /\ stray' = IF RootAuthority(src) THEN stray ELSE [stray EXCEPT !.proofs = @ \cup {p}]

\* ZFS holds and bookmarks snapshots that exist.
Place(kind, p) ==
  /\ Carried(p) \subseteq src.snaps
  /\ src' = [src EXCEPT ![kind] = @ \cup Tagged(p)]
  /\ stray' = [stray EXCEPT ![kind] = @ \cup {x \in Tagged(p) \ src[kind] : ~Accounted(src, x)}]

ProtectHold == SendStep("hold", "receive") /\ Place("holds", Endpoint(sending.target))

\* A replica that exists is only continued from a snapshot it still has, or
\* where its receive stopped.
Receive ==
  LET t == sending.target
  IN /\ sending.step = "receive" /\ t \in ready
     /\ t \in seeded => replica[t] # {} \/ t \in partial
     /\ replica' = [replica EXCEPT ![t] = @ \cup Carried(Endpoint(t))]
     /\ seeded' = seeded \cup {t}
     /\ partial' = partial \ {t}
     /\ sending' = [sending EXCEPT !.step = "checkpoint"]
     /\ UNCHANGED <<env, left, src, ready, up, gate, cmd, stray>>

CheckpointSet ==
  LET p == Endpoint(sending.target)
      missing == Tagged(p) \ src.marks
  IN /\ SendStep("checkpoint", IF missing = {} THEN "release" ELSE "mark")
     /\ ReadRoot /\ p \in src.proofs
     /\ missing \subseteq src.holds /\ \A x \in missing : Ownership(src, x[1], x[2])
     /\ UNCHANGED <<src, stray>>

Bookmark == SendStep("mark", "release") /\ Place("marks", Endpoint(sending.target))

ReleaseHold ==
  LET p == Endpoint(sending.target)
  IN /\ sending.step = "release" /\ ReadRoot /\ p \in src.proofs
     /\ sending' = NotSending
     /\ src' = [src EXCEPT !.holds = @ \ Tagged(p)]
     /\ UNCHANGED <<env, left, replica, seeded, ready, partial, up, gate, cmd, stray>>

\* It is cancelled with the gate, or fails.
EndTransfer ==
  /\ sending # NotSending /\ StopTransfer
  /\ UNCHANGED <<env, left, src, replica, seeded, ready, up, gate, cmd, stray>>

-----------------------------------------------------------------------------
(* Applying a plan. *)

NextKind(todo) ==
  Stages[CHOOSE n \in 1..Len(Stages) :
           todo[Stages[n]] # {} /\ \A m \in 1..(n - 1) : todo[Stages[m]] = {}]

\* A destroyed snapshot takes its metadata along.
Without(s, k, x) ==
  IF k = "snaps" THEN [s EXCEPT !.snaps = @ \ {x}, !.meta = {m \in @ : <<m[1], m[2]>> # x}]
  ELSE [s EXCEPT ![k] = @ \ {x}]

\* ZFS does not destroy a held snapshot.
Refused(k, x) == k = "snaps" /\ \E h \in src.holds : <<h[1], h[2]>> = x

\* What an inspection of the scope returns.
InspectState(s, scope) ==
  [k \in Kinds |-> IF k \in {"marks", "holds", "snaps", "meta"}
                   THEN {x \in s[k] : x[1] \in scope} ELSE s[k]]

\* `targets` are those a retirement began by visiting.
Applying(op, scope, todo, targets) ==
  [op |-> op, scope |-> scope, todo |-> todo, checked |-> FALSE,
   base |-> InspectState(src, scope), targets |-> targets]

\* Before each write the whole scope must be as the plan left it: what the
\* last write should have made of it, and nothing else.
Unchanged ==
  /\ cmd.op \in Plans /\ cmd.todo # Empty /\ ~cmd.checked
  /\ cmd' = IF InspectState(src, cmd.scope) = cmd.base THEN [cmd EXCEPT !.checked = TRUE] ELSE Idle
  /\ UNCHANGED <<env, left, src, replica, seeded, ready, partial, up, gate, sending, stray>>

\* The holds and bookmarks that the plan's last look did not show: outside its
\* scope, or placed since.
Unseen(kind) == IF kind \in {"holds", "marks"} THEN src[kind] \ cmd.base[kind] ELSE {}

ApplyAction ==
  /\ cmd.op \in Plans /\ cmd.todo # Empty /\ cmd.checked
  /\ LET k == NextKind(cmd.todo)
     IN \E x \in cmd.todo[k] :
          IF Refused(k, x)
          THEN src' = src /\ cmd' = Idle /\ UNCHANGED stray
          ELSE /\ src' = Without(src, k, x)
               /\ stray' = [kind \in Kinds |-> stray[kind] \cup {y \in Unseen(kind) : ~Accounted(src', y)}]
               /\ cmd' = [cmd EXCEPT !.todo[k] = @ \ {x}, !.base = Without(@, k, x),
                                     !.checked = FALSE]
  /\ UNCHANGED <<env, left, replica, seeded, ready, partial, up, gate, sending>>

EndApply ==
  /\ cmd.op \in Plans /\ cmd.todo = Empty
  /\ cmd' = Idle
  /\ UNCHANGED <<env, left, src, replica, seeded, ready, partial, up, gate, sending, stray>>

Begin(command) ==
  /\ cmd' = command
  /\ UNCHANGED <<env, left, src, replica, seeded, ready, partial, up, gate, sending, stray>>

Clean(scope) ==
  /\ env.goal = "clean" /\ cmd = Idle
  /\ ~CleanBlocked(src, scope, env.destroy)
  /\ CleanPlan(src, scope, env.destroy) # Empty
  /\ Begin(Applying("clean", scope, CleanPlan(src, scope, env.destroy), {}))

\* The operator forgets a target that a clean cannot check.
Forget(t) ==
  /\ env.goal = "clean" /\ cmd = Idle
  /\ ~CheckTarget(src, t) /\ ~ForgetBlocked(src, t)
  /\ Begin(Applying("forget", Datasets, ForgetPlan(src, t), {}))

-----------------------------------------------------------------------------
(* Retirement: a preview, the targets of every proof, then the source. *)

Retire ==
  /\ env.goal = "retire" /\ up /\ cmd = Idle /\ ~Locked /\ ~RetirementBlocked(src)
  /\ LET targets == {p.target : p \in src.proofs}
     IN Begin([op |-> "retiring", next |-> targets, targets |-> targets])

\* The targets are opened and verified one at a time, and what each holds is
\* listed before any of it is destroyed.
OpenTarget(t) ==
  /\ cmd.op = "retiring" /\ t \in cmd.next /\ CheckTarget(src, t)
  /\ Begin([op |-> "target", next |-> cmd.next \ {t}, targets |-> cmd.targets,
            at |-> t, owned |-> replica[t]])

DestroyReplica ==
  /\ cmd.op = "target" /\ cmd.owned # {} /\ cmd.at \in ready
  /\ \E x \in cmd.owned :
       /\ replica' = [replica EXCEPT ![cmd.at] = @ \ {x}]
       /\ cmd' = [cmd EXCEPT !.owned = @ \ {x}]
  /\ UNCHANGED <<env, left, src, seeded, ready, partial, up, gate, sending, stray>>

TargetRetired ==
  /\ cmd.op = "target" /\ cmd.owned = {} /\ cmd.at \in ready /\ replica[cmd.at] = {}
  /\ Begin([op |-> "retiring", next |-> cmd.next, targets |-> cmd.targets])

\* The source first, while targets are still to be visited.
RetireSourceFirst ==
  /\ cmd.op = "retiring" /\ ~RetirementBlocked(src)
  /\ Begin(Applying("retire", Datasets, RetirementPlan(src), cmd.targets))

RetireSource ==
  /\ cmd.op = "retiring" /\ cmd.next = {} /\ ~Locked /\ ~RetirementBlocked(src)
  /\ Begin(Applying("retire", Datasets, RetirementPlan(src), cmd.targets))

\* A target that stops answering, an owned replica that appeared, a root
\* enabled again: the job ends and is retried.
RetirementFails ==
  /\ \/ cmd.op = "retiring" /\ \E t \in cmd.next : ~CheckTarget(src, t)
     \/ cmd.op = "retiring" /\ cmd.next = {} /\ ~Locked /\ RetirementBlocked(src)
     \/ cmd.op = "target" /\ cmd.at \notin ready
     \/ cmd.op = "target" /\ cmd.owned = {} /\ replica[cmd.at] # {}
  /\ Begin(Idle)

-----------------------------------------------------------------------------
(* Migration and adoption: standalone, with the daemon stopped. *)

\* The lifecycle lock is free, and no daemon answers on its socket.
Standalone == ~up /\ cmd = Idle

Migrate ==
  /\ Standalone /\ MigratePending(src)
  /\ Begin([op |-> "migrate", todo |-> MigratePlan(src)])

Rewritten(x) == [x EXCEPT !.format = CurrentVersion]

MigrateRecord ==
  /\ cmd.op = "migrate"
  /\ \E k \in {"proofs", "targets"} : \E x \in cmd.todo[k] :
       /\ src' = [src EXCEPT ![k] = (@ \ {x}) \cup {Rewritten(x)}]
       /\ cmd' = [cmd EXCEPT !.todo[k] = @ \ {x}]
  /\ UNCHANGED <<env, left, replica, seeded, ready, partial, up, gate, sending, stray>>

\* A marker written with records still to be rewritten.
MigrateMarkerFirst ==
  /\ cmd.op = "migrate" /\ src.version = {}
  /\ src' = [src EXCEPT !.version = {CurrentVersion}]
  /\ UNCHANGED <<env, left, replica, seeded, ready, partial, up, gate, sending, cmd, stray>>

\* The version marker is written last.
MigrateMarker ==
  /\ cmd.op = "migrate" /\ cmd.todo = Empty
  /\ src' = [src EXCEPT !.version = {CurrentVersion}]
  /\ cmd' = Idle
  /\ UNCHANGED <<env, left, replica, seeded, ready, partial, up, gate, sending, stray>>

\* Adoption restores the authority of an enabled root, and marks its state as
\* the current format unless it keeps records of an older one.
Adopt ==
  /\ Standalone /\ src.enabled = {"on"} /\ ~RootAuthority(src)
  /\ Spend("adoptions")
  /\ src.lineage # {} \/ \E i \in Instants : <<Root, i>> \in src.snaps /\ Complete(src, Root, i)
  /\ StateVersion(src) < CurrentVersion => ~KeepsRecords(src)
  /\ \A i \in Instants : \A k \in {"lineage", "snapshot"} :
       <<Root, i, k>> \in src.meta => Complete(src, Root, i)
  /\ src' = [src EXCEPT !.lineage = {"uuid"}, !.owner = {"here"}, !.version = {CurrentVersion}]
  /\ UNCHANGED <<env, replica, seeded, ready, partial, up, gate, sending, cmd, stray>>

-----------------------------------------------------------------------------
(* A managed root, at any stage of its transfers to each target. *)

Streams == IF env.recursive THEN {Root} ELSE Datasets

\* A transfer of the newest instant to the targets in env.begun stopped between
\* its proof and its hold.  A protection is recorded and held, perhaps bound;
\* then sent and bookmarked; then, with the hold released, checkpointed.
Recorded == {t \in Targets : env.stage[t] # "fresh"}
Bound == Recorded \ {t \in Targets : env.stage[t] = "recorded"}
Received == {t \in Targets : env.stage[t] \in {"sent", "checkpointed"}}
Held == Recorded \ {t \in Targets : env.stage[t] = "checkpointed"}

InitialState ==
  [marks |-> Datasets \X {1} \X Received, holds |-> Datasets \X {1} \X Held,
   snaps |-> Datasets \X Instants,
   meta |-> Datasets \X Instants \X {"lineage", "snapshot"},
   enabled |-> {env.enabled}, local |-> {"set"}, inactive |-> {},
   owner |-> {"here"}, lineage |-> {"uuid"},
   proofs |-> [target : Recorded, stream : Streams, instant : {1},
               recursive : {env.recursive}, format : {env.format}]
              \cup {Endpoint(t) : t \in env.begun},
   targets |-> [target : Bound, kind : {"binding"}, format : {env.format}],
   version |-> IF env.format = 1 THEN {} ELSE {CurrentVersion}]

Init ==
  /\ env \in Environments
  /\ left = env.bounds
  /\ src = InitialState
  /\ replica = [t \in Targets |-> IF t \in Received THEN Datasets \X {1} ELSE {}]
  /\ seeded = Received
  /\ ready = Targets \ env.gone
  /\ partial = {} /\ stray = Empty
  /\ up = env.up
  /\ gate = (env.up /\ env.enabled = "on")
  /\ sending = NotSending
  /\ cmd = Idle

Transfer ==
  \/ \E t \in Targets : BeginTransfer(t)
  \/ StoreBinding \/ ProtectSet \/ ProtectRecord \/ ProtectHold \/ Receive
  \/ CheckpointSet \/ Bookmark \/ ReleaseHold \/ EndTransfer

Command ==
  \/ \E scope \in env.scopes : Clean(scope)
  \/ \E t \in Targets : Forget(t) \/ OpenTarget(t)
  \/ Unchanged \/ ApplyAction \/ EndApply
  \/ Retire \/ DestroyReplica \/ TargetRetired \/ RetireSource \/ RetirementFails
  \/ Migrate \/ MigrateRecord \/ MigrateMarker

Disturbance ==
  Enable \/ Crash \/ Interrupt \/ Adopt \/ \E t \in Targets : Outage(t)

Next ==
  \/ Disturbance \/ Transfer \/ Command
  \/ Disable \/ Start \/ Discover \/ ReconcileInactive
  \/ \E t \in Targets : Return(t)

\* The operator keeps the root disabled and repeats their command until it
\* has nothing left to do; the daemon rescans, retries and is restarted.
Fairness ==
  /\ WF_vars(Disable) /\ WF_vars(Start) /\ WF_vars(Discover)
  /\ WF_vars(ReconcileInactive) /\ WF_vars(EndTransfer)
  /\ \A t \in Targets : WF_vars(Return(t))
  /\ WF_vars(Command)

Spec == Init /\ [][Next]_vars /\ Fairness

-----------------------------------------------------------------------------
(* Properties. *)

\* Every hold and bookmark of the subtree is accounted for by a proof on a root
\* that still knows its lineage, whatever was interrupted where: without the
\* proof nothing would ever remove it (clean.go:218-229).  The exceptions are
\* those a clean could not see when it removed what accounts for them, being
\* outside its scope or placed since its last look, and those a transfer placed
\* after the clean it raced.
Proven ==
  \A k \in {"holds", "marks"} : \A x \in src[k] : Accounted(src, x) \/ x \in stray[k]

\* Proven without its exceptions.
AllProven == \A x \in src.holds \cup src.marks : Accounted(src, x)

\* A root marked as the current format keeps no record of an older one, since
\* every reader takes the marker's word for it (version.go:64-82).
MarkerVouches ==
  src.version # {} =>
    \A x \in src.proofs \cup src.targets : x.format = CurrentVersion

\* Retirement gives up the source's proof of a target only after the replica
\* has none of the root's snapshots left (retirement.go:98-184): of every
\* target it began with, that is.  One first sent to while it ran, by a root
\* enabled and disabled again meanwhile, is not visited.
ReplicaFirst ==
  [][\A p \in src.proofs :
       /\ cmd.op = "retire" /\ p.target \in cmd.targets
       /\ p \notin src'.proofs
       => replica[p.target] = {}]_vars

\* Nothing is left in the scopes the operator cleans but snapshots nobody asked
\* to destroy.
Cleaned == \A k \in Kinds \ {"snaps"} : InspectState(src, UNION env.scopes)[k] = {}
Retired == RetirementPlan(src) = Empty

\* Something is left that nothing accounts for, see Proven; or a clean raced a
\* transfer of a root enabled again under it, and a snapshot was held between
\* the clean's last look and the removal of its metadata.
Torn ==
  \/ \E k \in Kinds : src[k] \cap stray[k] # {}
  \/ \E h \in src.holds : ~Ownership(src, h[1], h[2])

\* Retirement waits for a target that cannot be verified or has a receive to
\* be resumed, and gives up a root whose owner it had already removed.
Unverifiable ==
  \E p \in src.proofs : p.target \notin seeded \ partial \/ BindingOf(p.target) \notin src.targets
Stranded == src.owner = {}

\* However often it is interrupted, an operator who repeats the command and
\* forgets what cannot be verified ends with nothing left on the dataset, and
\* a retirement that keeps its owner completes (clean.go:330, runtime.go:701).
Decommissions ==
  /\ env.goal = "clean" => <>[]Cleaned \/ <>[]Torn
  /\ env.goal = "retire" => <>[]Retired \/ <>[]Stranded \/ <>[]Unverifiable

=============================================================================
