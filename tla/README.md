# Verification of boomerangz

boomerangz takes ZFS snapshots on per-dataset cadences, prunes them by a
retention grid and replicates them to local and remote targets. Everything it
must remember across a restart it stores in ZFS: user properties, holds and
bookmarks. This directory models the parts where that is hard to get right, with
TLC runs on small instances and TLAPS proofs for every instance.

## The system

| Part | State | Operations | Module |
| --- | --- | --- | --- |
| Recovery references (`internal/lifecycle/reference.go`, `inspection.go`) | per target: a proof property per stream and instant, a hold and a cursor bookmark per snapshot | ProtectSet, CheckpointSet, ReleaseCompletedHold, ReleaseReference | `References` |
| Lifecycle service (`service.go`, `prune.go`, `ownership.go`) | owned snapshots; the hierarchy lock of each root | CreateSnapshot, Prune, adoption | `References`, `Replica` |
| Gate (`gate.go`) | enabled scopes, queued and running tickets | SetEnabled, Queue, Start, Finish, the quiescence waits | `Jobs`, `Scheduler` |
| Scheduler (`internal/daemon/scheduler.go`) | per root: pending flag, a deadline per member | Update, Next, Complete, Retry, Lookup | `Scheduler` |
| Runtime (`runtime.go`) | active roots, dirty flags, timers | applyGeneration, snapshot, prune, transfer and inactive jobs, Trigger, Clean, reload | `Scheduler`, `Jobs`, `Transfer`, `Discovery` |
| Pools and queue (`pool.go`, `queue.go`) | queued and running jobs by ID, key and scope locks | Submit, Pop, RemoveScope, DiscardPending, Resize, Close | `Pool`, `JobTable` |
| Transfer planning and engine (`internal/transfer/plan.go`, `resume.go`, `local.go`) | the plan and reference of the stream under way | Build, BuildResume, Apply, applyOnce | `Transfer`, `Replica` |
| Pending work (`recovery.go`) | pending and reserved endpoint per stream and target; backoff | Coalesce, BeginStreams, FinishStreams, Reconcile | `Transfer`, `Jobs` |
| Bindings and reseed (`binding.go`, `reseed.go`) | target binding properties, suspension | inspection, promotion, reseed, abort | `Replica` |
| Clean, forget, retirement, migration (`clean.go`, `forget.go`, `retirement.go`, `internal/migrate`) | all of the stored state | planned removal or rewriting, one ZFS command at a time | `Decommission` |
| Discovery and policy (`internal/discovery`, `internal/policy/resolve.go`) | the current generation, retained names, destinations | Scan, Reconfigure, SetDestinations | `Discovery` |
| Status (`status.go`) | job rows and views, subscriptions, the log | producers, the owner, forwarders, the log's writer | `Status` |
| Control plane, transports, configuration, command line, rendering | | see PROJECT.json | |

How they interact: the scanner publishes a generation, which opens the gate and
updates the scheduler. The scheduler's loop fires a due root, and a management
worker creates the snapshot, protects it for each target, makes it that
stream's pending work and releases what it superseded. A transfer worker reserves
the pending endpoints and runs the engine, which plans from what ZFS holds at both
ends, protects, sends, verifies, checkpoints, and retires older proofs. Management
and transfer jobs take different locks (the root's and the target's), so they
interleave; only the lifecycle service's own lock keeps their writes apart. A root
that is turned off is marked, and retired after a grace period; an operator may
also clean, forget, reseed, adopt or migrate it, some of these only while the
daemon is stopped.

What is hard: a crash, a failed command or a cancelled context between any two
ZFS commands; jobs of one root that overlap; plans, lists and flags read before an
unlock and used after it; resume tokens that outlive the process; a root whose
pending flag nobody clears; a delayed retry that is dropped for an earlier one.
PROJECT.json lists each hazard at its line.

## Modules

| Module | Models | Runs | Proofs |
| --- | --- | --- | --- |
| `References` | the lifecycle service's operations on one root and one target | `MCReferences` | `TransferProofs` |
| `Transfer` | extends `References` with the snapshot, prune and transfer jobs, the engine and the destination | `MCTransfer` | `TransferProofs` |
| `Scheduler` | the scheduler with the scanner, the loop, the snapshot jobs and Trigger | `MCScheduler` | `SchedulerProofs` |
| `JobTable` | what the pools promise of a job: accepted, run once or dropped, forgotten | through `Pool` and `Jobs` | |
| `Pool` | queues, workers, key and scope locks, Clean, Resize, shutdown; implements `JobTable` | `MCPool` | |
| `Jobs` | one root's jobs, gate, timers, dirty flag, inactive marker, over `JobTable` | `MCJobs` | |
| `Replica` | one target's datasets, placeholders and binding, with reseed, abort and adopt | `MCReplica` | |
| `Decommission` | clean, forget, retirement and migration of a root's stored state | `MCDecommission` | |
| `Discovery` | scans, policy resolution, generations, remotes | `MCDiscovery` | |
| `Status` | the status owner, a watch and the log | `MCStatus` | |

From `Pool` on, a behaviour chooses its environment in its initial state: a
record of what may happen in it and how often (`Environments`). The MC module
lists the environments, each with one or two kinds of disturbance, so that an
instance covers many kinds without their product.

### References

An instant stands for a snapshot's stamp, creation TXG and GUID, which grow
together. `snapshots`, `holds` and `bookmarks` are sets of dataset and instant,
`proofs` the stored reference properties. Each operation holds the root's
hierarchy lock from its first read to its last write, so at most one is under way:
`op` is its kind, the proof it is about and the snapshots it still has to write.
Each call (`ProtectSet`, `CheckpointSet`, `ReleaseCompletedHold`,
`ReleaseReference`, `Prune`) checks what the code checks and starts; each ZFS
command (`WriteProof`, `Hold`, `Bookmark`, `ReleaseHold`, `DestroyBookmark`,
`ReleaseSourceHold`, `InheritProof`, `DestroySnapshot`) is a step; `Return` ends an
operation that is complete and `Abort` one that is not. `CreateSnapshot` is one
atomic ZFS command. Which snapshots the retention grid gives up is left open,
except that it always keeps the newest and whatever is held.

Abstracted: names and property encodings; foreign snapshots; other targets, whose
references only make Prune destroy less; clones. Releases of sibling datasets are
not ordered, while the code goes by name.

### Transfer

Process `daemon` is the root's management work (a snapshot job, then per created
stream protect, coalesce and release what was superseded; or a prune). Process
`engine` is the target's work (a transfer job, or a destination prune). `jobs` and
`active` are PendingSet's two maps. `engine.pc` follows applyOnce: `plan`,
`endpoint`, `base`, `recheck`, `send`, `verify`, `checkpoint`, `complete`, `retire`.
A lifecycle call leaves `pc` where it is and sets `owner`; the call's writes
interleave with the other process, and `EngineReturn` or `DaemonReturn` goes on.

`Faults` enables what may go wrong: `"interrupt"` (a send stops part way, with or
without a resume token), `"error"` (a lifecycle command fails), `"crash"` (the
daemon dies at any step, taking `jobs` and `active` with it). Snapshot and prune
jobs overlap a transfer freely. `Incremental` is the set of values the target's
incremental policy may have; each transfer job runs with one of them, as a property
may change between generations. `Replicated` starts from what a send -R of instant 1
leaves, just after replicate was turned off.

`unbacked` is a history variable that no guard reads: the snapshots that arrived
without a hold (the intermediates of a send -I, or what a superseded release left
unheld in flight) or whose reference a snapshot job released as superseded, until
the engine protects them. `BaseSurvives` speaks of all others.

A lifecycle call that fails because the state changed under it has written nothing
and is repeated up to five times (`replan`): such a repetition is a stutter here.
Before it sends, a resume compares everything it loaded with a second read, and any
other stream its place and its history.

Not modelled here: target bindings, placeholders and receive parents (see
`Replica`); the engine's recursive streams; reconciliation of received properties; the transport; ZFS
refusing to destroy a snapshot that is being sent.

### Scheduler

Time is relative: `wait[m]` is the time to a member's deadline, `age[m]` the age of
its newest owned snapshot. Both saturate where the code stops telling values
apart, so the runs need no bound on time. Update is split where it gives up the
lock: `ReadEntry` (locked), `MergeEntry` (unlocked, reading a shared map),
`InstallEntries` (locked). Next is split the same way into `Fire` and `HandOut`.
Firings, jobs, triggers and time go on between any two of these. `revived` is a
history variable: the pending roots whose flag Update set again, from its copy, after
a Complete or Retry had cleared it.

Not modelled: cadence changes between generations; replicate=on, which schedules
like a root with one member; shutdown. A Trigger is one step, and the rest of a
snapshot job after Complete belongs to `Transfer`.

### JobTable and Pool

`JobTable` is the abstract specification: a job's `phase` goes from idle to queued
to running to leaving and back, may be dropped while queued, and a job does not
begin while one it conflicts with runs. `Pool` has what is really there. `Submit`
enters the ID in `known` before it offers the job; `Pop` serves the first group and
moves it last; a worker joins the waiters of its lock key, is blocked by holders and
earlier waiters with an overlapping scope, sleeps on the `changed` channel and tries
again; a running job may wait for the end of others (`Awaits`: the quiescence wait
of a reconciliation). `RemoveScope` and `Discard` take jobs out, and `DropJob`
forgets each in a step of its own. `Clean` takes the keys of several roots in
sorted order; `Grow` and `Shrink` are Resize; `Shutdown` discards, cancels, closes
and waits. The PROPERTY `Implements` is `JobTable`'s specification under the mapping
`Phase`.

### Jobs

The runtime around one root with one target. `scan` is applyGeneration in its
steps, with the gate opened before and closed after the schedule; `at` is the step
of each caller between its check, Queue and Submit; `run` the step of a running job;
`tick` the tickets; `timers`, `delayed`, `issued` and `passed` the delayed work.
`since` is the inactive marker; `notBefore` the Roadwarrior coordinator's backoff;
`old` the tickets of a coordinator a reload has replaced. `calm`, `missed` and
`kept` are history variables.

A deadline may pass, and a scan begin, at any moment, also between the end of a
job's Run and the pool forgetting its ID. A submission may be turned away by a full or
closed queue (`TurnAway`), the target of a transfer may turn out not to be ready
(`Unprepared`), and a reconciliation may fail for good (`MarkerFails`). The code logs
these at most and repeats none of them, so the last call of a job that ended so is in
`missed`, until a later call of that job is accepted.

### Replica

`dest` is what exists beneath the configured root: a replica with its snapshot, a
placeholder for a dataset nothing is sent for, or one that was set aside. A
transfer follows Build and applyOnce for the streams in order: bind, receive
parents, set a placeholder aside, receive, move its children back, destroy it,
promote the binding. Receive parents are prepared before the stream, and both ends
are read a second time once the binding and the proof are written (`Recheck`): a
resume goes on only if nothing changed, another stream only if its place did not, and
one whose history moved plans again. Reseed, abort and adopt run while the daemon is
stopped; a reseed applies the plan it captured. A process dies between any two steps.

Something else may be put where the target is at any moment, also under a running
transfer (`replaced`). What is replaced after the second read cannot be seen by the
code: `moved` says that it happened to the stream under way, and `misled` that the
binding was promoted to the newcomer. Snapshots are taken of the whole tree at once, and an existing replica always
shares one with its source, since bases are `Transfer`'s subject.

### Decommission

`src` maps each kind of stored thing to the set of those the root has; a plan is
the part still to be removed, in the order `Stages`. A clean verifies targets,
waits for quiescence, plans, plans again and applies; retirement destroys replicas
target by target before the source's proofs; migration rewrites every record and
then writes the marker. Each ZFS command is a step, and each may be the last.
The daemon's transfers run beside its own clean and retirement, and a root may be
enabled meanwhile. A transfer's operations read and check the root in one step
(`ProtectSet`, `CheckpointSet`) and write in later ones (`ProtectRecord`,
`ProtectHold`, `Bookmark`). The daemon's own lifecycle service serialises them with
its retirement (`Locked`); a clean has a service of its own and may come between any
two. `stray` is a history variable: what a transfer placed, or a clean left, with
nothing on the root to account for it, because the one could not see the other or
because it lay outside the scope the clean was given. Cleaning a member by itself is
not modelled.

### Discovery

A scan is inventory, activation, lifecycle properties, then a batch at a time of
detailed properties, with edits, creations and destructions between any two; it
fails where the code does. `Generation` is the pure part: resolution of policy,
roots, covered members, planned replicas, collisions and markers. A reload
(`PrepareConfig`, `Reload`) and a transfer that finds that its remote is on this host
(`LearnHostLocal`, `SetDestinations`) change the scanner's configuration. commitConfig
is split at its critical sections, and learning where it unlocks, and they interleave
freely; the history variable `crossed` says that a learning crossed a reload or
another learning, until a later reload changes the remotes undisturbed.

Abstracted: the ticker (a scan may always begin); grid and other values, which are
valid or not; `zfs get` argument sizes (`BatchSize` alone bounds a batch); marks of
replication roots. Publishing a generation and applying it is one step. `Establish`
stands for a transfer that the generation allows and that stores its binding.

### Status

Producers post to the owner's bounded input; the owner (`Handle`, `Apply`,
`Register`, `ApplyProgress`, `RetryLog`) numbers transitions, conflates states into
a channel of one, offers transitions to a bounded channel and ends a watch that is
full. The watch's forwarder collects both and sends an update when the consumer
receives and its throttle allows, which may be at any time. The log's forwarder
never loses an entry without counting it. One watch or the log is subscribed in a
behaviour. Each send of a fan-out is a step (`fan` is what is still to be offered), so
the forwarder may read between a transition and the state that includes it. Snapshot requests and the views of
deadlines and destinations are left out, being like any other change of state.

## Runs

Passing runs:

| Run | Instance | Shows |
| --- | --- | --- |
| `references` | root and member, 2 instants | `HoldProved`, `BookmarkProved`, `Retryable`, `SourceKept` under every interruption |
| `transfer` | one dataset, 3 instants, latest and all, free overlap, all faults | `BaseSurvives`: no prune, checkpoint, completion or retirement costs the destination's base; `PendingProtected`; `ReservedHeld`, `ReservationEnds`, `ReceiveOrder`; and the refinement `RefSteps` |
| `scheduler` | a root, two members with cadences 2 and 1, everything interleaving with Update, fair | `PendingOwned`, `Spacing`, `Snapshotted` |
| `pool` | a reconciliation and three transfers of two roots with overlapping scopes, two pools, three workers, queues of 2; a Clean, a resize or a shutdown | `CleanAlone`; `Implements`; `RoundRobin`: a group is not passed over; `Served`: no deadlock or starvation; `Drains` |
| `jobs` | one root, local, remote or no target, 12 environments | `CalmHolds`: quiescence lasts; `Attempted`: no snapshot is forgotten; `MarkerFollows` |
| `replica` | a chain of three datasets, 11 environments | `WayOut`: reseed always remains possible; `ReplicasKept`; `ReceivesBound`; `AdoptedGate`; `Converges` |
| `decommission` | a root with a member, a local and a remote target, 12 environments | `Proven`: nothing is left that no command would remove; `MarkerVouches`; `ReplicaFirst`; `Decommissions` |
| `discovery` | 8 names in three pools, two remotes, 7 environments | `Disjoint`; `RemotesCurrent`; `OneInstant`; `Fresh` |
| `status` | two jobs, channels of 3, input of 2 and samples of 1, 5 environments | `Contiguous`, `AsOfTheLast`, `ProgressCurrent`, `LogAccounts`, `Informed` |

Bounds. Two instants are enough for a reference and the one that replaces it;
three for a base, an endpoint in flight or an intermediate, and one after it. Two datasets give a
recursive proof something beneath its stream. Two cadences make one member due and
the other not. Three transfers give a lock a holder, a waiter that it blocks and one
that it does not, and two workers let them meet. A chain of three datasets gives a
placeholder a placeholder beneath it. Two targets give retirement one that is done
and one that is not. A channel of 3 has a first, a middle and a last place, and is full after few steps.
Interruptions happen up to twice, so that the repair of one may be interrupted.
Exhaustive within their bounds; Scheduler's and Pool's runs have no bound but the
constants. Deadlock is not checked where the environment may simply end
(`CHECK_DEADLOCK FALSE`): there the liveness properties say what must still happen.

The references and the jobs of a root with a member are also checked by
`transfer_members.cfg` (MCTransfer, 2 instants, failing commands, the four invariants
of `transfer`), which passes and is kept as a wider instance.

Three runs show a disagreement; PROJECT.json quotes the documents:

- `find_vanished` (`Discovers`): after a dataset the daemon knows was destroyed, every
  scan fails, because the scan must retain it (`discovery.go:368`), and nothing takes
  it off the list but a successful scan or its retirement.
- `find_stuck` (`PendingUntilSettled`): a Complete or Retry between Update's copy of an
  entry (`scheduler.go:160`, `188`) and its installation (`198`) is undone; the root
  stays pending with nobody to settle it, and Next passes it over.
- `find_replicate_off` (`MembersContinue`): after replicate is turned off, the root's
  own stream completes the recursive proof and so gives up the member's hold
  (`local.go:917`); a prune takes the snapshot, and the bookmark left belongs to no
  proof of the member's stream (`plan.go:582`), so the member needs a reseed.

`transfer` and `transfer_members` therefore speak of targets that never had
replicate=on.

### Other disagreements

Further configurations check a property that a document or a comment states and
that the code does not keep. `tlc -config X.cfg M` shows each:

| Configuration | Property | What happens |
| --- | --- | --- |
| `find_inflight` (MCTransfer) | `InFlightHeld` | an unreserved endpoint in flight loses its hold to a superseded release; so does the snapshot of a resume token, whose reservation ended with the interrupted job |
| `find_resume` (MCTransfer) | `NeverGuesses` | a snapshot protected after the interruption is taken for the token's |
| `find_superseded` (MCTransfer) | `MembersContinue` | a proof released between listing and retiring fails a verified stream; its checkpoint is then superseded |
| `find_intermediate` (MCTransfer) | `MembersContinue` | a send -I stops at an intermediate that nothing protects |
| `find_retire` (MCJobs) | `Retires` | off, on and off again: the deadline of the new marker is not earlier than the pending one and is dropped (`runtime.go:1569`); the pending one finds the grace period unexpired and nothing schedules another. `PLAN.md:490` has the root retired after the grace period |
| `find_promotion` (MCReplica) | `Replaces` | the root's replica arrived and the process died before the binding was promoted (`local.go:854`): later attempts reject the replica. `local.go:957`: "Every step leaves a state the next attempt recognises." |
| `find_misled` (MCReplica) | `ReceivesOwn` | the root's placeholder is replaced between the last read and the promotion of the binding, which then vouches for the newcomer |
| `find_exact_clean` (MCDecommission) | `AllProven` | a clean of the root alone clears the proofs of its members' holds and bookmarks (`clean.go:256`), which no later command removes |
| `find_forget` (MCDecommission) | `AllProven` | a forget removes the record of a target that a transfer, the root being enabled again, is about to hold a snapshot for |
| `find_learned` (MCDiscovery) | `RemotesAgree` | a reload forgets which remotes are local before it replaces them (`runtime.go:306`, `328`); what is learned in between is of the old remote |
| `find_learned_twice` (MCDiscovery) | `RemotesAgree` | two transfers learn that their remotes are local and set the destinations, computed under the lock, after it and in the other order (`runtime.go:1410-1414`) |

A passing run excuses, by a named predicate or history variable, what the code is
known not to do. No guard reads a history variable, so the behaviours are still
explored, and the configurations above show them:

- `unbacked` (`BaseSurvives`): see Transfer; `find_superseded`, `find_intermediate`.
- `revived` (`PendingOwned`, `Snapshotted`): `find_stuck`.
- `moved`, `misled` (`ReceivesBound`): see Replica; `find_misled`.
- `stray` (`Proven`): see Decommission; `find_exact_clean`, `find_forget`.
- `crossed` (`RemotesCurrent`): `find_learned`, `find_learned_twice`.
- `RetryLost` (`Attempted`): a remote's retry is dropped for a pending deadline that
  finds nothing to do (`runtime.go:1569`); the next snapshot or generation tries again.
- `missed` (`Attempted`, `MarkerFollows`): the last call of the job was turned away or
  failed for good and nothing repeats it; or (`Overtaken`) a reconciliation was refused
  as the duplicate of one running, or queued ahead of its opposite, for an earlier
  activation (`runtime.go:623`).
- `Unpromoted`, `Collided` (`Converges`): the promotion above; two placeholders in each
  other's way after the policy changed while one was aside.
- `Torn` (`Decommissions`): something `stray` is left; or the root was enabled under a
  clean and a transfer protected a snapshot between the last look and the removal
  (`clean.go:128`, `348`).
- `Stranded`: retirement stopped after the owner property was removed
  (`clean.go:286-316`), which neither restart nor rescan takes up. `Unverifiable`: a
  proof whose target has no binding, which retirement waits for until forgotten.
- `Vanished` (`Fresh`): `find_vanished`.

Met while modelling and not checked by a configuration: a job given up for want of a
lock at shutdown never finishes its ticket (`pool.go:366`); retirement goes on when the
root is enabled under it (`retirement.go:98`); transfers in flight are not stopped when
their target becomes blocked (`runtime.go:1172`); the first update of a watch may carry
transitions, and a full update's state may include later ones, where
`status.go:199-202` promises otherwise. A transfer blocked by policy waits for the next
snapshot or generation (`runtime.go:1347`) by design.

### Fairness

Everywhere: goroutines that can run do, and ZFS commands and streams end. What
operators, policies, snapshots and faults do is never forced.

- `Scheduler`: weak fairness of the scanner, the loop, the jobs and time. Strong
  fairness of `Fire` says Next passes over no due root for ever; it takes the
  earliest deadline first. A snapshot, a lookup and a Submit that are tried again
  and again succeed some time: retried failures are transient. A root that another
  job settles just between Next's unlock and its read of who is due produces an
  empty job; this does not happen at every firing.
- `Pool`: weak fairness of every worker, of Drop, and of a Clean or a shutdown that
  has begun. No strong fairness: queues and locks are fair by construction, which is
  what `Served` checks.
- `Jobs`: weak fairness of every goroutine and of timers. Strong fairness of
  `BeginJob`, since the lock a job waits for is granted in order (`Pool`'s `Served`).
- `Replica`: the runtime retries transfers, commands run on, outages end.
- `Decommission`: the operator keeps the root disabled and repeats the command until
  nothing is left to do, forgetting what cannot be verified; the daemon rescans,
  retries and is restarted.
- `Discovery`: a scan goes on and another follows, by the ticker. Strong fairness of
  a reload and of setting destinations, which wait for the scan's mutex.
- `Status`: weak fairness of owner, forwarders and writer. Strong fairness of sending
  an update and of finishing: a consumer goes on receiving, and a select with several
  ready cases takes each in the end.

## Proofs

`TransferProofs` first proves of `References` alone, for any finite or infinite set of
datasets, any subtree relation in which a dataset is beneath itself, and any number of
instants: `TypeOK`, `HoldProved`, `BookmarkProved`, `Retryable` and `SourceKept`. None
but the first is inductive. The invariant `IInv` adds what an operation under way
guarantees: a protection's proof is the one it asked for or covers it, its
snapshots exist and are not held before the proof is stored; a checkpoint's
sources are held or bookmarked; a completion's are bookmarked; a release's proof
stands until nothing it covers is left, and what is left is exactly its `todo`.
Each call and each write is a lemma of its own.

It then proves the refinement `RefSteps`: every step of the jobs, the engine, their
failures and a crash is a step of `References` or leaves its state alone. `IInv`
therefore holds of the composition from either initial state, and with it
`HoldProved`, `BookmarkProved` and `Retryable`.

`ReservationEnds`, `ReservedHeld` and `ReceiveOrder` follow from `TInv`, which adds to
`IInv` the types of the jobs and seven relations between the two processes: a call under
way is the one its owner waits for; only the transfer before these jobs left a
recursive proof; the reservations are what the running transfer pinned; what a
snapshot job gives up is neither pending nor reserved; a reserved endpoint is held
once it is prepared; a prepared stream has an endpoint; and what is to arrive is newer
than all the destination has. `Faults` and `Incremental` are arbitrary, and only the
constants' assumptions are used.

`SchedulerProofs` proves the type invariant (no deadline lies further ahead than
the longest cadence or delay); `Spacing`, from the invariant that a job about to
create holds only its own root's members, and only due ones unless forced; and
`PendingOwned`, from `PendingInv`: pending roots are scheduled and admitted, what Update
has copied is of roots it admitted, and a ticket cancelled in the loop's hands belongs
to no root that is pending or copied as pending. All three hold with everything
interleaving with Update.

Only model-checked: liveness; `BaseSurvives` and `PendingProtected`; and everything
about `Pool`, `Jobs`, `Replica`, `Decommission`, `Discovery` and `Status`, the refinement
`Implements` included. Liveness and ENABLED are out of the prover's reach; the rest is
not.

## Not modelled

- Control plane: tokens, certificates, pairing and gRPC transport are cryptography
  and I/O. Reload and draining of listeners could be modelled.
- Transports of remotes (ssh, native, stdio): a lost connection is an interrupted
  send. What a transport itself guarantees is assumed.
- The retention grid's grammar and selection: any choice that keeps the newest
  snapshot is allowed, so nothing here depends on the grid.
- Probes of the host: permission checks, detection of local remotes.
- Configuration, identity, file ownership, command-line parsing, rendering: no state
  shared between steps. Running `zfs` and parsing its output: I/O.
- The data race on a scheduler entry's map (`scheduler.go:179`): the model reads when the
  code does; a torn read of a Go map is not represented.
- Recursive (send -R) streams in the engine, received properties, clones, foreign
  snapshots, and the hierarchy lock over several roots.

## Plan

1. Proofs: `JobTable`'s exclusion and `Pool`'s `CleanAlone`; `CalmHolds`; `Proven` and
   `MarkerVouches`; `Contiguous` and `LogAccounts`; then `PendingProtected` and
   `BaseSurvives`.
2. The hierarchy lock of the lifecycle service over several roots.
3. The retention grid and PlanPrune as functions, against a reference definition.
4. Recursive streams in `Transfer`.
5. Listener reload and draining.
