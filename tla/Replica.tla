------------------------------ MODULE Replica ------------------------------
(***************************************************************************)
(* The datasets one root keeps at one target: where its streams receive     *)
(* them, the placeholders that stand in for datasets nothing is sent for,   *)
(* the binding that proves the target's identity, and the commands an       *)
(* operator resets, aborts or adopts it with while the daemon is stopped.   *)
(* Each write is a step, and the process may die between any two.           *)
(*                                                                          *)
(* A source dataset is the sequence of its names from the root; its place   *)
(* at the target is that sequence below the configured root, <<>>.  Bases   *)
(* and holds are the subject of Transfer: here an existing replica always   *)
(* shares a snapshot with its source.                                       *)
(***************************************************************************)
EXTENDS Integers, FiniteSets, Sequences

CONSTANTS
    Tree,           \* the root and the datasets beneath it
    Environments    \* what a behaviour may meet: who sends first and after
                    \* each change of policy, the target's first owner and
                    \* replicas, and bounds on snapshots, crashes, interrupted
                    \* streams, outages, replacements and commands

Names == UNION {{d[i] : i \in DOMAIN d} : d \in Tree}

\* p is q or a dataset beneath it.
Inside(p, q) == Len(q) <= Len(p) /\ SubSeq(p, 1, Len(q)) = q

\* The datasets beneath a root have names that begin with the root's, and
\* some are beneath no others.
ASSUME TreeAssumption ==
    /\ Tree \subseteq Seq(Names) \ {<<>>}
    /\ \E r \in Tree : \A d \in Tree : Inside(d, r)
    /\ \E e \in Tree : \A d \in Tree : Len(d) <= Len(e)

ASSUME EnvironmentAssumption ==
    Environments \subseteq
      [first : SUBSET Tree, policies : Seq(SUBSET Tree), owner : {"ours", "other"},
       snapshots : Nat, crashes : Nat, breaks : Nat, outages : Nat, replacements : Nat,
       reseeds : Nat, aborts : Nat, adopts : Nat]

VARIABLES
    left,       \* what remains of each bound
    sends,      \* the datasets whose policy names the target
    newest,     \* the newest snapshot, taken of the whole tree at once
    owner,      \* the owner property: "ours" or "other"
    binding,    \* the target binding property
    suspended,  \* the suspension marker
    proofs,     \* recovery references, as pairs of a dataset and a snapshot
    up,         \* the target can be reached
    pool,       \* GUID of the target's pool and configured root
    dest,       \* the datasets below the configured root
    fresh,      \* the next dataset GUID
    job,        \* the running transfer or command
    resetting,  \* history: a reseed began and none has finished since
    replaced,   \* history: something else was put in the target's place
    moved,      \* history: something was replaced since the stream was checked
    misled,     \* history: the binding was promoted to what was put in its place
    dropped,    \* history: a change of policy took a sender away
    checked     \* history: this installation has seen the target match

source == <<sends, newest, owner, binding, suspended, proofs>>
target == <<up, pool, dest, fresh>>
marks  == <<resetting, replaced, moved, misled, dropped, checked>>
vars   == <<left, source, target, job, marks>>

Root       == CHOOSE d \in Tree : \A e \in Tree : Inside(e, d)
Configured == <<>>
NoBinding  == [pool |-> 0, anchor |-> Configured, id |-> 0]
Empty      == [p \in {} |-> 0]

\* What a job read and goes by: a stream its binding, the datasets at its
\* place, the parents it lacks, the newest snapshot and the pool; a command the
\* receives it aborts and the datasets it destroys.
NoView == [bind |-> NoBinding, found |-> {}, missing |-> {}, newest |-> 0, pool |-> 0,
           abort |-> {}, destroy |-> {}]
Idle   == [pc |-> "idle", todo |-> {}, mode |-> "none", snap |-> 0, view |-> NoView]
-----------------------------------------------------------------------------
(* Names and what is found under them.                                       *)

Leaf(p) == p[Len(p)]

\* Request.mapped.
Mapped(d) == [i \in DOMAIN d |-> <<d[i], "">>]
RootPath  == Mapped(Root)

\* placeholderAside: a sibling of p.
Aside(p) == [p EXCEPT ![Len(p)] = <<@[1], "aside">>]

Exists(p)   == p = Configured \/ p \in DOMAIN dest
Identity(p) == IF p = Configured THEN pool ELSE dest[p].id
Above(p)    == {SubSeq(p, 1, n) : n \in 0..(Len(p) - 1)}
Beneath(p)  == {q \in DOMAIN dest : Inside(q, p)}
Children(p) == {q \in Beneath(p) : Len(q) = Len(p) + 1}
Tokens(p)   == {q \in Beneath(p) : dest[q].token # 0}
Longest(S)  == CHOOSE p \in S : \A q \in S : Len(q) <= Len(p)
Shortest(S) == CHOOSE p \in S : \A q \in S : Len(p) <= Len(q)

\* isPlaceholder: marked, and never given anything since.
Placeholder(p) == p \in DOMAIN dest /\ dest[p].marked /\ dest[p].snap = 0 /\ dest[p].token = 0

NearestExisting(p) == Longest({q \in Above(p) \cup {p} : Exists(q)})

NearestReal(p) == Longest({q \in Above(p) \cup {p} : Exists(q) /\ ~Placeholder(q)})

\* missingReceiveParents
MissingParents(p) == {q \in Above(p) : ~Exists(q)}
-----------------------------------------------------------------------------
(* What the target does.                                                     *)

Node(id, marked, snap, token, foreign) ==
    [id |-> id, marked |-> marked, snap |-> snap, token |-> token, foreign |-> foreign]

Put(p, node) == [q \in DOMAIN dest \cup {p} |-> IF q = p THEN node ELSE dest[q]]

DestroyDataset(p) == [q \in DOMAIN dest \ Beneath(p) |-> dest[q]]

RenameDataset(from, to) ==
    LET Moved(q)  == IF Inside(q, from) THEN to \o SubSeq(q, Len(from) + 1, Len(q)) ELSE q
    IN  [p \in {Moved(q) : q \in DOMAIN dest} |-> dest[CHOOSE q \in DOMAIN dest : Moved(q) = p]]

CreateReceiveParent(p) ==
    /\ dest' = Put(p, Node(fresh, TRUE, 0, 0, FALSE))
    /\ fresh' = fresh + 1

\* zfs receive -A needs an interrupted receive.  It removes a dataset that only
\* that receive created, and refuses to while there are others beneath it.
AbortRefused(p) ==
    \/ p \notin DOMAIN dest
    \/ dest[p].token = 0
    \/ dest[p].snap = 0 /\ Beneath(p) # {p}
AbortReceive(p) == IF dest[p].snap = 0 THEN DestroyDataset(p) ELSE Put(p, [dest[p] EXCEPT !.token = 0])
-----------------------------------------------------------------------------
(* The binding.                                                              *)

\* bindingForTarget, anchored on the nearest real dataset or on the stored one.
Anchored(p) == [pool |-> pool, anchor |-> p, id |-> Identity(p)]
RootExists  == NearestReal(RootPath) = RootPath

\* Mutant: a replica that exists is not compared.
AnyReplica ==
    \/ binding = NoBinding
    \/ RootExists
    \/ binding = Anchored(binding.anchor)

\* Build's comparison of the stored binding with the target as it is.
BindingHolds ==
    \/ binding = NoBinding
    \/ binding = Anchored(IF RootExists THEN RootPath ELSE binding.anchor)

\* InspectTarget, as adoption reports it.
InspectTarget ==
    LET anchor == IF RootExists THEN RootPath ELSE binding.anchor
    IN  CASE ~up -> "unavailable"
          [] up /\ binding = NoBinding -> "unbound"
          [] up /\ binding # NoBinding -> IF Exists(anchor) /\ binding = Anchored(anchor)
                                          THEN "verified" ELSE "blocked"

\* load reads the bound anchor.
Loadable == binding # NoBinding => Exists(binding.anchor)
-----------------------------------------------------------------------------
(* One attempt: Apply, over its streams parents first.                       *)

Stream == Shortest(job.todo)
Here   == Mapped(Stream)

Goto(pc) == job' = [job EXCEPT !.pc = pc]
Run(todo) == job' = IF todo = {} THEN Idle ELSE [Idle EXCEPT !.pc = "aside", !.todo = todo]

\* A failed stream takes the streams beneath it with it; a deferred
\* placeholder does not.
Fail  == Run({d \in job.todo : ~Inside(d, Stream)})
Defer == Run(job.todo \ {Stream})

Apply ==
    /\ job = Idle
    /\ owner = "ours"
    /\ sends # {}
    /\ Run(sends)
    /\ UNCHANGED <<left, source, target, marks>>

\* Mutant: a placeholder that waits for the receives beneath it blocks them.
SetAsideBlocking ==
    /\ job.pc = "aside" /\ up
    /\ IF Placeholder(Here) /\ (Exists(Aside(Here)) \/ Tokens(Here) # {})
       THEN Fail /\ UNCHANGED dest
       ELSE /\ dest' = IF Placeholder(Here) THEN RenameDataset(Here, Aside(Here)) ELSE dest
            /\ Goto("plan")
    /\ UNCHANGED <<left, source, up, pool, fresh, marks>>

SetAsidePlaceholder ==
    /\ job.pc = "aside" /\ up
    /\ \/ ~Placeholder(Here) /\ Goto("plan") /\ UNCHANGED dest
       \/ Placeholder(Here) /\ Exists(Aside(Here)) /\ Fail /\ UNCHANGED dest
       \/ /\ Placeholder(Here) /\ ~Exists(Aside(Here))
          /\ IF Tokens(Here) # {}
             THEN Defer /\ UNCHANGED dest
             ELSE Goto("plan") /\ dest' = RenameDataset(Here, Aside(Here))
    /\ UNCHANGED <<left, source, up, pool, fresh, marks>>

Authorised == owner = "ours" /\ ~suspended

\* BuildResume: the binding is compared where it is anchored, and the token
\* must belong to a proof of this stream.
Resumable ==
    /\ Authorised
    /\ binding # NoBinding /\ binding = Anchored(binding.anchor)
    /\ <<Stream, dest[Here].token>> \in proofs

\* Build: an existing destination needs a snapshot in common.
Buildable == Authorised /\ BindingHolds /\ (Exists(Here) => dest[Here].snap # 0)

Mode == IF ~Exists(Here) THEN "full" ELSE IF dest[Here].snap = newest THEN "current" ELSE "incremental"

\* load, and the binding Build would have.
View == [bind |-> IF binding = NoBinding THEN Anchored(NearestReal(RootPath)) ELSE binding,
         found |-> {<<p, dest[p].id>> : p \in Beneath(Here)},
         missing |-> IF Exists(Here) THEN {} ELSE MissingParents(Here),
         newest |-> newest, pool |-> pool, abort |-> {}, destroy |-> {}]

Plan ==
    /\ job.pc = "plan" /\ up
    /\ \/ ~Loadable /\ Fail
       \/ /\ Loadable /\ Exists(Here) /\ dest[Here].token # 0
          /\ IF Resumable
             THEN job' = [job EXCEPT !.pc = "recheck", !.mode = "resume", !.snap = dest[Here].token,
                                     !.view = View]
             ELSE Fail
       \/ /\ Loadable /\ (Exists(Here) => dest[Here].token = 0)
          /\ IF Buildable
             THEN job' = [job EXCEPT !.pc = IF View.missing = {} THEN "bind" ELSE "parents",
                                     !.mode = Mode, !.snap = newest, !.view = View]
             ELSE Fail
    /\ UNCHANGED <<left, source, target, marks>>

\* The parents that were missing are created, and the stream is planned again.
PrepareReceiveParents ==
    LET parent == Shortest(job.view.missing)
    IN  /\ job.pc = "parents" /\ up
        /\ IF Exists(parent) \/ ~Exists(SubSeq(parent, 1, Len(parent) - 1))
           THEN Fail /\ UNCHANGED <<dest, fresh>>
           ELSE /\ CreateReceiveParent(parent)
                /\ job' = [job EXCEPT !.pc = IF job.view.missing = {parent} THEN "prepared" ELSE @,
                                      !.view.missing = @ \ {parent}]
        /\ UNCHANGED <<left, source, up, pool, marks>>

\* What a read of both ends and a second Build make of the plan.
Stable == Loadable /\ Buildable
History == newest # job.snap \/ Mode # job.mode

ParentsPrepared ==
    /\ job.pc = "prepared" /\ up
    /\ \/ ~Stable /\ Fail
       \/ Stable /\ History /\ Goto("aside")
       \/ Stable /\ ~History /\ job' = [job EXCEPT !.pc = "bind", !.view = View]
    /\ UNCHANGED <<left, source, target, marks>>

StoreBinding ==
    /\ job.pc = "bind"
    /\ binding' = job.view.bind
    /\ Goto("protect")
    /\ UNCHANGED <<left, sends, newest, owner, suspended, proofs, target, marks>>

\* ProtectSet
Protect ==
    /\ job.pc = "protect"
    /\ proofs' = proofs \cup {<<Stream, job.snap>>}
    /\ Goto("recheck")
    /\ UNCHANGED <<left, sends, newest, owner, binding, suspended, target, marks>>

\* Both ends are read again: a resume fails when anything changed, another
\* stream when its place did, and one whose history moved plans again.
Recheck ==
    LET same == IF job.mode = "resume" THEN View = job.view /\ Resumable
                                       ELSE View.found = job.view.found /\ Buildable
    IN  /\ job.pc = "recheck" /\ up
        /\ \/ ~(Loadable /\ same) /\ Fail /\ UNCHANGED moved
           \/ /\ Loadable /\ same /\ job.mode # "resume" /\ History
              /\ Goto("aside") /\ UNCHANGED moved
           \/ /\ Loadable /\ same /\ (job.mode = "resume" \/ ~History)
              /\ job' = [job EXCEPT !.pc = IF job.mode = "current" THEN "verify" ELSE "send",
                                    !.view = NoView]
              /\ moved' = FALSE
        /\ UNCHANGED <<left, source, target, resetting, replaced, misled, dropped, checked>>
-----------------------------------------------------------------------------
(* The stream, and what follows it.                                          *)

\* zfs receive, never forced: a full stream needs its place free, an
\* incremental one a snapshot in common, a resumed one its own token.
Accepts ==
    CASE job.mode = "full" -> ~Exists(Here) /\ MissingParents(Here) = {}
      [] job.mode = "incremental" -> Exists(Here) /\ dest[Here].snap # 0 /\ dest[Here].token = 0
      [] job.mode = "resume" -> Exists(Here) /\ dest[Here].token = job.snap

Receive ==
    /\ job.pc = "send" /\ up /\ Accepts
    /\ dest' = Put(Here, IF Exists(Here)
                         THEN [dest[Here] EXCEPT !.snap = job.snap, !.token = 0]
                         ELSE Node(fresh, FALSE, job.snap, 0, FALSE))
    /\ fresh' = IF Exists(Here) THEN fresh ELSE fresh + 1
    /\ Goto("verify")
    /\ UNCHANGED <<left, source, up, pool, marks>>

ReceiveRefused ==
    /\ job.pc = "send" /\ up /\ ~Accepts
    /\ Fail
    /\ UNCHANGED <<left, source, target, marks>>

\* The stream ends early, with a token or with nothing received.
Interrupt ==
    /\ job.pc = "send" /\ left.breaks > 0
    /\ left' = [left EXCEPT !.breaks = @ - 1]
    /\ \/ /\ up /\ Accepts
          /\ dest' = Put(Here, IF Exists(Here)
                               THEN [dest[Here] EXCEPT !.token = job.snap]
                               ELSE Node(fresh, FALSE, 0, job.snap, FALSE))
          /\ fresh' = IF Exists(Here) THEN fresh ELSE fresh + 1
       \/ UNCHANGED <<dest, fresh>>
    /\ Fail
    /\ UNCHANGED <<source, up, pool, marks>>

\* verifyGUIDs: what was sent arrived.  With nothing sent, nothing is read.
Verified ==
    \/ job.mode = "current"
    \/ Exists(Here) /\ dest[Here].snap = job.snap /\ dest[Here].token = 0

\* The anchor moves to the root's replica, if that is in the bound pool.
PromoteBinding ==
    LET promotes == binding.anchor # RootPath /\ ~Placeholder(RootPath)
    IN  /\ job.pc = "verify" /\ up
        /\ IF Verified /\ (promotes => Exists(RootPath) /\ pool = binding.pool)
           THEN /\ binding' = IF promotes THEN Anchored(RootPath) ELSE binding
                /\ misled' = (misled \/ (promotes /\ dest[RootPath].foreign))
                /\ Goto("settle")
           ELSE Fail /\ UNCHANGED <<binding, misled>>
        /\ UNCHANGED <<left, sends, newest, owner, suspended, proofs, target, resetting, replaced,
                       moved, dropped, checked>>

\* CheckpointSet, and the release of the stream's older proofs.
Settle ==
    /\ job.pc = "settle"
    /\ proofs' = {r \in proofs : r[1] = Stream => r[2] >= job.snap}
    /\ Goto("adopt")
    /\ UNCHANGED <<left, sends, newest, owner, binding, suspended, target, marks>>

\* A resumed stream is planned again, so that it ends at its newest endpoint.
EndStream == IF job.mode = "resume" THEN Run(job.todo) ELSE Run(job.todo \ {Stream})

\* Mutant: the placeholder goes before what waits beneath it.
AdoptByDropping ==
    /\ job.pc = "adopt" /\ up
    /\ dest' = IF Exists(Aside(Here)) THEN DestroyDataset(Aside(Here)) ELSE dest
    /\ EndStream
    /\ UNCHANGED <<left, source, up, pool, fresh, marks>>

AdoptPlaceholderChildren ==
    LET aside == Aside(Here)
    IN  /\ job.pc = "adopt" /\ up
        /\ \/ ~Exists(aside) /\ EndStream /\ UNCHANGED dest
           \/ Exists(aside) /\ ~Placeholder(aside) /\ Fail /\ UNCHANGED dest
           \/ /\ Placeholder(aside) /\ Children(aside) = {}
              /\ dest' = DestroyDataset(aside)
              /\ EndStream
           \/ /\ Placeholder(aside)
              /\ \E child \in Children(aside) :
                    IF Exists(Append(Here, Leaf(child)))
                    THEN Fail /\ UNCHANGED dest
                    ELSE /\ dest' = RenameDataset(child, Append(Here, Leaf(child)))
                         /\ UNCHANGED job
        /\ UNCHANGED <<left, source, up, pool, fresh, marks>>

\* A step that needs the target fails its stream when it cannot be reached.
Unreachable ==
    /\ job.pc \in {"aside", "plan", "parents", "prepared", "recheck", "send", "verify", "adopt"} /\ ~up
    /\ Fail
    /\ UNCHANGED <<left, source, target, marks>>

TransferStep ==
    \/ SetAsidePlaceholder \/ Plan \/ PrepareReceiveParents \/ ParentsPrepared \/ StoreBinding
    \/ Protect \/ Recheck \/ Receive \/ ReceiveRefused \/ Interrupt \/ PromoteBinding \/ Settle \/ AdoptPlaceholderChildren
    \/ Unreachable
-----------------------------------------------------------------------------
(* Commands.  They take the daemon's lock, so none runs beside a transfer.   *)

\* These commands hold the lifecycle lock and need the daemon to be stopped.
Standalone == job = Idle

\* Mutant: the stored anchor must still be there.
ReseedBound ==
    /\ up /\ owner = "ours"
    /\ binding = NoBinding \/ (Exists(binding.anchor) /\ binding = Anchored(binding.anchor))
    /\ Exists(Aside(RootPath)) => Placeholder(Aside(RootPath))

\* ReseedService.plan succeeds: the bound anchor if it exists, and otherwise
\* the pool, is the one the binding names.
ReseedPlan ==
    /\ up /\ owner = "ours"
    /\ \/ binding = NoBinding
       \/ Exists(binding.anchor) /\ binding = Anchored(binding.anchor)
       \/ ~Exists(binding.anchor) /\ binding.pool = pool
    /\ Exists(Aside(RootPath)) => Placeholder(Aside(RootPath))

Received == Tokens(RootPath) \cup Tokens(Aside(RootPath))

ReseedApply ==
    /\ Standalone /\ left.reseeds > 0 /\ ReseedPlan
    /\ left' = [left EXCEPT !.reseeds = @ - 1]
    /\ resetting' = TRUE /\ checked' = TRUE
    /\ job' = [Idle EXCEPT !.pc = "reseed abort", !.view.abort = Received,
                           !.view.destroy = {p \in {RootPath, Aside(RootPath)} : Exists(p)}]
    /\ UNCHANGED <<source, target, replaced, moved, misled, dropped>>

\* ApplyAbort discards the same receives and nothing else.
AbortApply ==
    /\ Standalone /\ left.aborts > 0 /\ ReseedPlan /\ Received # {}
    /\ left' = [left EXCEPT !.aborts = @ - 1]
    /\ job' = [Idle EXCEPT !.pc = "abort", !.view.abort = Received]
    /\ UNCHANGED <<source, target, marks>>

AbandonReceives ==
    LET p == Longest(job.view.abort)
    IN  /\ job.pc \in {"reseed abort", "abort"} /\ up
        /\ \/ /\ job.view.abort # {} /\ ~AbortRefused(p)
              /\ dest' = AbortReceive(p)
              /\ job' = [job EXCEPT !.view.abort = @ \ {p}]
           \/ /\ job.view.abort # {} /\ AbortRefused(p)
              /\ job' = Idle
              /\ UNCHANGED dest
           \/ /\ job.view.abort = {}
              /\ IF job.pc = "abort" THEN job' = Idle ELSE Goto("reseed destroy")
              /\ UNCHANGED dest
        /\ UNCHANGED <<left, source, up, pool, fresh, marks>>

\* A dataset the plan found is destroyed by name; one that went with its only
\* receive is missed, and the command fails and must be run again.
DestroyPlanned(p, next) ==
    /\ up
    /\ \/ p \notin job.view.destroy /\ Goto(next) /\ UNCHANGED dest
       \/ p \in job.view.destroy /\ ~Exists(p) /\ job' = Idle /\ UNCHANGED dest
       \/ p \in job.view.destroy /\ Exists(p) /\ dest' = DestroyDataset(p) /\ Goto(next)
    /\ UNCHANGED <<left, source, up, pool, fresh, marks>>

DestroyMapped   == job.pc = "reseed destroy" /\ DestroyPlanned(RootPath, "reseed aside")
DestroySetAside == job.pc = "reseed aside" /\ DestroyPlanned(Aside(RootPath), "reseed release")

\* ReleaseReference, oldest first.
ReleaseProofs ==
    /\ job.pc = "reseed release"
    /\ IF proofs = {}
       THEN Goto("reseed clear") /\ UNCHANGED proofs
       ELSE /\ \E r \in proofs : (\A q \in proofs : r[2] <= q[2]) /\ proofs' = proofs \ {r}
            /\ UNCHANGED job
    /\ UNCHANGED <<left, sends, newest, owner, binding, suspended, target, marks>>

ClearSuspension ==
    /\ job.pc = "reseed clear"
    /\ suspended' = FALSE
    /\ Goto("reseed unbind")
    /\ UNCHANGED <<left, sends, newest, owner, binding, proofs, target, marks>>

\* With no binding, nothing is in the place of what it named.
RemoveBinding ==
    /\ job.pc = "reseed unbind"
    /\ binding' = NoBinding
    /\ dest' = [p \in DOMAIN dest |-> [dest[p] EXCEPT !.foreign = FALSE]]
    /\ job' = Idle
    /\ resetting' = FALSE /\ misled' = FALSE
    /\ UNCHANGED <<left, sends, newest, owner, suspended, proofs, up, pool, fresh,
                   replaced, moved, dropped, checked>>

\* runAdopt: a target that cannot be reached is suspended before the owner
\* changes, and one that was verified is released after it.
Adopt ==
    /\ Standalone /\ left.adopts > 0
    /\ InspectTarget # "blocked"
    /\ left' = [left EXCEPT !.adopts = @ - 1]
    /\ job' = [Idle EXCEPT !.pc = IF up THEN "adopt own" ELSE "adopt suspend",
                           !.mode = IF up /\ suspended THEN "release" ELSE "none"]
    /\ checked' = (checked \/ up)
    /\ UNCHANGED <<source, target, resetting, replaced, moved, misled, dropped>>

\* Mutant: an unreachable target is left alone.
SuspendNothing ==
    /\ job.pc = "adopt suspend"
    /\ Goto("adopt own")
    /\ UNCHANGED <<left, source, target, marks>>

Suspend ==
    /\ job.pc = "adopt suspend"
    /\ suspended' = TRUE
    /\ Goto("adopt own")
    /\ UNCHANGED <<left, sends, newest, owner, binding, proofs, target, marks>>

AdoptDataset ==
    /\ job.pc = "adopt own"
    /\ owner' = "ours"
    /\ Goto("adopt release")
    /\ UNCHANGED <<left, sends, newest, binding, suspended, proofs, target, marks>>

ReleaseSuspended ==
    /\ job.pc = "adopt release"
    /\ suspended' = (suspended /\ job.mode # "release")
    /\ job' = Idle
    /\ UNCHANGED <<left, sends, newest, owner, binding, proofs, target, marks>>

CommandUnreachable ==
    /\ job.pc \in {"reseed abort", "abort", "reseed destroy", "reseed aside"} /\ ~up
    /\ job' = Idle
    /\ UNCHANGED <<left, source, target, marks>>

CommandStep ==
    \/ AbandonReceives \/ DestroyMapped \/ DestroySetAside \/ ReleaseProofs
    \/ ClearSuspension \/ RemoveBinding \/ Suspend \/ AdoptDataset \/ ReleaseSuspended
    \/ CommandUnreachable
-----------------------------------------------------------------------------
(* Everything else that happens.                                             *)

\* The daemon or the command dies.
Crash ==
    /\ job # Idle /\ left.crashes > 0
    /\ left' = [left EXCEPT !.crashes = @ - 1]
    /\ job' = Idle
    /\ UNCHANGED <<source, target, marks>>

TakeSnapshot ==
    /\ left.snapshots > 0 /\ owner = "ours"
    /\ left' = [left EXCEPT !.snapshots = @ - 1]
    /\ newest' = newest + 1
    /\ UNCHANGED <<sends, owner, binding, suspended, proofs, target, job, marks>>

ChangePolicy ==
    /\ left.policies # <<>>
    /\ sends' = Head(left.policies)
    /\ left' = [left EXCEPT !.policies = Tail(@)]
    /\ dropped' = (dropped \/ ~(sends \subseteq sends'))
    /\ UNCHANGED <<newest, owner, binding, suspended, proofs, target, job, resetting, replaced, moved, misled,
                   checked>>

GoDown ==
    /\ up /\ left.outages > 0
    /\ left' = [left EXCEPT !.outages = @ - 1]
    /\ up' = FALSE
    /\ UNCHANGED <<source, pool, dest, fresh, job, marks>>

ComeBack ==
    /\ ~up /\ up' = TRUE
    /\ UNCHANGED <<left, source, pool, dest, fresh, job, marks>>

\* Someone puts another dataset at the root's place or where its placeholder
\* is set aside, or another pool under the configured root.
ReplaceRoot ==
    /\ left.replacements > 0
    /\ left' = [left EXCEPT !.replacements = @ - 1]
    /\ \E p \in {RootPath, Aside(RootPath)} :
          dest' = [q \in (DOMAIN dest \ Beneath(p)) \cup {p} |->
                     IF q = p THEN Node(fresh, FALSE, 0, 0, binding # NoBinding) ELSE dest[q]]
    /\ fresh' = fresh + 1
    /\ replaced' = TRUE /\ moved' = TRUE
    /\ UNCHANGED <<source, up, pool, job, resetting, misled, dropped, checked>>

ReplacePool ==
    /\ left.replacements > 0
    /\ left' = [left EXCEPT !.replacements = @ - 1]
    /\ pool' = pool + 1
    /\ dest' = Empty
    /\ replaced' = TRUE /\ moved' = TRUE
    /\ UNCHANGED <<source, up, fresh, job, resetting, misled, dropped, checked>>

Disturb ==
    \/ Crash \/ TakeSnapshot \/ ChangePolicy \/ GoDown \/ ReplaceRoot \/ ReplacePool
    \/ ReseedApply \/ AbortApply \/ Adopt
-----------------------------------------------------------------------------
(* The specification.                                                        *)

Init ==
    /\ left \in Environments
    /\ sends = left.first
    /\ newest = 1
    /\ owner = left.owner
    /\ pool = 1
    /\ dest = Empty /\ fresh = 1
    /\ binding = NoBinding
    /\ suspended = FALSE
    /\ proofs = {}
    /\ up = TRUE
    /\ job = Idle
    /\ resetting = FALSE /\ replaced = FALSE /\ moved = FALSE /\ misled = FALSE /\ dropped = FALSE
    /\ checked = (left.owner = "ours")

Next == Apply \/ TransferStep \/ CommandStep \/ ComeBack \/ Disturb

\* The runtime retries a failed transfer and starts one for every snapshot; a
\* command the operator started runs on; an outage ends.
Fairness ==
    /\ WF_vars(Apply) /\ WF_vars(TransferStep) /\ WF_vars(CommandStep) /\ WF_vars(ComeBack)

Spec == Init /\ [][Next]_vars /\ Fairness
-----------------------------------------------------------------------------
(* Properties.                                                               *)

\* The engine never loses what it received.  Whatever a transfer, an abort or
\* an adoption does, and wherever it is interrupted, each replica with a
\* snapshot still exists with at least that snapshot: setting a placeholder
\* aside and moving its children back renames them, and a placeholder is
\* destroyed only once it is empty.
ReplicasKept ==
    [][job.pc \notin {"reseed destroy", "reseed aside"} /\ left'.replacements = left.replacements
       => \A p \in DOMAIN dest : dest[p].snap # 0
            => \E q \in DOMAIN dest' : dest'[q].id = dest[p].id /\ dest'[q].snap >= dest[p].snap]_vars

Receives == job.pc = "send" /\ job' # job /\ dest' # dest

\* What the streams a step delivers are received into.
IntoBound ==
    /\ binding # NoBinding /\ binding = Anchored(binding.anchor)
    /\ RootPath \in DOMAIN dest => ~dest[RootPath].foreign

\* Nothing is received into what took a bound replica's place: Build compares
\* the stored binding with the target before every stream, and again once the
\* binding and the proof are written.  Only what is replaced after that read
\* goes unseen: by an unforced receive, or by a promotion that anchors the
\* binding on it.
ReceivesBound == [][Receives /\ ~moved /\ ~misled => IntoBound]_vars

\* A replacement is seen by the next stream that is prepared after it.
ReceivesOwn == [][Receives /\ ~moved => IntoBound]_vars

\* An installation that adopted a root sends nothing to a target it has not
\* seen match: the target is suspended before the owner changes.
AdoptedGate == [][Receives => checked]_vars

\* However transfers and reseeds were interrupted, an operator who stops the
\* daemon can reseed the target, unless something else was put in its place.
WayOut == job = Idle /\ up /\ owner = "ours" /\ ~replaced => ReseedPlan

Settled == \A d \in sends :
    Exists(Mapped(d)) /\ dest[Mapped(d)].snap = newest /\ ~Exists(Aside(Mapped(d)))

\* A policy change while a placeholder was aside left two of them in each
\* other's way, or left a receive beneath a placeholder that nobody resumes.
Collided ==
    \/ \E p \in DOMAIN dest : Exists(Aside(p)) /\ p # Aside(p)
         /\ (Placeholder(p) \/ \E c \in Children(Aside(p)) : Exists(Append(p, Leaf(c))))
    \/ \E p \in DOMAIN dest : dest[p].token # 0 /\ p \notin {Mapped(d) : d \in sends}

\* The root's replica arrived and its binding was not promoted.
Unpromoted == RootExists /\ binding # NoBinding /\ binding.anchor # RootPath

NeedsOperator == owner # "ours" \/ suspended \/ resetting \/ replaced \/ (dropped /\ Collided)

\* Every step of a replacement leaves a state the next attempt recognises:
\* once disturbances end, either an operator is needed, or every stream's
\* replica is in its place with the newest snapshot and no placeholder of its
\* is aside.
Replaces == <>[](Settled \/ NeedsOperator)

\* The same, except where the first replica of the root arrived and the
\* attempt ended before its binding was promoted.
Converges == <>[](Settled \/ NeedsOperator \/ Unpromoted)
=============================================================================
