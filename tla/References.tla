----------------------------- MODULE References -----------------------------
(***************************************************************************)
(* The durable recovery references of one root for one target: owned       *)
(* snapshots, target holds, cursor bookmarks and reference proofs, as the   *)
(* lifecycle service of internal/lifecycle writes them to ZFS.              *)
(*                                                                         *)
(* Every operation of the service holds the root's hierarchy lock from its  *)
(* first read to its last write (Service.lock), so at most one is under     *)
(* way: op says which, and what it still has to write.  Each ZFS command    *)
(* is a step of its own, and Abort may end an operation between any two     *)
(* (a failed command, a cancelled context, a crash of the daemon).  The     *)
(* next operation plans from the properties, holds and bookmarks found.     *)
(*                                                                         *)
(* One target is modelled.  References of other targets carry other names;  *)
(* to this target they only make Prune destroy less.                        *)
(***************************************************************************)
EXTENDS Integers, FiniteSets

CONSTANTS
    Dataset,     \* the datasets of the root's subtree that take part
    Beneath,     \* Beneath[d]: d and the datasets of its subtree
    MaxInstant   \* bound: how many times snapshots are taken

ASSUME BeneathAssumption ==
    /\ Beneath \in [Dataset -> SUBSET Dataset]
    /\ \A d \in Dataset : d \in Beneath[d]

ASSUME MaxInstantAssumption == MaxInstant \in Nat

\* A creation instant stands for a snapshot's stamp, TXG and, within one
\* dataset, its GUID: all three grow together.
Instant == 1 .. MaxInstant

\* The dataset and instant that a snapshot, its hold and its bookmark share.
Snapshot == Dataset \X Instant

\* What a reference property records: the stream, the instant, and whether
\* the proof stands for the stream's whole subtree.
Proof == [stream : Dataset, instant : Instant, recursive : BOOLEAN]

VARIABLES
    taken,       \* instants used so far
    snapshots,   \* owned snapshots that exist
    holds,       \* snapshots under the target's hold
    bookmarks,   \* snapshots the target has a cursor bookmark for
    proofs,      \* reference properties stored
    op           \* the lifecycle operation that holds the root's lock

zfs == <<taken, snapshots, holds, bookmarks, proofs>>
refVars == <<taken, snapshots, holds, bookmarks, proofs, op>>

NoProof == [stream |-> "none", instant |-> 0, recursive |-> FALSE]

NoOp == [kind |-> "none", proof |-> NoProof, asked |-> {}, todo |-> {}]

\* An operation under way: the proof it is about, the snapshots the caller
\* named, and those still to be written.
Op == [kind  : {"none", "protect", "checkpoint", "complete", "release", "prune"},
       proof : Proof \cup {NoProof},
       asked : SUBSET Snapshot,
       todo  : SUBSET Snapshot]

Begin(kind, proof, asked, todo) ==
    /\ op = NoOp
    /\ op' = [kind |-> kind, proof |-> proof, asked |-> asked, todo |-> todo]
    /\ UNCHANGED zfs

TypeOK ==
    /\ taken \in 0 .. MaxInstant
    /\ snapshots \subseteq Snapshot
    /\ holds \subseteq Snapshot
    /\ bookmarks \subseteq Snapshot
    /\ proofs \subseteq Proof
    /\ op \in Op

\* A reference property's datasets: the subtree when recursive, otherwise
\* the stream alone.
Covers(p) == IF p.recursive THEN Beneath[p.stream] ELSE {p.stream}

CoveredSnapshots(p) == {x \in Snapshot : x[1] \in Covers(p) /\ x[2] = p.instant}

\* The snapshots a proof still has a hold or a bookmark for.
Sources(p) == {x \in holds \cup bookmarks : x \in CoveredSnapshots(p)}

\* The proof a request for datasets ds of a stream asks for.
Requested(stream, ds, i) ==
    [stream |-> stream, instant |-> i, recursive |-> ds # {stream}]

\* The proof stored under the property name of this stream and instant.
Stored(stream, i) == {p \in proofs : p.stream = stream /\ p.instant = i}

Newest(x) == \A y \in snapshots : y[1] = x[1] => y[2] =< x[2]

-----------------------------------------------------------------------------
(* CreateSnapshot: one atomic zfs snapshot of every due dataset.           *)

CreateSnapshot(ds) ==
    /\ op = NoOp
    /\ ds # {}
    /\ taken < MaxInstant
    /\ taken' = taken + 1
    /\ snapshots' = snapshots \cup (ds \X {taken + 1})
    /\ UNCHANGED <<holds, bookmarks, proofs, op>>

-----------------------------------------------------------------------------
(* ProtectSet: write the proof, then hold every snapshot not yet held.     *)

\* A recursive proof at the instant covers a narrower request of the same
\* stream; a narrower proof never covers a wider one.
ConflictingProof(stream, ds, i) ==
    \E p \in Stored(stream, i) : p # Requested(stream, ds, i) /\ ~p.recursive

\* A hold of this target that no proof of the stream accounts for.
UnprovenHold(stream, ds, i) ==
    /\ Stored(stream, i) = {}
    /\ holds \cap (ds \X {i}) # {}

ProtectRefused(stream, ds, i) ==
    \/ ~(ds \X {i} \subseteq snapshots)
    \/ ConflictingProof(stream, ds, i)
    \/ UnprovenHold(stream, ds, i)

ProtectSet(stream, ds, i) ==
    /\ stream \in ds
    /\ ds \subseteq Beneath[stream]
    /\ ~ProtectRefused(stream, ds, i)
    /\ \E p \in Proof :
        /\ IF Stored(stream, i) = {} THEN p = Requested(stream, ds, i)
                                     ELSE p \in Stored(stream, i)
        /\ Begin("protect", p, ds \X {i}, (ds \X {i}) \ holds)

WriteProof ==
    /\ op.kind = "protect"
    /\ op.proof \notin proofs
    /\ proofs' = proofs \cup {op.proof}
    /\ UNCHANGED <<taken, snapshots, holds, bookmarks, op>>

\* Mutant of Hold: a hold may precede its proof.
HoldBeforeProof ==
    /\ op.kind = "protect"
    /\ \E x \in op.todo :
        /\ holds' = holds \cup {x}
        /\ op' = [op EXCEPT !.todo = @ \ {x}]
    /\ UNCHANGED <<taken, snapshots, bookmarks, proofs>>

Hold ==
    /\ op.kind = "protect"
    /\ op.proof \in proofs
    /\ \E x \in op.todo :
        /\ holds' = holds \cup {x}
        /\ op' = [op EXCEPT !.todo = @ \ {x}]
    /\ UNCHANGED <<taken, snapshots, bookmarks, proofs>>

-----------------------------------------------------------------------------
(* CheckpointSet: bookmark every verified source of a proof.               *)

CheckpointRefused(p, verified) ==
    \/ p \notin proofs
    \/ <<p.stream, p.instant>> \notin Sources(p)
    \/ ~(verified \subseteq Sources(p))
    \/ \E x \in Sources(p) \ bookmarks : x \notin verified \cap snapshots \cap holds

CheckpointSet(p, verified) ==
    /\ ~CheckpointRefused(p, verified)
    /\ Begin("checkpoint", p, verified, Sources(p) \ bookmarks)

Bookmark ==
    /\ op.kind = "checkpoint"
    /\ \E x \in op.todo :
        /\ bookmarks' = bookmarks \cup {x}
        /\ op' = [op EXCEPT !.todo = @ \ {x}]
    /\ UNCHANGED <<taken, snapshots, holds, proofs>>

-----------------------------------------------------------------------------
(* ReleaseCompletedHold: give up the holds of a checkpointed proof.        *)

\* Mutant of CompleteRefused: "verified checkpoint is missing" is not checked.
CompleteUnchecked(p) == p \notin proofs

CompleteRefused(p) ==
    \/ p \notin proofs
    \/ ~(Sources(p) \cap holds \subseteq bookmarks)

ReleaseCompletedHold(p) ==
    /\ ~CompleteRefused(p)
    /\ Begin("complete", p, {}, Sources(p) \cap holds)

ReleaseHold ==
    /\ op.kind = "complete"
    /\ \E x \in op.todo :
        /\ holds' = holds \ {x}
        /\ op' = [op EXCEPT !.todo = @ \ {x}]
    /\ UNCHANGED <<taken, snapshots, bookmarks, proofs>>

-----------------------------------------------------------------------------
(* ReleaseReference: the stream's own source, then those beneath it, each    *)
(* its bookmark and then its hold; the proof last, so that an interrupted    *)
(* release can be planned again.  Siblings' writes are not ordered.          *)

\* Mutant of ReleaseReference: only held sources are found.
ReleaseHeldOnly(p) ==
    /\ p \in proofs
    /\ Begin("release", p, {}, Sources(p) \cap holds)

ReleaseReference(p) ==
    /\ p \in proofs
    /\ Begin("release", p, {}, Sources(p))

NextSource(x) == \A y \in op.todo : x[1] \in Beneath[y[1]] => y = x

DestroyBookmark ==
    /\ op.kind = "release"
    /\ \E x \in op.todo \cap bookmarks :
        /\ NextSource(x)
        /\ bookmarks' = bookmarks \ {x}
        /\ op' = [op EXCEPT !.todo = IF x \in holds THEN @ ELSE @ \ {x}]
    /\ UNCHANGED <<taken, snapshots, holds, proofs>>

ReleaseSourceHold ==
    /\ op.kind = "release"
    /\ \E x \in op.todo \ bookmarks :
        /\ NextSource(x)
        /\ holds' = holds \ {x}
        /\ op' = [op EXCEPT !.todo = @ \ {x}]
    /\ UNCHANGED <<taken, snapshots, bookmarks, proofs>>

\* Mutant of InheritProof: the proof need not be the last thing to go.
InheritFirst ==
    /\ op.kind = "release"
    /\ op.proof \in proofs
    /\ proofs' = proofs \ {op.proof}
    /\ UNCHANGED <<taken, snapshots, holds, bookmarks, op>>

InheritProof ==
    /\ op.kind = "release"
    /\ op.todo = {}
    /\ op.proof \in proofs
    /\ proofs' = proofs \ {op.proof}
    /\ UNCHANGED <<taken, snapshots, holds, bookmarks, op>>

-----------------------------------------------------------------------------
(* Prune: destroy snapshots the retention grid does not keep.  The grid     *)
(* (PlanPrune) always keeps the newest owned snapshot and whatever is held; *)
(* which of the others it keeps is left open.                               *)

Prunable == {x \in snapshots : x \notin holds /\ ~Newest(x)}

Prune(d, chosen) ==
    /\ chosen # {}
    /\ chosen \subseteq {x \in Prunable : x[1] = d}
    /\ Begin("prune", NoProof, chosen, chosen)

\* Every destroy plans again from a fresh read and stops when its snapshot
\* is no longer prunable.
DestroySnapshot ==
    /\ op.kind = "prune"
    /\ \E x \in op.todo \cap Prunable :
        /\ snapshots' = snapshots \ {x}
        /\ op' = [op EXCEPT !.todo = @ \ {x}]
    /\ UNCHANGED <<taken, holds, bookmarks, proofs>>

-----------------------------------------------------------------------------

\* The operation under way has made all its writes.
Finished ==
    /\ op.kind # "none"
    /\ op.todo = {}
    /\ op.kind = "protect" => op.proof \in proofs
    /\ op.kind = "release" => op.proof \notin proofs

Return ==
    /\ Finished
    /\ op' = NoOp
    /\ UNCHANGED zfs

\* A write fails, the context is cancelled or the daemon dies: the writes
\* already made stay.
Abort ==
    /\ op.kind # "none"
    /\ ~Finished
    /\ op' = NoOp
    /\ UNCHANGED zfs

Write ==
    \/ WriteProof \/ Hold
    \/ Bookmark
    \/ ReleaseHold
    \/ DestroyBookmark \/ ReleaseSourceHold \/ InheritProof
    \/ DestroySnapshot

Call ==
    \/ \E ds \in SUBSET Dataset : CreateSnapshot(ds)
    \/ \E stream \in Dataset, ds \in SUBSET Dataset, i \in Instant :
        ProtectSet(stream, ds, i)
    \/ \E p \in proofs, verified \in SUBSET (holds \cup bookmarks) :
        CheckpointSet(p, verified)
    \/ \E p \in proofs : ReleaseCompletedHold(p)
    \/ \E p \in proofs : ReleaseReference(p)
    \/ \E d \in Dataset, chosen \in SUBSET snapshots : Prune(d, chosen)

RefInit ==
    /\ taken = 0
    /\ snapshots = {}
    /\ holds = {}
    /\ bookmarks = {}
    /\ proofs = {}
    /\ op = NoOp

RefNext == Write \/ Return \/ Abort \/ Call

RefSpec == RefInit /\ [][RefNext]_refVars

-----------------------------------------------------------------------------
(* Properties.                                                             *)

\* Every hold under the target's tag is backed by a stored proof that covers
\* it, whichever writes of ProtectSet, ReleaseCompletedHold and
\* ReleaseReference were interrupted: a hold no proof accounts for would
\* never be released, and would block the snapshot's next ProtectSet.
HoldProved ==
    \A x \in holds : \E p \in proofs : x \in CoveredSnapshots(p)

\* Every cursor bookmark is backed by a stored proof that covers it: a proof
\* goes only once both the holds and the bookmarks it accounts for are gone.
BookmarkProved ==
    \A x \in bookmarks : \E p \in proofs : x \in CoveredSnapshots(p)

\* At any moment of an operation, the same call made again would be accepted:
\* what an interruption leaves behind never makes ProtectSet, CheckpointSet,
\* ReleaseCompletedHold or ReleaseReference refuse its own retry.
Retryable ==
    LET p == op.proof
    IN  CASE op.kind = "protect"    ->
               ~ProtectRefused(p.stream, {x[1] : x \in op.asked}, p.instant)
          [] op.kind = "checkpoint" -> ~CheckpointRefused(p, op.asked)
          [] op.kind = "complete"   -> ~CompleteRefused(p)
          [] op.kind = "release"    -> p \in proofs \/ Finished
          [] OTHER                  -> TRUE

\* A protected or checkpointed source of a proof stays held or bookmarked
\* through every step but those of ReleaseReference: taking, completing,
\* pruning and interrupting never leave a stored proof with less to recover
\* from.
SourceKept ==
    [][op.kind # "release" => \A x \in holds \cup bookmarks : x \in holds' \cup bookmarks']_refVars
=============================================================================
