--------------------------- MODULE TransferProofs ---------------------------
(***************************************************************************)
(* Proofs about References, for any set of datasets and number of instants, *)
(* and about Transfer, which extends it.                                    *)
(*                                                                         *)
(* None of the invariants of References is inductive alone: what a write    *)
(* preserves rests on what its operation established when it planned, which *)
(* no other write can have disturbed since because the operation holds the  *)
(* root's lock.  OpInv states that per operation, and IInv carries it along. *)
(*                                                                         *)
(* Transfer uses the references only as References allows, for any members, *)
(* faults and interleaving of its jobs; so IInv holds of the composed       *)
(* system.  What the jobs promise one another rests on more: whose call is  *)
(* under way, what the engine pinned and the snapshot job gives up, and     *)
(* what the destination has when a stream starts.  TInv carries that along. *)
(***************************************************************************)
EXTENDS Transfer, WellFoundedInduction, TLAPS

\* A property name holds one value: no two proofs share stream and instant.
UniqueProofs ==
    \A p, q \in proofs : p.stream = q.stream /\ p.instant = q.instant => p = q

Own(p) == <<p.stream, p.instant>>

ProtectInv ==
    /\ op.proof \in Proof
    /\ op.asked \subseteq snapshots \cap CoveredSnapshots(op.proof)
    /\ Own(op.proof) \in op.asked
    /\ op.todo \subseteq op.asked
    /\ op.proof.recursive \/ op.asked = {Own(op.proof)}
    /\ \/ op.proof \in proofs
       \/ /\ Stored(op.proof.stream, op.proof.instant) = {}
          /\ holds \cap op.asked = {}

CheckpointInv ==
    /\ op.proof \in proofs
    /\ op.todo \subseteq Sources(op.proof)
    /\ ~CheckpointRefused(op.proof, op.asked)

CompleteInv ==
    /\ op.proof \in proofs
    /\ op.todo \subseteq bookmarks
    /\ ~CompleteRefused(op.proof)

ReleaseInv ==
    /\ op.proof \in Proof
    /\ Sources(op.proof) \subseteq op.todo
    /\ op.proof \in proofs \/ op.todo = {}

\* What the operation under way may rely on between two of its writes.
OpInv ==
    /\ op.kind = "none" => op = NoOp
    /\ op.kind = "protect" => ProtectInv
    /\ op.kind = "checkpoint" => CheckpointInv
    /\ op.kind = "complete" => CompleteInv
    /\ op.kind = "release" => ReleaseInv

IInv ==
    /\ TypeOK
    /\ HoldProved
    /\ BookmarkProved
    /\ UniqueProofs
    /\ OpInv

-----------------------------------------------------------------------------
(* Initial state, and the step that begins an operation.                   *)

\* The empty pool satisfies the inductive invariant.
LEMMA InitIInv == RefInit => IInv
<1> SUFFICES ASSUME RefInit PROVE IInv
  OBVIOUS
<1>1. TypeOK
  BY MaxInstantAssumption DEF RefInit, TypeOK, Op, NoOp
<1>2. OpInv
  BY DEF RefInit, OpInv, NoOp
<1> QED
  BY <1>1, <1>2 DEF RefInit, IInv, HoldProved, BookmarkProved, UniqueProofs

\* Everything but op is as before: the parts of the invariant about ZFS stand.
LEMMA ZfsUnchanged ==
    ASSUME IInv, UNCHANGED zfs, op' \in Op, OpInv'
    PROVE  IInv'
BY Zenon DEF IInv, zfs, TypeOK, HoldProved, BookmarkProved, UniqueProofs, CoveredSnapshots, Covers

\* Ending an operation, finished or not, keeps the invariant.
LEMMA EndIInv ==
    ASSUME IInv, UNCHANGED zfs, op' = NoOp
    PROVE  IInv'
BY ZfsUnchanged DEF NoOp, Op, OpInv

\* A new snapshot disturbs nothing: no operation is under way.
LEMMA CreateIInv ==
    ASSUME IInv, NEW ds \in SUBSET Dataset, CreateSnapshot(ds)
    PROVE  IInv'
<1>1. TypeOK'
  BY MaxInstantAssumption DEF IInv, TypeOK, CreateSnapshot, Snapshot, Instant
<1>2. OpInv'
  BY DEF CreateSnapshot, OpInv, NoOp
<1> QED
  BY Zenon, <1>1, <1>2 DEF IInv, CreateSnapshot, HoldProved, BookmarkProved, UniqueProofs,
                    CoveredSnapshots, Covers

\* ProtectSet starts with everything it asks for covered by the proof it found
\* or is about to write.
LEMMA ProtectIInv ==
    ASSUME IInv, NEW stream \in Dataset, NEW ds \in SUBSET Dataset, NEW i \in Instant,
           ProtectSet(stream, ds, i)
    PROVE  IInv'
<1>1. PICK p \in Proof :
        /\ IF Stored(stream, i) = {} THEN p = Requested(stream, ds, i)
                                     ELSE p \in Stored(stream, i)
        /\ Begin("protect", p, ds \X {i}, (ds \X {i}) \ holds)
  BY DEF ProtectSet
<1>2. /\ stream \in ds
      /\ ds \subseteq Beneath[stream]
      /\ ~ProtectRefused(stream, ds, i)
  BY DEF ProtectSet
<1>3. p.stream = stream /\ p.instant = i
  BY <1>1 DEF Requested, Stored
<1>4. p.recursive \/ ds = {stream}
  <2>1. CASE Stored(stream, i) = {}
    <3>1. p = [stream |-> stream, instant |-> i, recursive |-> (ds # {stream})]
      BY <2>1, <1>1 DEF Requested
    <3>2. p.recursive = (ds # {stream})
      BY <3>1
    <3> QED
      BY <3>2, Zenon
  <2>2. CASE Stored(stream, i) # {}
    <3>1. p \in Stored(stream, i) /\ ~ConflictingProof(stream, ds, i)
      BY <2>2, <1>1, <1>2 DEF ProtectRefused
    <3>2. CASE p = [stream |-> stream, instant |-> i, recursive |-> (ds # {stream})]
      <4>1. p.recursive = (ds # {stream})
        BY <3>2
      <4> QED
        BY <4>1, Zenon
    <3>3. CASE p # Requested(stream, ds, i)
      BY <3>1, <3>3, Zenon DEF ConflictingProof
    <3> QED
      BY <3>2, <3>3 DEF Requested
  <2> QED
    BY <2>1, <2>2
<1>5. ds \X {i} \subseteq snapshots \cap CoveredSnapshots(p)
  BY <1>2, <1>3, <1>4 DEF ProtectRefused, CoveredSnapshots, Covers, Snapshot
<1>6. p \in proofs \/ (Stored(stream, i) = {} /\ holds \cap (ds \X {i}) = {})
  BY <1>1, <1>2 DEF ProtectRefused, UnprovenHold, Stored
<1>7. /\ op' = [kind |-> "protect", proof |-> p, asked |-> ds \X {i},
                todo |-> (ds \X {i}) \ holds]
      /\ UNCHANGED zfs
  BY <1>1 DEF Begin
<1>8. op' \in Op
  BY <1>7 DEF Op, Snapshot
<1>9. ProtectInv'
  <2>1. Own(p) \in ds \X {i}
    BY <1>2, <1>3 DEF Own
  <2>2. p.recursive \/ ds \X {i} = {Own(p)}
    BY <1>3, <1>4 DEF Own
  <2> QED
    BY <1>3, <1>5, <1>6, <1>7, <2>1, <2>2
    DEF ProtectInv, Own, zfs, CoveredSnapshots, Covers, Stored
<1>10. OpInv'
  BY <1>7, <1>9 DEF OpInv
<1> QED
  BY <1>7, <1>8, <1>10, ZfsUnchanged

\* CheckpointSet starts with nothing to write but sources of a stored proof.
LEMMA CheckpointIInv ==
    ASSUME IInv, NEW p \in proofs, NEW verified \in SUBSET (holds \cup bookmarks),
           CheckpointSet(p, verified)
    PROVE  IInv'
<1>1. /\ op' = [kind |-> "checkpoint", proof |-> p, asked |-> verified,
                todo |-> Sources(p) \ bookmarks]
      /\ UNCHANGED zfs
      /\ ~CheckpointRefused(p, verified)
  BY DEF CheckpointSet, Begin
<1>2. op' \in Op
  BY <1>1 DEF IInv, TypeOK, Op, Sources
<1>3. OpInv'
  BY <1>1 DEF OpInv, CheckpointInv, CheckpointRefused, Sources, CoveredSnapshots, Covers, zfs
<1> QED
  BY <1>1, <1>2, <1>3, ZfsUnchanged

\* ReleaseCompletedHold starts with every hold it may release bookmarked.
LEMMA CompleteIInv ==
    ASSUME IInv, NEW p \in proofs, ReleaseCompletedHold(p)
    PROVE  IInv'
<1>1. /\ op' = [kind |-> "complete", proof |-> p, asked |-> {},
                todo |-> Sources(p) \cap holds]
      /\ UNCHANGED zfs
      /\ ~CompleteRefused(p)
  BY DEF ReleaseCompletedHold, Begin
<1>2. op' \in Op
  BY <1>1 DEF IInv, TypeOK, Op, Sources
<1>3. OpInv'
  BY <1>1 DEF OpInv, CompleteInv, CompleteRefused, Sources, CoveredSnapshots, Covers, zfs
<1> QED
  BY <1>1, <1>2, <1>3, ZfsUnchanged

\* ReleaseReference starts with every hold and bookmark of its proof to remove.
LEMMA ReleaseIInv ==
    ASSUME IInv, NEW p \in proofs, ReleaseReference(p)
    PROVE  IInv'
<1>1. /\ op' = [kind |-> "release", proof |-> p, asked |-> {}, todo |-> Sources(p)]
      /\ UNCHANGED zfs
  BY DEF ReleaseReference, Begin
<1>2. op' \in Op
  BY <1>1 DEF IInv, TypeOK, Op, Sources
<1>3. OpInv'
  BY <1>1 DEF OpInv, ReleaseInv, Sources, CoveredSnapshots, Covers, zfs, IInv, TypeOK
<1> QED
  BY <1>1, <1>2, <1>3, ZfsUnchanged

\* A prune claims nothing about references.
LEMMA PruneIInv ==
    ASSUME IInv, NEW d \in Dataset, NEW chosen \in SUBSET snapshots, Prune(d, chosen)
    PROVE  IInv'
<1>1. /\ op' = [kind |-> "prune", proof |-> NoProof, asked |-> chosen, todo |-> chosen]
      /\ UNCHANGED zfs
  BY DEF Prune, Begin
<1>2. op' \in Op
  BY <1>1 DEF IInv, TypeOK, Op
<1>3. OpInv'
  BY <1>1 DEF OpInv
<1> QED
  BY <1>1, <1>2, <1>3, ZfsUnchanged

-----------------------------------------------------------------------------
(* The writes.                                                             *)

\* Writing the proof adds one under a name that was free.
LEMMA WriteProofIInv ==
    ASSUME IInv, WriteProof
    PROVE  IInv'
<1>1. /\ op.kind = "protect" /\ op' = op
      /\ op.proof \notin proofs
      /\ proofs' = proofs \cup {op.proof}
      /\ UNCHANGED <<taken, snapshots, holds, bookmarks>>
  BY DEF WriteProof
<1>2. ProtectInv
  BY <1>1 DEF IInv, OpInv
<1>3. TypeOK'
  BY <1>1, <1>2 DEF IInv, TypeOK, ProtectInv
<1>4. HoldProved' /\ BookmarkProved'
  BY Zenon, <1>1 DEF IInv, HoldProved, BookmarkProved, CoveredSnapshots, Covers
<1>5. UniqueProofs'
  BY <1>1, <1>2 DEF IInv, UniqueProofs, ProtectInv, Stored
<1>6. ProtectInv'
  BY <1>1, <1>2 DEF ProtectInv, Own, CoveredSnapshots, Covers
<1> QED
  BY <1>1, <1>3, <1>4, <1>5, <1>6 DEF IInv, OpInv

\* A hold is placed under a stored proof.
LEMMA HoldIInv ==
    ASSUME IInv, Hold
    PROVE  IInv'
<1>1. PICK x \in op.todo :
        /\ holds' = holds \cup {x}
        /\ op' = [op EXCEPT !.todo = @ \ {x}]
  BY DEF Hold
<1>2. /\ op.kind = "protect" /\ op.proof \in proofs
      /\ UNCHANGED <<taken, snapshots, bookmarks, proofs>>
  BY DEF Hold
<1>3. ProtectInv
  BY <1>2 DEF IInv, OpInv
<1>4. op \in Op
  BY DEF IInv, TypeOK
<1>5. /\ op'.kind = op.kind /\ op'.proof = op.proof /\ op'.asked = op.asked
      /\ op'.todo = op.todo \ {x}
      /\ op' \in Op
  BY <1>1, <1>4 DEF Op
<1>6. x \in CoveredSnapshots(op.proof)
  BY <1>1, <1>3 DEF ProtectInv
<1>7. TypeOK'
  BY <1>1, <1>2, <1>5, <1>6 DEF IInv, TypeOK, CoveredSnapshots
<1>8. HoldProved' /\ BookmarkProved'
  BY ZenonT(60), <1>1, <1>2, <1>6 DEF IInv, HoldProved, BookmarkProved, CoveredSnapshots, Covers
<1>9. ProtectInv'
  BY <1>2, <1>3, <1>5 DEF ProtectInv, Own, CoveredSnapshots, Covers
<1> QED
  BY <1>2, <1>5, <1>7, <1>8, <1>9 DEF IInv, OpInv, UniqueProofs

\* A bookmark is made of a source that a stored proof covers.
LEMMA BookmarkIInv ==
    ASSUME IInv, Bookmark
    PROVE  IInv'
<1>1. PICK x \in op.todo :
        /\ bookmarks' = bookmarks \cup {x}
        /\ op' = [op EXCEPT !.todo = @ \ {x}]
  BY Zenon DEF Bookmark
<1>2. /\ op.kind = "checkpoint"
      /\ UNCHANGED <<taken, snapshots, holds, proofs>>
  BY DEF Bookmark
<1>3. CheckpointInv
  BY <1>2 DEF IInv, OpInv
<1>4. op \in Op
  BY DEF IInv, TypeOK
<1>5. /\ op'.kind = op.kind /\ op'.proof = op.proof /\ op'.asked = op.asked
      /\ op'.todo = op.todo \ {x}
      /\ op' \in Op
  BY <1>1, <1>4 DEF Op
<1>6. x \in CoveredSnapshots(op.proof) /\ x \in Sources(op.proof)
  BY <1>1, <1>3 DEF CheckpointInv, Sources
<1>7. TypeOK'
  BY <1>1, <1>2, <1>5, <1>6 DEF IInv, TypeOK, CoveredSnapshots
<1>8. HoldProved' /\ BookmarkProved'
  BY ZenonT(60), <1>1, <1>2, <1>3, <1>6
  DEF IInv, HoldProved, BookmarkProved, CoveredSnapshots, Covers, CheckpointInv
<1>9. Sources(op.proof)' = Sources(op.proof)
  BY <1>1, <1>2, <1>5, <1>6 DEF Sources, CoveredSnapshots, Covers
<1>10. CheckpointInv'
  BY <1>1, <1>2, <1>3, <1>5, <1>9 DEF CheckpointInv, CheckpointRefused
<1> QED
  BY <1>2, <1>5, <1>7, <1>8, <1>10 DEF IInv, OpInv, UniqueProofs

\* A completed hold goes, and its bookmark stays.
LEMMA ReleaseHoldIInv ==
    ASSUME IInv, ReleaseHold
    PROVE  IInv'
<1>1. PICK x \in op.todo :
        /\ holds' = holds \ {x}
        /\ op' = [op EXCEPT !.todo = @ \ {x}]
  BY DEF ReleaseHold
<1>2. /\ op.kind = "complete"
      /\ UNCHANGED <<taken, snapshots, bookmarks, proofs>>
  BY DEF ReleaseHold
<1>3. CompleteInv
  BY <1>2 DEF IInv, OpInv
<1>4. op \in Op
  BY DEF IInv, TypeOK
<1>5. /\ op'.kind = op.kind /\ op'.proof = op.proof /\ op'.asked = op.asked
      /\ op'.todo = op.todo \ {x}
      /\ op' \in Op
  BY <1>1, <1>4 DEF Op
<1>6. TypeOK'
  BY <1>1, <1>2, <1>5 DEF IInv, TypeOK
<1>7. HoldProved' /\ BookmarkProved'
  BY Zenon, <1>1, <1>2 DEF IInv, HoldProved, BookmarkProved, CoveredSnapshots, Covers
<1>8. CompleteInv'
  BY <1>1, <1>2, <1>3, <1>5
  DEF CompleteInv, CompleteRefused, Sources, CoveredSnapshots, Covers
<1> QED
  BY <1>2, <1>5, <1>6, <1>7, <1>8 DEF IInv, OpInv, UniqueProofs

\* A released proof's bookmark goes; what is still held stays to be done.
LEMMA DestroyBookmarkIInv ==
    ASSUME IInv, DestroyBookmark
    PROVE  IInv'
<1>1. PICK x \in op.todo \cap bookmarks :
        /\ bookmarks' = bookmarks \ {x}
        /\ op' = [op EXCEPT !.todo = IF x \in holds THEN @ ELSE @ \ {x}]
  BY Zenon DEF DestroyBookmark
<1>2. /\ op.kind = "release"
      /\ UNCHANGED <<taken, snapshots, holds, proofs>>
  BY DEF DestroyBookmark
<1>3. ReleaseInv
  BY <1>2 DEF IInv, OpInv
<1>4. op \in Op
  BY DEF IInv, TypeOK
<1>5. /\ op'.kind = op.kind /\ op'.proof = op.proof /\ op'.asked = op.asked
      /\ op'.todo = IF x \in holds THEN op.todo ELSE op.todo \ {x}
      /\ op' \in Op
  BY <1>1, <1>4 DEF Op
<1>6. TypeOK'
  BY <1>1, <1>2, <1>5 DEF IInv, TypeOK
<1>7. HoldProved' /\ BookmarkProved'
  BY Zenon, <1>1, <1>2 DEF IInv, HoldProved, BookmarkProved, CoveredSnapshots, Covers
<1>8. ReleaseInv'
  BY <1>1, <1>2, <1>3, <1>5 DEF ReleaseInv, Sources, CoveredSnapshots, Covers
<1> QED
  BY <1>2, <1>5, <1>6, <1>7, <1>8 DEF IInv, OpInv, UniqueProofs

\* A released proof's hold goes once its bookmark has.
LEMMA ReleaseSourceHoldIInv ==
    ASSUME IInv, ReleaseSourceHold
    PROVE  IInv'
<1>1. PICK x \in op.todo \ bookmarks :
        /\ holds' = holds \ {x}
        /\ op' = [op EXCEPT !.todo = @ \ {x}]
  BY Zenon DEF ReleaseSourceHold
<1>2. /\ op.kind = "release"
      /\ UNCHANGED <<taken, snapshots, bookmarks, proofs>>
  BY DEF ReleaseSourceHold
<1>3. ReleaseInv
  BY <1>2 DEF IInv, OpInv
<1>4. op \in Op
  BY DEF IInv, TypeOK
<1>5. /\ op'.kind = op.kind /\ op'.proof = op.proof /\ op'.asked = op.asked
      /\ op'.todo = op.todo \ {x}
      /\ op' \in Op
  BY <1>1, <1>4 DEF Op
<1>6. TypeOK'
  BY <1>1, <1>2, <1>5 DEF IInv, TypeOK
<1>7. HoldProved' /\ BookmarkProved'
  BY Zenon, <1>1, <1>2 DEF IInv, HoldProved, BookmarkProved, CoveredSnapshots, Covers
<1>8. ReleaseInv'
  BY <1>1, <1>2, <1>3, <1>5 DEF ReleaseInv, Sources, CoveredSnapshots, Covers
<1> QED
  BY <1>2, <1>5, <1>6, <1>7, <1>8 DEF IInv, OpInv, UniqueProofs

\* The proof goes last: it has no hold or bookmark left to back.
LEMMA InheritIInv ==
    ASSUME IInv, InheritProof
    PROVE  IInv'
<1>1. /\ op.kind = "release" /\ op.todo = {} /\ op' = op
      /\ proofs' = proofs \ {op.proof}
      /\ UNCHANGED <<taken, snapshots, holds, bookmarks>>
  BY DEF InheritProof
<1>2. ReleaseInv
  BY <1>1 DEF IInv, OpInv
<1>3. \A x \in holds \cup bookmarks : x \notin CoveredSnapshots(op.proof)
  BY <1>1, <1>2 DEF ReleaseInv, Sources
<1>4. TypeOK'
  BY <1>1 DEF IInv, TypeOK
<1>5. HoldProved' /\ BookmarkProved'
  <2>1. \A x \in holds \cup bookmarks, p \in proofs :
          x \in CoveredSnapshots(p) => p \in proofs'
    BY <1>1, <1>3
  <2> QED
    BY <1>1, <2>1 DEF IInv, HoldProved, BookmarkProved
<1>6. ReleaseInv'
  BY <1>1, <1>2 DEF ReleaseInv, Sources, CoveredSnapshots, Covers
<1> QED
  BY <1>1, <1>4, <1>5, <1>6 DEF IInv, OpInv, UniqueProofs

\* Destroying a snapshot touches no reference.
LEMMA DestroyIInv ==
    ASSUME IInv, DestroySnapshot
    PROVE  IInv'
<1>1. PICK x \in op.todo \cap Prunable :
        /\ snapshots' = snapshots \ {x}
        /\ op' = [op EXCEPT !.todo = @ \ {x}]
  BY Zenon DEF DestroySnapshot
<1>2. /\ op.kind = "prune"
      /\ UNCHANGED <<taken, holds, bookmarks, proofs>>
  BY DEF DestroySnapshot
<1>3. op \in Op
  BY DEF IInv, TypeOK
<1>4. op'.kind = "prune" /\ op' \in Op
  BY <1>1, <1>2, <1>3 DEF Op
<1>5. TypeOK'
  BY <1>1, <1>2, <1>4 DEF IInv, TypeOK
<1> QED
  BY Zenon, <1>2, <1>4, <1>5
  DEF IInv, OpInv, HoldProved, BookmarkProved, UniqueProofs, CoveredSnapshots, Covers

-----------------------------------------------------------------------------
(* The theorems.                                                           *)

\* Every step keeps the inductive invariant.
LEMMA StepIInv == IInv /\ [RefNext]_refVars => IInv'
<1> SUFFICES ASSUME IInv, [RefNext]_refVars PROVE IInv'
  OBVIOUS
<1>1. CASE Call
  BY <1>1, CreateIInv, ProtectIInv, CheckpointIInv, CompleteIInv, ReleaseIInv, PruneIInv
  DEF Call
<1>2. CASE Write
  BY <1>2, WriteProofIInv, HoldIInv, BookmarkIInv, ReleaseHoldIInv, DestroyBookmarkIInv,
     ReleaseSourceHoldIInv, InheritIInv, DestroyIInv
  DEF Write
<1>3. CASE Return
  BY <1>3, EndIInv DEF Return
<1>4. CASE Abort
  BY <1>4, EndIInv DEF Abort
<1>5. CASE UNCHANGED refVars
  BY <1>5, ZenonT(60) DEF IInv, refVars, TypeOK, HoldProved, BookmarkProved, UniqueProofs, OpInv,
     ProtectInv, CheckpointInv, CompleteInv, ReleaseInv, Own, Stored, Sources,
     CoveredSnapshots, Covers, CheckpointRefused, CompleteRefused
<1> QED
  BY <1>1, <1>2, <1>3, <1>4, <1>5 DEF RefNext

\* The inductive invariant holds in every reachable state.
THEOREM RefInvariant == RefSpec => []IInv
BY InitIInv, StepIInv, PTL DEF RefSpec

\* Type correctness of the recovery references.
THEOREM RefTypeOK == RefSpec => []TypeOK
BY RefInvariant, PTL DEF IInv

\* Every hold of the target is backed by a proof, after any interruption.
THEOREM HoldsAreProved == RefSpec => []HoldProved
BY RefInvariant, PTL DEF IInv

\* Every cursor bookmark of the target is backed by a proof.
THEOREM BookmarksAreProved == RefSpec => []BookmarkProved
BY RefInvariant, PTL DEF IInv

\* What the inductive invariant says of the operation under way is that its
\* call would be accepted again.
LEMMA IInvRetryable == IInv => Retryable
<1> SUFFICES ASSUME IInv PROVE Retryable
  OBVIOUS
<1>1. CASE op.kind = "protect"
  <2> DEFINE p == op.proof
             ds == {x[1] : x \in op.asked}
  <2>1. ProtectInv
    BY <1>1 DEF IInv, OpInv
  <2>2. ds \X {p.instant} \subseteq op.asked
    BY <2>1 DEF ProtectInv, CoveredSnapshots, Snapshot
  <2>3. Stored(p.stream, p.instant) \subseteq {p}
    BY <2>1 DEF ProtectInv, IInv, UniqueProofs, Stored
  <2>4. p.recursive \/ p = Requested(p.stream, ds, p.instant)
    <3>1. CASE ~p.recursive
      <4>1. ds = {p.stream}
        BY <2>1, <3>1 DEF ProtectInv, Own
      <4>2. p = [stream |-> p.stream, instant |-> p.instant, recursive |-> p.recursive]
        BY <2>1 DEF ProtectInv, Proof
      <4>3. p.recursive = FALSE
        BY <2>1, <3>1, Zenon DEF ProtectInv, Proof
      <4>4. (ds # {p.stream}) = FALSE
        BY <4>1
      <4> QED
        BY <4>2, <4>3, <4>4, Zenon DEF Requested
    <3> QED
      BY <3>1
  <2>5. ~ConflictingProof(p.stream, ds, p.instant)
    BY <2>3, <2>4 DEF ConflictingProof
  <2>6. ~UnprovenHold(p.stream, ds, p.instant)
    BY <2>1, <2>2 DEF ProtectInv, UnprovenHold, Stored
  <2> QED
    BY <1>1, <2>1, <2>2, <2>5, <2>6 DEF Retryable, ProtectRefused, ProtectInv
<1>2. CASE op.kind = "checkpoint"
  BY <1>2 DEF IInv, OpInv, CheckpointInv, Retryable
<1>3. CASE op.kind = "complete"
  BY <1>3 DEF IInv, OpInv, CompleteInv, Retryable
<1>4. CASE op.kind = "release"
  BY <1>4 DEF IInv, OpInv, ReleaseInv, Retryable, Finished
<1>5. CASE op.kind \notin {"protect", "checkpoint", "complete", "release"}
  BY <1>5 DEF Retryable
<1> QED
  BY <1>1, <1>2, <1>3, <1>4, <1>5

\* An interrupted operation never makes its own retry refuse.
THEOREM RetriesAreAccepted == RefSpec => []Retryable
BY RefInvariant, IInvRetryable, PTL

\* Outside ReleaseReference every step keeps each source held or bookmarked.
LEMMA StepSourceKept ==
    ASSUME IInv, [RefNext]_refVars
    PROVE  [op.kind # "release" =>
              \A x \in holds \cup bookmarks : x \in holds' \cup bookmarks']_refVars
<1> SUFFICES ASSUME RefNext, op.kind # "release"
             PROVE  \A x \in holds \cup bookmarks : x \in holds' \cup bookmarks'
  OBVIOUS
<1>1. CASE Call
  BY <1>1 DEF Call, CreateSnapshot, ProtectSet, CheckpointSet, ReleaseCompletedHold,
     ReleaseReference, Prune, Begin, zfs
<1>2. CASE ReleaseHold
  BY <1>2 DEF ReleaseHold, IInv, OpInv, CompleteInv
<1>3. CASE WriteProof \/ Hold \/ Bookmark \/ DestroySnapshot
  BY <1>3 DEF WriteProof, Hold, Bookmark, DestroySnapshot
<1>4. CASE Return \/ Abort
  BY <1>4 DEF Return, Abort, zfs
<1> QED
  BY <1>1, <1>2, <1>3, <1>4
  DEF RefNext, Write, DestroyBookmark, ReleaseSourceHold, InheritProof

\* A stored proof's sources outlive everything but the proof's own release.
THEOREM SourcesAreKept == RefSpec => SourceKept
BY RefInvariant, StepSourceKept, PTL DEF RefSpec, SourceKept

-----------------------------------------------------------------------------
(* Transfer.                                                                 *)

\* At most one call of the service is under way, and it is the one its owner
\* is waiting for.
DaemonCall ==
    \/ daemon.pc = "idle" /\ op.kind = "prune"
    \/ daemon.pc = "protect" /\ op.kind = "protect" /\ daemon.stream \in Dataset
    \/ /\ daemon.pc = "supersede" /\ op.kind = "release"
       /\ op.proof.stream = daemon.stream /\ op.proof.instant = daemon.victim

EngineWaits ==
    \/ /\ engine.pc = "endpoint" /\ op.kind = "protect"
       /\ op.asked = {<<engine.stream, engine.plan.endpoint>>}
    \/ engine.pc = "base" /\ op.kind = "protect"
    \/ engine.pc = "checkpoint" /\ op.kind = "checkpoint"
    \/ engine.pc = "complete" /\ op.kind = "complete"
    \/ engine.pc = "retire" /\ op.kind = "release" /\ op.proof \in engine.retiring

CallInv ==
    /\ owner = "none" => op = NoOp
    /\ owner = "daemon" => DaemonCall
    /\ owner = "engine" => EngineWaits
    /\ op.kind = "protect" => op.asked \ op.todo \subseteq holds
    /\ op.kind = "release" => op.todo \subseteq CoveredSnapshots(op.proof)

\* Only the transfer that preceded these jobs left a recursive proof.
ProofInv ==
    /\ \A p \in proofs : p.recursive => Replicated /\ p.instant = 1
    /\ op.proof.recursive => Replicated /\ op.proof.instant = 1

\* Reservations are exactly what the running transfer pinned.
PinInv ==
    /\ active = engine.pin
    /\ engine.pc = "idle" => engine = EngineIdle
    /\ engine.pc # "idle" /\ engine.pc # "next" => engine.stream \in Dataset
    /\ engine.pc \notin {"checkpoint", "complete", "retire"} => engine.retiring = {}
    /\ \A p \in engine.retiring : p.stream = engine.stream

\* What a snapshot job gives up is neither pending nor reserved, and it took
\* every snapshot that is pending.
SupersedeInv ==
    /\ Replicated => taken # 0 /\ (daemon.pc # "idle" => taken # 1)
    /\ \A d \in Dataset : Replicated => jobs[d] # 1
    /\ daemon.pc \in {"coalesce", "supersede"} => daemon.stream \in Dataset
    /\ daemon.pc = "supersede" =>
         /\ daemon.victim # 0 /\ (Replicated => daemon.victim # 1)
         /\ jobs[daemon.stream] # daemon.victim
         /\ engine.pin[daemon.stream] # daemon.victim

Prepared == {"base", "recheck", "send", "verify", "checkpoint"}

HeldInv ==
    engine.pc \in Prepared /\ engine.plan.mode # "resume"
    /\ engine.pin[engine.stream] = engine.plan.endpoint
    => <<engine.stream, engine.plan.endpoint>> \in holds

EndpointInv ==
    engine.pc \in Prepared \cup {"endpoint"} => engine.plan.endpoint # 0

\* What is to arrive is newer than all the destination has.
ReceiveInv ==
    /\ \A x \in received : token[x[1]] # 0 => x[2] < token[x[1]]
    /\ engine.pc = "send" /\ engine.plan.mode # "resume" =>
         /\ engine.plan.base < engine.plan.endpoint
         /\ \A x \in received : x[1] = engine.stream => x[2] =< engine.plan.base

TInv ==
    /\ IInv /\ TransferTypeOK
    /\ CallInv /\ ProofInv /\ PinInv /\ SupersedeInv /\ HeldInv /\ EndpointInv /\ ReceiveInv

-----------------------------------------------------------------------------

\* Both initial states, an empty pool and one left by send -R, satisfy the
\* inductive invariant of References.
LEMMA TransferInitIInv == Init => IInv
<1> SUFFICES ASSUME Init PROVE IInv
  OBVIOUS
<1> DEFINE root == CHOOSE d \in Dataset : Beneath[d] = Dataset
<1>1. CASE ~Replicated
  <2>1. RefInit
    BY <1>1 DEF Init, RefInit
  <2> QED
    BY <2>1, InitIInv
<1>2. CASE Replicated
  <2>1. root \in Dataset /\ Beneath[root] = Dataset /\ 1 \in Instant
    BY <1>2, TransferAssumption, MaxInstantAssumption DEF Instant
  <2> DEFINE p == Requested(root, Dataset, 1)
  <2>2. /\ taken = 1 /\ op = NoOp /\ proofs = {p}
        /\ snapshots = Dataset \X {1} /\ holds = Dataset \X {1} /\ bookmarks = Dataset \X {1}
    BY <1>2 DEF Init
  <2>3. p \in Proof
    BY <2>1, Zenon DEF Requested, Proof
  <2>4. Covers(p) = Dataset /\ p.instant = 1
    <3>1. p.stream = root /\ p.instant = 1 /\ p.recursive = (Dataset # {root})
      BY DEF Requested
    <3>2. CASE p.recursive
      BY <2>1, <3>1, <3>2 DEF Covers
    <3>3. CASE ~p.recursive
      <4>1. Dataset = {root}
        BY <3>1, <3>3, Zenon
      <4> QED
        BY Zenon, <3>1, <3>3, <4>1 DEF Covers
    <3> QED
      BY <3>2, <3>3
  <2>5. Dataset \X {1} \subseteq CoveredSnapshots(p)
    BY Zenon, <2>1, <2>4 DEF CoveredSnapshots, Snapshot
  <2>6. TypeOK
    BY <2>1, <2>2, <2>3, MaxInstantAssumption DEF TypeOK, Snapshot, Op, NoOp, Instant
  <2>7. OpInv
    BY <2>2 DEF OpInv, NoOp
  <2> QED
    BY <2>2, <2>5, <2>6, <2>7 DEF IInv, HoldProved, BookmarkProved, UniqueProofs
<1> QED
  BY <1>1, <1>2

-----------------------------------------------------------------------------
(* The calls of the service.                                               *)

\* Protecting one snapshot, by a snapshot job or by the engine.
LEMMA ProtectCalls ==
    ASSUME TypeOK, NEW d, NEW i, ProtectSet(d, {d}, i)
    PROVE  RefNext
<1>1. <<d, i>> \in snapshots
  BY DEF ProtectSet, ProtectRefused
<1>2. d \in Dataset /\ i \in Instant
  BY <1>1 DEF TypeOK, Snapshot
<1> QED
  BY <1>2 DEF RefNext, Call

\* Checkpointing, whatever is passed as verified.
LEMMA CheckpointCalls ==
    ASSUME NEW p, NEW verified, CheckpointSet(p, verified)
    PROVE  RefNext
<1>1. p \in proofs /\ verified \subseteq holds \cup bookmarks
  BY DEF CheckpointSet, CheckpointRefused, Sources
<1> QED
  BY <1>1 DEF RefNext, Call

\* Completing and releasing name a stored proof.
LEMMA ReleaseCalls ==
    ASSUME NEW p, ReleaseCompletedHold(p) \/ ReleaseReference(p)
    PROVE  RefNext
<1>1. p \in proofs
  BY DEF ReleaseCompletedHold, CompleteRefused, ReleaseReference
<1> QED
  BY <1>1 DEF RefNext, Call

\* Every step of the composed system does to the references what one step of
\* the lifecycle service does, or nothing.
LEMMA StepRefNext ==
    ASSUME IInv, Next
    PROVE  [RefNext]_refVars
<1>0. TypeOK
  BY DEF IInv
<1>1. ASSUME NEW ds \in SUBSET Dataset, SnapshotJob(ds)
      PROVE  RefNext
  BY <1>1 DEF SnapshotJob, RefNext, Call
<1>2. CASE ProtectCreated
  BY <1>0, <1>2, ProtectCalls DEF ProtectCreated
<1>3. CASE ReleaseSupersededPending
  BY <1>3, ReleaseCalls DEF ReleaseSupersededPending
<1>4. ASSUME NEW d \in Dataset, NEW chosen \in SUBSET Prunable, PruneJob(d, chosen)
      PROVE  RefNext
  <2>1. chosen \in SUBSET snapshots
    BY DEF Prunable
  <2> QED
    BY <1>4, <2>1 DEF PruneJob, RefNext, Call
<1>5. CASE ProtectEndpoint \/ ProtectBase
  BY <1>0, <1>5, ProtectCalls DEF ProtectEndpoint, ProtectBase, EngineCall
<1>6. CASE Checkpoint
  BY <1>6, CheckpointCalls DEF Checkpoint, EngineCall
<1>7. CASE CompleteHold \/ Retire
  BY <1>7, ReleaseCalls DEF CompleteHold, Retire, EngineCall
<1>8. CASE LifecycleReturn \/ LifecycleWrite \/ LifecycleError
  BY Zenon, <1>8 DEF LifecycleReturn, LifecycleWrite, LifecycleError, RefNext
<1>9. CASE Crash
  <2>1. op' = NoOp /\ UNCHANGED zfs
    BY <1>9 DEF Crash
  <2>2. CASE op.kind = "none"
    BY <2>1, <2>2 DEF IInv, OpInv, refVars, zfs
  <2>3. CASE op.kind # "none"
    BY <2>1, <2>3 DEF RefNext, Return, Abort
  <2> QED
    BY <2>2, <2>3
<1>10. CASE Coalesce \/ BeginStreams \/ NextStream \/ FinishStreams \/ LoadAndPlan
            \/ Recheck \/ SendCompletes \/ SendFails \/ Verify \/ DestinationPrune
  BY Zenon, <1>10 DEF Coalesce, BeginStreams, NextStream, FinishStreams, LoadAndPlan, Recheck,
     SendCompletes, SendFails, Verify, DestinationPrune
<1> QED
  BY <1>1, <1>2, <1>3, <1>4, <1>5, <1>6, <1>7, <1>8, <1>9, <1>10 DEF Next

-----------------------------------------------------------------------------
(* The theorems.                                                           *)

\* The inductive invariant of the references holds of the composed system.
THEOREM TransferInvariant == Spec => []IInv
<1>1. IInv /\ [Next]_vars => IInv'
  <2> SUFFICES ASSUME IInv, [Next]_vars PROVE IInv'
    OBVIOUS
  <2>1. [RefNext]_refVars
    BY StepRefNext DEF vars, refVars
  <2> QED
    BY <2>1, StepIInv
<1> QED
  BY TransferInitIInv, <1>1, PTL DEF Spec

\* Refinement: Transfer changes the references only by steps of References.
THEOREM TransferRefSteps == Spec => RefSteps
<1>1. IInv /\ [Next]_vars => [UNCHANGED refVars \/ RefNext]_vars
  BY StepRefNext DEF vars
<1> QED
  BY TransferInvariant, <1>1, PTL DEF Spec, RefSteps

\* Whatever the jobs, the engine and their failures do, every hold of the
\* target is backed by a proof, and so is every checkpoint bookmark.
THEOREM TransferHoldsProved == Spec => [](HoldProved /\ BookmarkProved)
BY TransferInvariant, PTL DEF IInv

\* Whatever the jobs, the engine and their failures do, the operation under
\* way can be called again.
THEOREM TransferRetryable == Spec => []Retryable
BY TransferInvariant, IInvRetryable, PTL

-----------------------------------------------------------------------------
(* Plans.                                                                  *)

LEMMA LeastNatural ==
  ASSUME NEW T \in SUBSET Nat, T # {}
  PROVE  \E x \in T : \A y \in T : x <= y
<1> DEFINE R == OpToRel(<, Nat)
<1>1. IsWellFoundedOn(R, Nat)
  BY NatLessThanWellFounded, Zenon
<1>2. \A x, y \in Nat : y < x => <<y, x>> \in R
  BY DEF OpToRel
<1> HIDE DEF R
<1>3. PICK x \in T : \A y \in T : ~(<<y, x>> \in R)
  BY Zenon, <1>1, WFMin
<1>4. ASSUME NEW y \in T PROVE x <= y
  <2>1. x \in Nat /\ y \in Nat
    OBVIOUS
  <2>2. ~(y < x)
    BY <1>2, <1>3, <2>1, Zenon
  <2> QED
    BY <2>1, <2>2
<1> QED
  BY <1>4

\* A set of instants has a latest.
LEMMA LatestIs ==
  ASSUME NEW I \in SUBSET Instant, I # {}
  PROVE  Latest(I) \in I /\ \A j \in I : j =< Latest(I)
<1> DEFINE T == {MaxInstant - i : i \in I}
<1>0. \A i \in I : i \in Nat /\ i =< MaxInstant /\ MaxInstant - i \in Nat
  BY MaxInstantAssumption DEF Instant
<1>1. T \in SUBSET Nat /\ T # {}
  BY <1>0
<1>2. PICK x \in T : \A y \in T : x <= y
  BY Zenon, <1>1, LeastNatural
<1>3. PICK m \in I : x = MaxInstant - m
  BY <1>2
<1>4. ASSUME NEW j \in I PROVE j =< m
  <2>1. MaxInstant - m <= MaxInstant - j
    BY <1>2, <1>3, <1>4
  <2> QED
    BY <2>1, <1>0, MaxInstantAssumption
<1> QED
  BY <1>4, Zenon DEF Latest

\* What Build promises of the plan p of stream d.
PlanGood(p, d) ==
    /\ p \in Plan /\ p.endpoint \in Instant /\ p.mode \in {"up-to-date", "full", "incremental"}
    /\ p.mode # "up-to-date" =>
         /\ p.base < p.endpoint
         /\ \A x \in received : x[1] = d => x[2] =< p.base

LEMMA PlanOfIs ==
  ASSUME TransferTypeOK, NEW d, NEW e \in Instant, NEW base \in 0 .. MaxInstant,
         NEW mode \in {"up-to-date", "full", "incremental"}
  PROVE  /\ PlanOf(d, mode, e, base) \in Plan
         /\ PlanOf(d, mode, e, base).mode = mode
         /\ PlanOf(d, mode, e, base).endpoint = e
         /\ PlanOf(d, mode, e, base).base = base
<1>1. e \in 0 .. MaxInstant
  BY MaxInstantAssumption DEF Instant
<1>2. Carried(d, base, e) \subseteq Instant
  BY DEF Carried, InstantsOf, TransferTypeOK, TypeOK, Snapshot
<1>3. (base # 0 /\ ~SnapshotBase(d, e)) \in BOOLEAN
  BY Zenon
<1> DEFINE b == base # 0 /\ ~SnapshotBase(d, e)
           c == Carried(d, base, e)
           p == [mode |-> mode, endpoint |-> e, base |-> base, bookmark |-> b, expected |-> c]
<1>4. PlanOf(d, mode, e, base) = p
  BY DEF PlanOf
<1> HIDE DEF b, c
<1>5. b \in BOOLEAN /\ c \subseteq Instant
  BY <1>2, <1>3 DEF b, c
<1>6. p \in Plan /\ p.mode = mode /\ p.endpoint = e /\ p.base = base
  BY <1>1, <1>5 DEF Plan
<1> QED
  BY <1>4, <1>6

LEMMA BuildGood ==
  ASSUME TransferTypeOK, NEW d \in Dataset, NEW p \in Build(d)
  PROVE  PlanGood(p, d)
<1> DEFINE R == InstantsOf(received, d)
           latest == IF R = {} THEN 0 ELSE Latest(R)
<1>1. R \subseteq Instant /\ \A x \in received : x[1] = d => x[2] \in R
  BY DEF InstantsOf, TransferTypeOK, Snapshot
<1>2. PICK e \in Endpoints(d) :
        p \in CASE token[d] # 0                            -> {}
                [] token[d] = 0 /\ <<d, e>> \in received   -> {PlanOf(d, "up-to-date", e, 0)}
                [] ~DestinationExists(d)                   -> {PlanOf(d, "full", e, 0)}
                [] OTHER -> IF SnapshotBase(d, e) \/ BookmarkBase(d, e)
                            THEN {PlanOf(d, "incremental", e, latest)}
                            ELSE {}
  BY Zenon DEF Build
<1>3. e \in Instant /\ 0 \in 0 .. MaxInstant
  BY MaxInstantAssumption DEF Endpoints, InstantsOf, TransferTypeOK, TypeOK, Snapshot
<1>4. CASE p = PlanOf(d, "up-to-date", e, 0)
  BY <1>3, <1>4, PlanOfIs DEF PlanGood
<1>5. CASE p = PlanOf(d, "full", e, 0) /\ ~DestinationExists(d)
  <2>1. \A x \in received : x[1] # d
    BY <1>1, <1>5 DEF DestinationExists
  <2>2. 0 < e
    BY <1>3, MaxInstantAssumption DEF Instant
  <2> QED
    BY <1>3, <1>5, <2>1, <2>2, PlanOfIs DEF PlanGood
<1>6. CASE /\ p = PlanOf(d, "incremental", e, latest)
           /\ SnapshotBase(d, e) \/ BookmarkBase(d, e)
           /\ token[d] = 0 /\ DestinationExists(d)
  <2>1. R # {} /\ latest = Latest(R)
    BY <1>6 DEF DestinationExists
  <2>2. latest \in Instant /\ \A j \in R : j =< latest
    BY <1>1, <2>1, LatestIs
  <2>3. latest < e
    BY <1>6, <2>1 DEF SnapshotBase, BookmarkBase
  <2> HIDE DEF latest
  <2>4. latest \in 0 .. MaxInstant
    BY <2>2, MaxInstantAssumption DEF Instant
  <2> QED
    BY <1>1, <1>3, <1>6, <2>2, <2>3, <2>4, PlanOfIs DEF PlanGood
<1> QED
  BY <1>2, <1>4, <1>5, <1>6, Zenon

LEMMA ResumeGood ==
  ASSUME TransferTypeOK, NEW d \in Dataset, NEW p \in BuildResume(d)
  PROVE  p \in Plan /\ p.mode = "resume" /\ p.endpoint \in Instant
<1>1. PICK q \in ResumeProofs(d) :
        p = [mode |-> "resume", endpoint |-> q.instant, base |-> 0, bookmark |-> FALSE,
             expected |-> {q.instant}]
  BY DEF BuildResume
<1>2. q.instant \in Instant
  BY DEF ResumeProofs, HeldProofs, TransferTypeOK, TypeOK, Proof
<1>3. q.instant \in 0 .. MaxInstant /\ 0 \in 0 .. MaxInstant /\ {q.instant} \subseteq Instant
  BY <1>2, MaxInstantAssumption DEF Instant
<1> QED
  BY <1>1, <1>2, <1>3 DEF Plan

-----------------------------------------------------------------------------
(* What a step does to the engine.                                         *)

LEMMA ViewTyped == NoView \in View
  BY DEF NoView, View

LEMMA LoadTyped ==
  ASSUME TransferTypeOK, NEW d
  PROVE  Load(d) \in View
<1> DEFINE seen(set) == {x \in set : x[1] = d \/ Beneath[x[1]] = Dataset}
<1>1. /\ seen(snapshots) \subseteq Snapshot /\ seen(holds) \subseteq Snapshot
      /\ seen(bookmarks) \subseteq Snapshot /\ proofs \subseteq Proof
  BY Zenon DEF TransferTypeOK, TypeOK
<1> HIDE DEF seen
<1>2. [snapshots |-> seen(snapshots), holds |-> seen(holds),
       bookmarks |-> seen(bookmarks), proofs |-> proofs] \in View
  BY <1>1 DEF View
<1> QED
  BY <1>2 DEF Load, seen

LEMMA EngineIdleIs ==
  /\ EngineIdle \in Engine /\ EngineIdle.pc = "idle" /\ EngineIdle.pin = None
  /\ EngineIdle.retiring = {} /\ EngineIdle.done = None /\ EngineIdle.stream = "none"
  /\ EngineIdle.second = FALSE
<1>1. None \in [Dataset -> 0 .. MaxInstant]
  BY MaxInstantAssumption DEF None
<1>2. NoPlan \in Plan
  BY MaxInstantAssumption DEF NoPlan, Plan
<1>3. 1 \in 1 .. PreparationAttempts
  BY DEF PreparationAttempts
<1>4. NoView \in View
  BY ViewTyped
<1> HIDE DEF None, NoPlan, NoProof, PreparationAttempts
<1> QED
  BY ZenonT(60), <1>1, <1>2, <1>3, <1>4 DEF EngineIdle, Engine

\* The stream is over.
Ended == engine'.pc = "next" /\ engine'.pin = engine.pin /\ engine'.retiring = {}

\* A stream is about to be planned.
Turns == /\ engine'.pc = "plan" /\ engine'.pin = engine.pin /\ engine'.retiring = {}
         /\ engine'.stream \in Dataset

\* The stream goes on with the plan it has.
Goes(from, to) ==
    /\ engine.pc \in from /\ engine'.pc \in to
    /\ engine'.stream = engine.stream /\ engine'.pin = engine.pin /\ engine'.plan = engine.plan

OverOK(e) == e \in Engine /\ e.pc = "next" /\ e.pin = engine.pin /\ e.retiring = {}

LEMMA StreamOverIs ==
  ASSUME engine \in Engine, NEW done \in [Dataset -> 0 .. MaxInstant], NEW skipped
  PROVE  OverOK(StreamOver(done, skipped))
<1>1. /\ engine.pin \in [Dataset -> 0 .. MaxInstant] /\ engine.left \in SUBSET Dataset
      /\ engine.incremental \in Incremental \cup {"none"}
  BY DEF Engine
<1>2. engine.left \ skipped \in SUBSET Dataset
  BY <1>1
<1> DEFINE left == engine.left \ skipped
           a == [EngineIdle EXCEPT !.pc = "next", !.incremental = engine.incremental]
           b == [a EXCEPT !.pin = engine.pin, !.done = done]
<1>3. StreamOver(done, skipped) = [b EXCEPT !.left = left]
  BY EngineIdleIs DEF StreamOver, Engine
<1>4. left \in SUBSET Dataset
  BY <1>2
<1> HIDE DEF left
<1>5. a \in Engine /\ a.pc = "next" /\ a.retiring = {}
  BY ZenonT(60), <1>1, EngineIdleIs DEF Engine
<1> HIDE DEF a
<1>6. b \in Engine /\ b.pc = "next" /\ b.retiring = {} /\ b.pin = engine.pin
  BY ZenonT(60), <1>1, <1>5 DEF Engine
<1> HIDE DEF b
<1> QED
  BY <1>3, <1>4, <1>6 DEF Engine, OverOK

LEMMA FailedEnds ==
  ASSUME engine \in Engine, StreamFailed
  PROVE  Ended /\ engine' \in Engine
<1>1. engine.done \in [Dataset -> 0 .. MaxInstant]
  BY DEF Engine
<1>2. OverOK(engine')
  BY <1>1, StreamOverIs, Zenon DEF StreamFailed
<1> QED
  BY <1>2 DEF OverOK, Ended

LEMMA VerifiedEnds ==
  ASSUME engine \in Engine, engine.stream \in Dataset, StreamVerified
  PROVE  (Ended \/ Turns) /\ engine' \in Engine
<1>1. engine.done \in [Dataset -> 0 .. MaxInstant] /\ engine.plan.endpoint \in 0 .. MaxInstant
  BY DEF Engine, Plan
<1> DEFINE d == engine.stream
           done == [engine.done EXCEPT ![d] = engine.plan.endpoint]
           e == StreamOver(engine.done, {})
<1>2. done \in [Dataset -> 0 .. MaxInstant]
  BY <1>1
<1> HIDE DEF done
<1>3. CASE engine' = StreamOver(done, {d})
  <2>1. OverOK(engine')
    BY <1>2, <1>3, StreamOverIs, Zenon
  <2> QED
    BY <2>1 DEF OverOK, Ended
<1>4. CASE engine' = [e EXCEPT !.pc = "plan", !.stream = d, !.second = TRUE]
  <2>1. e \in Engine /\ e.pin = engine.pin /\ e.retiring = {}
    BY <1>1, StreamOverIs, Zenon DEF OverOK
  <2> HIDE DEF e
  <2> QED
    BY ZenonT(60), <1>4, <2>1 DEF Engine, Turns
<1> QED
  BY <1>3, <1>4 DEF StreamVerified, done

LEMMA SettleIs ==
  ASSUME TransferTypeOK, NEW d, NEW ref, d = engine.stream, Settle(d, engine.plan, ref),
         engine.pc \in {"recheck", "verify"}
  PROVE  /\ engine' \in Engine
         /\ \/ Ended
            \/ /\ Goes({"recheck", "verify"}, {"checkpoint"})
               /\ \A p \in engine'.retiring : p.stream = engine'.stream
<1>0. engine \in Engine
  BY DEF TransferTypeOK
<1>1. CASE StreamFailed
  BY <1>0, <1>1, FailedEnds
<1>2. CASE /\ ref \in proofs
           /\ engine' = [engine EXCEPT
               !.pc = "checkpoint", !.plan = engine.plan, !.ref = ref, !.view = NoView,
               !.retiring = {p \in proofs : p.stream = d /\ p.instant < ref.instant}]
  <2>1. proofs \subseteq Proof
    BY DEF TransferTypeOK, TypeOK
  <2> DEFINE old == {p \in proofs : p.stream = d /\ p.instant < ref.instant}
  <2>2. old \subseteq Proof /\ \A p \in old : p.stream = engine.stream
    BY <2>1
  <2> HIDE DEF old
  <2>3. engine' = [engine EXCEPT !.pc = "checkpoint", !.plan = engine.plan, !.ref = ref,
                                 !.view = NoView, !.retiring = old]
    BY <1>2 DEF old
  <2>4. engine' \in Engine
    BY Zenon, <1>0, <1>2, <2>1, <2>2, <2>3, ViewTyped DEF Engine
  <2>5. /\ engine'.pc = "checkpoint" /\ engine'.stream = engine.stream
        /\ engine'.pin = engine.pin /\ engine'.plan = engine.plan /\ engine'.retiring = old
    BY <1>0, <2>3 DEF Engine
  <2> QED
    BY <2>2, <2>4, <2>5 DEF Goes
<1> QED
  BY <1>1, <1>2 DEF Settle

Planning ==
    /\ engine.pc = "plan" /\ engine'.stream = engine.stream /\ engine'.pin = engine.pin
    /\ engine'.retiring = engine.retiring
    /\ \/ engine'.pc = "recheck" /\ engine'.plan \in BuildResume(engine.stream)
       \/ engine'.pc = "endpoint" /\ engine'.plan \in Build(engine.stream)

Settling ==
    /\ Goes({"recheck", "verify"}, {"checkpoint"})
    /\ \A p \in engine'.retiring : p.stream = engine'.stream

Sending1 ==
    /\ engine'.retiring = engine.retiring
    /\ \/ Goes({"send"}, {"verify"})
       \/ /\ Goes({"recheck"}, {"send"})
          /\ engine.plan.mode = "resume" \/ engine.plan \in Build(engine.stream)
          /\ engine.plan.mode # "up-to-date"

Returning ==
    /\ owner = "engine" /\ Return /\ engine'.retiring \subseteq engine.retiring
    /\ \/ Goes({"endpoint"}, {"base", "recheck"})
       \/ Goes({"base"}, {"recheck"})
       \/ Goes({"checkpoint", "complete", "retire"}, {"complete", "retire"})

EngineStep ==
    \/ engine' = engine
    \/ engine' = EngineIdle /\ (FinishStreams \/ Crash)
    \/ BeginStreams
    \/ Ended \/ Turns \/ Planning \/ Settling \/ Sending1 \/ Returning

LEMMA PlanningStep ==
  ASSUME TransferTypeOK, PinInv, LoadAndPlan
  PROVE  engine' \in Engine /\ EngineStep
<1>0. engine \in Engine /\ engine.pc = "plan" /\ engine.stream \in Dataset
  BY Zenon DEF TransferTypeOK, PinInv, LoadAndPlan
<1> DEFINE d == engine.stream
           plans == IF token[d] # 0 THEN BuildResume(d) ELSE Build(d)
<1>1. CASE StreamFailed
  BY <1>0, <1>1, FailedEnds DEF EngineStep
<1>2. CASE \E plan \in plans :
             engine' = IF plan.mode = "resume"
                       THEN [engine EXCEPT !.plan = plan, !.pc = "recheck", !.view = Load(d)]
                       ELSE [engine EXCEPT !.plan = plan, !.pc = "endpoint"]
  <2>1. PICK plan \in plans :
             engine' = IF plan.mode = "resume"
                       THEN [engine EXCEPT !.plan = plan, !.pc = "recheck", !.view = Load(d)]
                       ELSE [engine EXCEPT !.plan = plan, !.pc = "endpoint"]
    BY Zenon, <1>2
  <2>2. /\ plan \in Plan
        /\ \/ plan \in BuildResume(d) /\ plan.mode = "resume"
           \/ plan \in Build(d) /\ plan.mode # "resume"
    <3>1. plan \in BuildResume(d) \/ plan \in Build(d)
      OBVIOUS
    <3>2. CASE plan \in BuildResume(d)
      BY <1>0, <3>2, ResumeGood
    <3>3. CASE plan \in Build(d)
      <4>1. PlanGood(plan, d)
        BY <1>0, <3>3, BuildGood, Zenon
      <4> QED
        BY <3>3, <4>1 DEF PlanGood
    <3> QED
      BY <3>1, <3>2, <3>3
  <2> HIDE DEF plans
  <2>3. /\ engine' \in Engine
        /\ engine'.plan = plan /\ engine'.stream = d /\ engine'.pin = engine.pin
        /\ engine'.retiring = engine.retiring
        /\ engine'.pc = IF plan.mode = "resume" THEN "recheck" ELSE "endpoint"
    <3>1. CASE plan.mode = "resume"
      <4>1. engine' = [engine EXCEPT !.plan = plan, !.pc = "recheck", !.view = Load(d)]
        BY <2>1, <3>1
      <4>2. Load(d) \in View
        BY LoadTyped
      <4> QED
        BY ZenonT(60), <1>0, <2>2, <3>1, <4>1, <4>2 DEF Engine
    <3>2. CASE plan.mode # "resume"
      <4>1. engine' = [engine EXCEPT !.plan = plan, !.pc = "endpoint"]
        BY <2>1, <3>2
      <4> QED
        BY ZenonT(60), <1>0, <2>2, <3>2, <4>1 DEF Engine
    <3> QED
      BY <3>1, <3>2
  <2> QED
    BY <1>0, <2>2, <2>3 DEF EngineStep, Planning
<1> QED
  BY Zenon, <1>1, <1>2 DEF LoadAndPlan

LEMMA RecheckStep ==
  ASSUME TransferTypeOK, PinInv, Recheck
  PROVE  engine' \in Engine /\ EngineStep
<1>0. engine \in Engine /\ engine.pc = "recheck" /\ engine.stream \in Dataset /\ engine.retiring = {}
  BY Zenon DEF TransferTypeOK, PinInv, Recheck
<1> DEFINE d == engine.stream
           resuming == engine.plan.mode = "resume"
           fresh == IF resuming THEN BuildResume(d) ELSE Build(d)
           ref == IF resuming THEN ResumeProofs(d) ELSE {engine.ref}
           stable == fresh = {engine.plan} /\ (resuming => Load(d) = engine.view)
<1>1. CASE StreamFailed
  BY <1>0, <1>1, FailedEnds DEF EngineStep
<1>2. CASE \E p \in ref : Settle(d, engine.plan, p)
  BY <1>0, <1>2, SettleIs DEF EngineStep, Settling
<1>3. CASE /\ stable /\ engine.plan.mode # "up-to-date"
           /\ \E p \in ref :
                engine' = [engine EXCEPT !.pc = "send", !.ref = p, !.view = NoView]
  <2>1. PICK p \in ref : engine' = [engine EXCEPT !.pc = "send", !.ref = p, !.view = NoView]
    BY Zenon, <1>3
  <2>2. p \in Proof \cup {NoProof}
    BY <1>0 DEF ResumeProofs, HeldProofs, TransferTypeOK, TypeOK, Engine
  <2>3. /\ engine' \in Engine
        /\ engine'.plan = engine.plan /\ engine'.stream = d /\ engine'.pin = engine.pin
        /\ engine'.retiring = engine.retiring /\ engine'.pc = "send"
    BY Zenon, <1>0, <2>1, <2>2, ViewTyped DEF Engine
  <2> QED
    BY <1>0, <1>3, <2>3 DEF EngineStep, Sending1, Goes
<1>4. CASE /\ engine.attempt # PreparationAttempts
           /\ engine' = [engine EXCEPT !.pc = "plan", !.plan = NoPlan,
                                       !.ref = NoProof, !.attempt = @ + 1]
  <2>1. engine.attempt + 1 \in 1 .. PreparationAttempts
    BY <1>0, <1>4 DEF Engine, PreparationAttempts
  <2>2. NoPlan \in Plan
    BY MaxInstantAssumption DEF NoPlan, Plan
  <2> DEFINE n == engine.attempt + 1
  <2>3. engine' = [engine EXCEPT !.pc = "plan", !.plan = NoPlan, !.ref = NoProof, !.attempt = n]
    BY <1>0, <1>4 DEF Engine
  <2> HIDE DEF n, NoPlan, NoProof, PreparationAttempts
  <2>4. n \in 1 .. PreparationAttempts
    BY <2>1 DEF n
  <2>5. /\ engine' \in Engine /\ engine'.stream = d /\ engine'.pin = engine.pin
        /\ engine'.retiring = engine.retiring /\ engine'.pc = "plan"
    BY ZenonT(60), <1>0, <2>2, <2>3, <2>4 DEF Engine
  <2> QED
    BY <1>0, <2>5 DEF EngineStep, Turns
<1> QED
  BY <1>1, <1>2, <1>3, <1>4, Zenon DEF Recheck

LEMMA ReturnStep ==
  ASSUME TransferTypeOK, CallInv, PinInv, EngineReturn(TRUE), Return
  PROVE  engine' \in Engine /\ EngineStep
<1>0. /\ engine \in Engine /\ owner = "engine" /\ op.proof \in Proof \cup {NoProof}
      /\ EngineWaits
  BY DEF TransferTypeOK, TypeOK, Op, EngineReturn, CallInv
<1>1. CASE engine.pc = "endpoint"
  <2>1. engine' = [engine EXCEPT !.ref = op.proof,
                               !.pc = IF engine.plan.base # 0 /\ ~engine.plan.bookmark
                                      THEN "base" ELSE "recheck"]
    BY <1>1 DEF EngineReturn
  <2>2. /\ engine' \in Engine /\ engine'.stream = engine.stream /\ engine'.pin = engine.pin
        /\ engine'.plan = engine.plan /\ engine'.retiring = engine.retiring
        /\ engine'.pc \in {"base", "recheck"}
    BY ZenonT(60), <1>0, <2>1 DEF Engine
  <2> QED
    BY <1>0, <1>1, <2>2 DEF EngineStep, Returning, Goes
<1>2. CASE engine.pc \in {"base", "checkpoint", "complete"}
  <2>1. \E pc \in {"recheck", "complete", "retire"} :
          /\ engine' = [engine EXCEPT !.pc = pc]
          /\ engine.pc = "base" <=> pc = "recheck"
    BY <1>2 DEF EngineReturn
  <2>2. /\ engine' \in Engine /\ engine'.stream = engine.stream /\ engine'.pin = engine.pin
        /\ engine'.plan = engine.plan /\ engine'.retiring = engine.retiring
        /\ engine'.pc \in {"recheck", "complete", "retire"}
        /\ engine.pc = "base" <=> engine'.pc = "recheck"
    BY <1>0, <2>1 DEF Engine
  <2> QED
    BY <1>0, <1>2, <2>2 DEF EngineStep, Returning, Goes
<1>3. CASE engine.pc = "retire"
  <2> DEFINE rest == engine.retiring \ {op.proof}
  <2>1. engine' = [engine EXCEPT !.retiring = rest]
    BY <1>0, <1>3 DEF EngineReturn, Engine
  <2>2. rest \subseteq engine.retiring
    OBVIOUS
  <2> HIDE DEF rest
  <2>3. /\ engine' \in Engine /\ engine'.stream = engine.stream /\ engine'.pin = engine.pin
        /\ engine'.plan = engine.plan /\ engine'.retiring = rest /\ engine'.pc = "retire"
    BY <1>0, <1>3, <2>1, <2>2 DEF Engine
  <2> QED
    BY <1>0, <1>3, <2>2, <2>3 DEF EngineStep, Returning, Goes
<1> QED
  BY <1>0, <1>1, <1>2, <1>3 DEF EngineWaits

LEMMA CallStep ==
  ASSUME TransferTypeOK, NEW refused, NEW call, EngineCall(refused, call)
  PROVE  engine' \in Engine /\ EngineStep
BY FailedEnds DEF TransferTypeOK, EngineCall, EngineStep

LEMMA EngineSteps ==
  ASSUME TransferTypeOK, CallInv, PinInv, [Next]_vars
  PROVE  engine' \in Engine /\ EngineStep
<1>0. engine \in Engine
  BY DEF TransferTypeOK
<1>1. CASE engine' = engine
  BY <1>0, <1>1 DEF EngineStep
<1>2. CASE FinishStreams \/ Crash
  BY <1>2, EngineIdleIs DEF FinishStreams, Crash, EngineStep
<1>3. CASE BeginStreams
  <2>1. PICK policy \in Incremental :
          engine' = [engine EXCEPT !.pc = "next", !.incremental = policy,
                                   !.left = Dataset, !.pin = jobs]
    BY Zenon, <1>3 DEF BeginStreams
  <2>2. engine' \in Engine
    BY Zenon, <1>0, <2>1 DEF Engine, TransferTypeOK
  <2> QED
    BY <1>3, <2>2 DEF EngineStep
<1>4. CASE NextStream
  <2>1. engine.pc = "next" /\ engine.retiring = {}
    BY <1>4 DEF NextStream, PinInv
  <2>2. PICK d \in Dataset : engine' = [engine EXCEPT !.pc = "plan", !.stream = d, !.attempt = 1,
                                                   !.second = FALSE]
    BY Zenon, <1>0, <1>4 DEF NextStream, Engine
  <2>3. 1 \in 1 .. PreparationAttempts
    BY DEF PreparationAttempts
  <2> HIDE DEF PreparationAttempts
  <2>4. /\ engine' \in Engine /\ engine'.pc = "plan" /\ engine'.stream \in Dataset
        /\ engine'.pin = engine.pin /\ engine'.retiring = engine.retiring
    BY ZenonT(60), <1>0, <2>2, <2>3 DEF Engine
  <2> QED
    BY <2>1, <2>4 DEF EngineStep, Turns
<1>5. CASE LoadAndPlan
  BY <1>5, PlanningStep
<1>6. CASE Recheck
  BY <1>6, RecheckStep
<1>7. CASE ProtectEndpoint \/ ProtectBase \/ Checkpoint \/ CompleteHold
  BY <1>7, CallStep DEF ProtectEndpoint, ProtectBase, Checkpoint, CompleteHold
<1>8. CASE Retire
  <2>1. engine.stream \in Dataset
    BY <1>8 DEF Retire, PinInv
  <2>2. CASE StreamVerified
    BY <1>0, <2>1, <2>2, VerifiedEnds DEF EngineStep
  <2>3. CASE \E p \in engine.retiring : EngineCall(p \notin proofs, ReleaseReference(p))
    BY <2>3, CallStep
  <2> QED
    BY <1>8, <2>2, <2>3 DEF Retire
<1>9. CASE SendCompletes
  <2>1. CASE StreamFailed
    BY <1>0, <2>1, FailedEnds DEF EngineStep
  <2>2. CASE engine.pc = "send" /\ engine' = [engine EXCEPT !.pc = "verify"]
    <3>1. /\ engine' \in Engine /\ engine'.stream = engine.stream /\ engine'.pin = engine.pin
          /\ engine'.plan = engine.plan /\ engine'.retiring = engine.retiring
          /\ engine'.pc = "verify"
      BY <1>0, <2>2 DEF Engine
    <3> QED
      BY <2>2, <3>1 DEF EngineStep, Sending1, Goes
  <2> QED
    BY <1>9, <2>1, <2>2 DEF SendCompletes
<1>10. CASE SendFails
  BY <1>0, <1>10, FailedEnds DEF SendFails, EngineStep
<1>11. CASE Verify
  BY <1>11, SettleIs DEF Verify, EngineStep, Settling
<1>12. CASE Return /\ EngineReturn(TRUE)
  BY <1>12, ReturnStep
<1>13. CASE EngineReturn(FALSE)
  BY <1>0, <1>13, FailedEnds DEF EngineReturn, EngineStep
<1>14. CASE UNCHANGED vars
  BY <1>1, <1>14 DEF vars, transferVars
<1>15. CASE \/ \E ds \in SUBSET Dataset : SnapshotJob(ds)
            \/ ProtectCreated \/ Coalesce \/ ReleaseSupersededPending
            \/ \E d \in Dataset, chosen \in SUBSET Prunable : PruneJob(d, chosen)
            \/ DestinationPrune \/ LifecycleWrite
  <2>1. engine' = engine
    BY <1>15, Zenon DEF SnapshotJob, ProtectCreated, Coalesce, ReleaseSupersededPending, PruneJob,
       DestinationPrune, LifecycleWrite, transferVars
  <2> QED
    BY <1>1, <2>1
<1>16. CASE LifecycleReturn \/ LifecycleError
  BY Zenon, <1>1, <1>12, <1>13, <1>16 DEF LifecycleReturn, LifecycleError, DaemonReturn
<1> QED
  BY <1>2, <1>3, <1>4, <1>5, <1>6, <1>7, <1>8, <1>9, <1>10, <1>11, <1>14, <1>15, <1>16 DEF Next

-----------------------------------------------------------------------------
(* Types.                                                                  *)

LEMMA DaemonIdleIs == DaemonIdle \in Daemon /\ DaemonIdle.pc = "idle"
BY MaxInstantAssumption DEF DaemonIdle, Daemon

LEMMA NextCreatedIs ==
  ASSUME daemon \in Daemon, NextCreated
  PROVE  daemon' \in Daemon /\ daemon'.pc \in {"idle", "protect"}
<1> DEFINE left == daemon.created \ {daemon.stream}
<1>1. left \subseteq Dataset
  BY DEF Daemon
<1> HIDE DEF left
<1>2. daemon' = DaemonIdle \/ daemon' = [DaemonIdle EXCEPT !.pc = "protect", !.created = left]
  BY DEF NextCreated, left
<1> QED
  BY ZenonT(60), <1>1, <1>2, DaemonIdleIs DEF Daemon

LEMMA DaemonTyped ==
  ASSUME TransferTypeOK, CallInv, SupersedeInv, [Next]_vars
  PROVE  daemon' \in Daemon
<1>0. daemon \in Daemon /\ jobs \in [Dataset -> 0 .. MaxInstant]
  BY DEF TransferTypeOK
<1>1. CASE daemon' = daemon
  BY <1>0, <1>1
<1>2. ASSUME NEW ds \in SUBSET Dataset, SnapshotJob(ds) PROVE daemon' \in Daemon
  BY Zenon, <1>0, <1>2 DEF SnapshotJob, Daemon
<1>3. CASE ProtectCreated
  <2>1. \/ daemon' = DaemonIdle
        \/ \E d \in daemon.created : daemon' = [daemon EXCEPT !.stream = d]
    BY <1>3, Zenon DEF ProtectCreated
  <2> QED
    BY <1>0, <2>1, DaemonIdleIs DEF Daemon
<1>4. CASE Coalesce
  <2>1. CASE NextCreated
    BY <1>0, <2>1, NextCreatedIs
  <2>2. CASE /\ jobs[daemon.stream] # 0 /\ jobs[daemon.stream] < taken
             /\ daemon' = [daemon EXCEPT !.pc = "supersede", !.victim = jobs[daemon.stream]]
    <3>1. daemon.stream \in Dataset
      BY <1>4 DEF Coalesce, SupersedeInv
    <3> QED
      BY ZenonT(60), <1>0, <2>2, <3>1 DEF Daemon
  <2> QED
    BY <1>4, <2>1, <2>2 DEF Coalesce
<1>5. CASE ReleaseSupersededPending
  BY <1>0, <1>5, NextCreatedIs DEF ReleaseSupersededPending
<1>6. ASSUME NEW ok \in BOOLEAN, DaemonReturn(ok) PROVE daemon' \in Daemon
  <2>1. \/ daemon' = daemon \/ daemon' = DaemonIdle \/ NextCreated
        \/ daemon' = [daemon EXCEPT !.pc = "coalesce"]
    BY <1>6, Zenon DEF DaemonReturn, CallInv, DaemonCall
  <2> QED
    BY <1>0, <2>1, NextCreatedIs, DaemonIdleIs DEF Daemon
<1>7. CASE Crash
  BY <1>7, DaemonIdleIs DEF Crash
<1>8. CASE LifecycleReturn \/ LifecycleError
  BY <1>1, <1>6, <1>8, Zenon DEF LifecycleReturn, LifecycleError, EngineReturn
<1>9. CASE \/ \E d \in Dataset, chosen \in SUBSET Prunable : PruneJob(d, chosen)
           \/ BeginStreams \/ NextStream \/ FinishStreams
           \/ LoadAndPlan \/ ProtectEndpoint \/ ProtectBase \/ Recheck
           \/ SendCompletes \/ SendFails \/ Verify
           \/ Checkpoint \/ CompleteHold \/ Retire
           \/ DestinationPrune \/ LifecycleWrite \/ UNCHANGED vars
  <2>1. daemon' = daemon
    BY <1>9, Zenon DEF PruneJob, BeginStreams, NextStream, FinishStreams, LoadAndPlan,
       ProtectEndpoint, ProtectBase, Recheck, SendCompletes, SendFails, Verify, Checkpoint,
       CompleteHold, Retire, EngineCall, DestinationPrune, LifecycleWrite, vars, transferVars
  <2> QED
    BY <1>1, <2>1
<1> QED
  BY <1>2, <1>3, <1>4, <1>5, <1>7, <1>8, <1>9 DEF Next

\* What a stream still has to deliver are instants.
LEMMA SendingIs ==
  ASSUME TransferTypeOK, NEW d
  PROVE  Sending(d) \subseteq Instant
<1>1. InstantsOf(snapshots, d) \subseteq Instant
  BY DEF InstantsOf, TransferTypeOK, TypeOK, Snapshot
<1> QED
  BY <1>1, Zenon DEF Sending

LEMMA PartialTyped ==
  ASSUME TransferTypeOK, NEW d \in Dataset, NEW i \in Sending(d), PartialReceive(d, i)
  PROVE  received' \subseteq Snapshot /\ token' \in [Dataset -> 0 .. MaxInstant]
<1>1. i \in Instant /\ i \in 0 .. MaxInstant /\ 0 \in 0 .. MaxInstant
  BY SendingIs, MaxInstantAssumption DEF Instant
<1>2. received' \subseteq Snapshot
  BY SendingIs DEF PartialReceive, TransferTypeOK, Snapshot
<1>3. PICK kept \in {0, i} : token' = [token EXCEPT ![d] = IF @ = i THEN i ELSE kept]
  BY ZenonT(60) DEF PartialReceive
<1>4. token' \in [Dataset -> 0 .. MaxInstant]
  BY <1>1, <1>3 DEF TransferTypeOK
<1> QED
  BY <1>2, <1>4

\* A stream delivers all it has, or stops on the way.
ReceiveStep ==
    /\ engine.pc = "send" /\ engine'.pc # "send" /\ engine.stream \in Dataset
    /\ \/ /\ received' = received \cup ({engine.stream} \X Sending(engine.stream))
          /\ token' = [token EXCEPT ![engine.stream] = 0]
       \/ \E i \in Sending(engine.stream) : PartialReceive(engine.stream, i)

\* What a step does to the destination.
LEMMA ReceiveSteps ==
  ASSUME TransferTypeOK, PinInv, [Next]_vars
  PROVE  UNCHANGED <<received, token>> \/ DestinationPrune \/ ReceiveStep
<1>0. engine \in Engine /\ (engine.pc = "send" => engine.stream \in Dataset)
  BY DEF TransferTypeOK, PinInv
<1>1. CASE SendCompletes
  <2>1. CASE UNCHANGED <<received, token>>
    BY <2>1
  <2>2. CASE /\ received' = received \cup ({engine.stream} \X Sending(engine.stream))
             /\ token' = [token EXCEPT ![engine.stream] = 0]
             /\ engine' = [engine EXCEPT !.pc = "verify"]
    <3>1. engine'.pc = "verify"
      BY <1>0, <2>2 DEF Engine
    <3> QED
      BY <1>0, <1>1, <2>2, <3>1 DEF SendCompletes, ReceiveStep
  <2> QED
    BY <1>1, <2>1, <2>2 DEF SendCompletes
<1>2. CASE SendFails
  <2>1. engine'.pc = "next"
    BY <1>0, <1>2, FailedEnds DEF SendFails, Ended
  <2> QED
    BY <1>0, <1>2, <2>1 DEF SendFails, ReceiveStep
<1>3. CASE Crash
  <2>1. engine'.pc = "idle"
    BY <1>3, EngineIdleIs DEF Crash
  <2> QED
    BY <1>0, <1>3, <2>1 DEF Crash, ReceiveStep
<1>4. CASE \/ \E ds \in SUBSET Dataset : SnapshotJob(ds)
           \/ ProtectCreated \/ Coalesce \/ ReleaseSupersededPending
           \/ \E d \in Dataset, chosen \in SUBSET Prunable : PruneJob(d, chosen)
           \/ BeginStreams \/ NextStream \/ FinishStreams
           \/ LoadAndPlan \/ ProtectEndpoint \/ ProtectBase \/ Recheck
           \/ Verify \/ Checkpoint \/ CompleteHold \/ Retire
           \/ LifecycleReturn \/ LifecycleWrite \/ LifecycleError \/ UNCHANGED vars
  BY <1>4, Zenon DEF SnapshotJob, ProtectCreated, Coalesce, ReleaseSupersededPending, PruneJob,
     BeginStreams, NextStream, FinishStreams, LoadAndPlan, ProtectEndpoint, ProtectBase, Recheck,
     Verify, Checkpoint, CompleteHold, Retire, EngineCall, LifecycleReturn, LifecycleWrite,
     LifecycleError, DaemonReturn, EngineReturn, vars, transferVars
<1> QED
  BY <1>1, <1>2, <1>3, <1>4 DEF Next

LEMMA ReceiveTyped ==
  ASSUME TransferTypeOK, PinInv, [Next]_vars
  PROVE  received' \subseteq Snapshot /\ token' \in [Dataset -> 0 .. MaxInstant]
<1>1. CASE UNCHANGED <<received, token>> \/ DestinationPrune
  BY <1>1 DEF DestinationPrune, TransferTypeOK
<1>2. CASE ReceiveStep
  <2> DEFINE d == engine.stream
  <2>0. d \in Dataset
    BY <1>2 DEF ReceiveStep
  <2>1. CASE /\ received' = received \cup ({d} \X Sending(d))
             /\ token' = [token EXCEPT ![d] = 0]
    <3>1. Sending(d) \subseteq Instant
      BY SendingIs
    <3>2. 0 \in 0 .. MaxInstant
      BY MaxInstantAssumption
    <3> HIDE DEF d
    <3> QED
      BY <2>0, <2>1, <3>1, <3>2 DEF TransferTypeOK, Snapshot
  <2>2. CASE \E i \in Sending(d) : PartialReceive(d, i)
    BY <2>0, <2>2, PartialTyped
  <2> QED
    BY <1>2, <2>1, <2>2 DEF ReceiveStep
<1> QED
  BY <1>1, <1>2, ReceiveSteps

\* What a step does to the pending work and the reservations.
LEMMA PendingSteps ==
  ASSUME [Next]_vars
  PROVE  \/ UNCHANGED <<jobs, active>>
         \/ Coalesce \/ BeginStreams \/ FinishStreams \/ Crash
<1>1. CASE \/ \E ds \in SUBSET Dataset : SnapshotJob(ds)
           \/ ProtectCreated \/ ReleaseSupersededPending
           \/ \E d \in Dataset, chosen \in SUBSET Prunable : PruneJob(d, chosen)
           \/ NextStream \/ LoadAndPlan \/ ProtectEndpoint \/ ProtectBase \/ Recheck
           \/ SendCompletes \/ SendFails \/ Verify \/ Checkpoint \/ CompleteHold \/ Retire
           \/ DestinationPrune
           \/ LifecycleReturn \/ LifecycleWrite \/ LifecycleError \/ UNCHANGED vars
  BY <1>1, Zenon DEF SnapshotJob, ProtectCreated, ReleaseSupersededPending, PruneJob,
     NextStream, LoadAndPlan, ProtectEndpoint, ProtectBase, Recheck, SendCompletes, SendFails,
     Verify, Checkpoint, CompleteHold, Retire, EngineCall, DestinationPrune, LifecycleReturn,
     LifecycleWrite, LifecycleError, DaemonReturn, EngineReturn, vars, transferVars
<1> QED
  BY <1>1 DEF Next

LEMMA PendingTyped ==
  ASSUME TransferTypeOK, [Next]_vars
  PROVE  jobs' \in [Dataset -> 0 .. MaxInstant] /\ active' \in [Dataset -> 0 .. MaxInstant]
<1>0. /\ jobs \in [Dataset -> 0 .. MaxInstant] /\ active \in [Dataset -> 0 .. MaxInstant]
      /\ taken \in 0 .. MaxInstant /\ 0 \in 0 .. MaxInstant
  BY MaxInstantAssumption DEF TransferTypeOK, TypeOK
<1>1. CASE UNCHANGED <<jobs, active>>
  BY <1>0, <1>1
<1>2. CASE Coalesce
  <2>1. UNCHANGED active
    BY <1>2 DEF Coalesce
  <2>2. jobs' = [jobs EXCEPT ![daemon.stream] = IF @ >= taken THEN @ ELSE taken]
    BY <1>2 DEF Coalesce
  <2> QED
    BY ZenonT(60), <1>0, <2>1, <2>2
<1>3. CASE BeginStreams
  BY <1>0, <1>3 DEF BeginStreams
<1>4. CASE FinishStreams
  BY <1>0, <1>4 DEF FinishStreams
<1>5. CASE Crash
  BY <1>0, <1>5 DEF Crash, None
<1> QED
  BY <1>1, <1>2, <1>3, <1>4, <1>5, PendingSteps

LEMMA OwnerTyped ==
  ASSUME TransferTypeOK, [Next]_vars
  PROVE  owner' \in {"none", "daemon", "engine"}
<1>1. owner' \in {owner, "none", "daemon", "engine"}
  BY Zenon DEF Next, SnapshotJob, ProtectCreated, Coalesce, ReleaseSupersededPending, PruneJob,
     BeginStreams, NextStream, FinishStreams, LoadAndPlan, ProtectEndpoint, ProtectBase, Recheck,
     SendCompletes, SendFails, Verify, Checkpoint, CompleteHold, Retire, EngineCall,
     DestinationPrune, LifecycleReturn, LifecycleWrite, LifecycleError, DaemonReturn, EngineReturn,
     Crash, vars, transferVars
<1> QED
  BY <1>1 DEF TransferTypeOK

\* What the history records are snapshots.
LEMMA UnbackedTyped ==
  ASSUME TransferTypeOK, PinInv, SupersedeInv, [Next]_vars
  PROVE  unbacked' \subseteq Snapshot
<1>0. unbacked \subseteq Snapshot /\ engine \in Engine /\ daemon \in Daemon
  BY DEF TransferTypeOK
<1> DEFINE d == engine.stream
<1>1. ASSUME NEW some, some \subseteq Sending(d), engine.pc = "send",
             unbacked' = unbacked \cup Unheld(d, some)
      PROVE  unbacked' \subseteq Snapshot
  <2>1. d \in Dataset /\ Sending(d) \subseteq Instant
    BY <1>1, SendingIs DEF PinInv
  <2> QED
    BY <1>0, <1>1, <2>1 DEF Unheld, Snapshot
<1>2. CASE SendCompletes
  <2>1. \/ UNCHANGED unbacked
        \/ unbacked' = unbacked \cup Unheld(d, Sending(d)) /\ engine.pc = "send"
    BY Zenon, <1>2 DEF SendCompletes
  <2> QED
    BY <1>0, <1>1, <2>1
<1>3. CASE \E i \in Sending(d) : PartialReceive(d, i) /\ engine.pc = "send"
  <2>1. PICK i \in Sending(d) : PartialReceive(d, i) /\ engine.pc = "send"
    BY Zenon, <1>3
  <2> DEFINE some == {j \in Sending(d) : j < i}
  <2>2. unbacked' = unbacked \cup Unheld(d, some) /\ some \subseteq Sending(d)
    BY Zenon, <2>1 DEF PartialReceive
  <2> HIDE DEF some
  <2> QED
    BY <1>1, <2>1, <2>2
<1>4. CASE ReleaseSupersededPending
  <2>1. daemon.stream \in Dataset /\ daemon.victim \in Instant
    BY <1>0, <1>4, MaxInstantAssumption
       DEF ReleaseSupersededPending, SupersedeInv, Daemon, Instant
  <2>2. UNCHANGED unbacked \/ unbacked' = unbacked \cup {<<daemon.stream, daemon.victim>>}
    BY Zenon, <1>4 DEF ReleaseSupersededPending
  <2> QED
    BY <1>0, <2>1, <2>2 DEF Snapshot
<1>5. CASE \E x : unbacked' = unbacked \ {x}
  BY <1>0, <1>5
<1>6. CASE UNCHANGED unbacked
  BY <1>0, <1>6
<1>7. CASE LifecycleReturn \/ LifecycleError
  BY Zenon, <1>5, <1>6, <1>7 DEF LifecycleReturn, LifecycleError, DaemonReturn, EngineReturn
<1>8. CASE Crash \/ SendFails \/ DestinationPrune
  BY Zenon, <1>3, <1>5, <1>6, <1>8 DEF Crash, SendFails, DestinationPrune
<1>9. CASE \/ \E ds \in SUBSET Dataset : SnapshotJob(ds)
           \/ ProtectCreated \/ Coalesce
           \/ \E e \in Dataset, chosen \in SUBSET Prunable : PruneJob(e, chosen)
           \/ BeginStreams \/ NextStream \/ FinishStreams
           \/ LoadAndPlan \/ ProtectEndpoint \/ ProtectBase \/ Recheck
           \/ Verify \/ Checkpoint \/ CompleteHold \/ Retire
           \/ LifecycleWrite \/ UNCHANGED vars
  <2>1. UNCHANGED unbacked
    BY Zenon, <1>9 DEF SnapshotJob, ProtectCreated, Coalesce, PruneJob, BeginStreams,
       NextStream, FinishStreams, LoadAndPlan, ProtectEndpoint, ProtectBase, Recheck, Verify,
       Checkpoint, CompleteHold, Retire, EngineCall, LifecycleWrite, vars, transferVars
  <2> QED
    BY <1>6, <2>1
<1> QED
  BY <1>2, <1>4, <1>7, <1>8, <1>9, Zenon DEF Next

LEMMA TransferTypeStep ==
  ASSUME IInv', TransferTypeOK, CallInv, PinInv, SupersedeInv, [Next]_vars
  PROVE  TransferTypeOK'
<1>1. TypeOK'
  BY DEF IInv
<1> QED
  BY Zenon, <1>1, ReceiveTyped, UnbackedTyped, PendingTyped, OwnerTyped, DaemonTyped, EngineSteps DEF TransferTypeOK

-----------------------------------------------------------------------------
(* The reservations.                                                       *)

LEMMA PinStep ==
  ASSUME TransferTypeOK, CallInv, PinInv, [Next]_vars
  PROVE  PinInv'
<1>0. /\ engine \in Engine /\ jobs \in [Dataset -> 0 .. MaxInstant]
      /\ engine.pin \in [Dataset -> 0 .. MaxInstant]
  BY DEF TransferTypeOK, Engine
<1>1. CASE BeginStreams
  <2>1. PICK policy \in Incremental :
          engine' = [engine EXCEPT !.pc = "next", !.incremental = policy,
                                   !.left = Dataset, !.pin = jobs]
    BY Zenon, <1>1 DEF BeginStreams
  <2>2. engine'.pc = "next" /\ engine'.pin = jobs /\ engine'.retiring = engine.retiring
    BY <1>0, <2>1 DEF Engine
  <2>3. engine = EngineIdle /\ active = None
    BY <1>1, EngineIdleIs DEF BeginStreams, PinInv
  <2>4. active' = jobs
    BY <1>0, <1>1, <2>3 DEF BeginStreams, None
  <2> QED
    BY <2>2, <2>3, <2>4, EngineIdleIs DEF PinInv
<1>2. CASE FinishStreams \/ Crash
  <2>1. engine' = EngineIdle
    BY <1>2 DEF FinishStreams, Crash
  <2>2. active' = None
    BY <1>0, <1>2 DEF FinishStreams, Crash, PinInv, None
  <2> QED
    BY <2>1, <2>2, EngineIdleIs DEF PinInv
<1>3. CASE active' = active /\ ~BeginStreams /\ ~FinishStreams /\ ~Crash
  <2>1. CASE engine' = engine
    BY <1>3, <2>1 DEF PinInv
  <2>2. CASE Ended \/ Turns
    BY <1>3, <2>2 DEF PinInv, Ended, Turns
  <2>3. CASE Planning
    BY <1>3, <2>3 DEF PinInv, Planning
  <2>4. CASE Settling
    BY <1>3, <2>4 DEF PinInv, Settling, Goes
  <2>5. CASE Sending1
    BY <1>3, <2>5 DEF PinInv, Sending1, Goes
  <2>6. CASE Returning
    BY <1>3, <2>6 DEF PinInv, Returning, Goes
  <2> QED
    BY <1>3, <2>1, <2>2, <2>3, <2>4, <2>5, <2>6, EngineSteps DEF EngineStep
<1>4. active' = active \/ BeginStreams \/ FinishStreams \/ Crash
  BY PendingSteps DEF Coalesce
<1> QED
  BY <1>1, <1>2, <1>3, <1>4

-----------------------------------------------------------------------------
(* Whose call is under way.                                                *)

\* What a write of the operation under way does.
LEMMA WriteIs ==
  ASSUME TypeOK, Write
  PROVE  /\ op'.kind = op.kind /\ op'.proof = op.proof /\ op'.asked = op.asked
         /\ op'.todo \subseteq op.todo /\ taken' = taken
         /\ proofs' \subseteq proofs \cup {op.proof}
         /\ op.kind = "protect" => holds \subseteq holds' /\ op.todo \ op'.todo \subseteq holds'
         /\ holds \subseteq holds' \/ op.kind \in {"complete", "release"}
         /\ holds \ holds' \subseteq op.todo
         /\ bookmarks \subseteq bookmarks' \/ op.kind = "release"
         /\ bookmarks \ bookmarks' \subseteq op.todo
<1>0. op \in Op
  BY DEF TypeOK
<1>1. CASE WriteProof \/ InheritProof
  BY <1>0, <1>1 DEF WriteProof, InheritProof
<1>2. CASE Hold
  BY <1>0, <1>2 DEF Hold, Op
<1>3. CASE Bookmark
  BY <1>0, <1>3 DEF Bookmark, Op
<1>4. CASE ReleaseHold
  BY <1>0, <1>4 DEF ReleaseHold, Op
<1>5. CASE DestroyBookmark
  BY <1>0, <1>5 DEF DestroyBookmark, Op
<1>6. CASE ReleaseSourceHold
  BY <1>0, <1>6 DEF ReleaseSourceHold, Op
<1>7. CASE DestroySnapshot
  BY <1>0, <1>7 DEF DestroySnapshot, Op
<1> QED
  BY <1>1, <1>2, <1>3, <1>4, <1>5, <1>6, <1>7 DEF Write

\* A call that begins.
Begun(kind, proof) ==
    /\ op = NoOp /\ op'.kind = kind /\ op'.proof = proof /\ UNCHANGED zfs

LEMMA ProtectBegins ==
  ASSUME NEW d, NEW i, ProtectSet(d, {d}, i)
  PROVE  /\ op = NoOp /\ UNCHANGED zfs /\ op'.kind = "protect" /\ op'.asked = {<<d, i>>}
         /\ op'.asked \ op'.todo \subseteq holds
         /\ op'.proof \in proofs \/ op'.proof.recursive = FALSE
<1>1. PICK p \in Proof :
        /\ IF Stored(d, i) = {} THEN p = Requested(d, {d}, i) ELSE p \in Stored(d, i)
        /\ Begin("protect", p, {d} \X {i}, ({d} \X {i}) \ holds)
  BY DEF ProtectSet
<1>2. p \in proofs \/ p.recursive = FALSE
  <2>1. Requested(d, {d}, i).recursive = ({d} # {d})
    BY DEF Requested
  <2>2. ({d} # {d}) = FALSE
    BY Zenon
  <2>3. CASE p = Requested(d, {d}, i)
    BY Zenon, <2>1, <2>2, <2>3
  <2>4. CASE p \in Stored(d, i)
    BY <2>4 DEF Stored
  <2> QED
    BY ZenonT(60), <1>1, <2>3, <2>4
<1>3. {d} \X {i} = {<<d, i>>}
  OBVIOUS
<1> QED
  BY <1>1, <1>2, <1>3 DEF Begin

LEMMA OtherBegins ==
  ASSUME NEW p, NEW verified
  PROVE  /\ CheckpointSet(p, verified) => Begun("checkpoint", p) /\ p \in proofs
         /\ ReleaseCompletedHold(p) => Begun("complete", p) /\ p \in proofs
         /\ ReleaseReference(p) =>
              /\ Begun("release", p) /\ p \in proofs /\ op'.todo \subseteq CoveredSnapshots(p)
BY DEF CheckpointSet, CheckpointRefused, ReleaseCompletedHold, CompleteRefused, ReleaseReference,
   Begin, Begun, Sources

LEMMA NoOpIs == NoOp.kind = "none" /\ NoOp.proof.recursive = FALSE
BY DEF NoOp, NoProof

\* While no call is under way, nobody waits for one.
LEMMA NobodyWaits ==
  ASSUME TransferTypeOK, CallInv, op = NoOp
  PROVE  owner = "none"
BY NoOpIs DEF CallInv, DaemonCall, EngineWaits, TransferTypeOK

LEMMA EngineCallInv ==
  ASSUME TransferTypeOK, CallInv, NEW refused, NEW call, EngineCall(refused, call),
         call => CallInv'
  PROVE  CallInv'
<1>1. owner = "none" /\ op = NoOp
  BY NobodyWaits DEF EngineCall
<1>2. CASE refused
  BY <1>1, <1>2, NoOpIs DEF EngineCall, refVars, CallInv
<1>3. CASE ~refused
  BY <1>3 DEF EngineCall
<1> QED
  BY <1>2, <1>3

LEMMA DaemonCalls ==
  ASSUME TransferTypeOK, CallInv,
         \/ \E ds \in SUBSET Dataset : SnapshotJob(ds)
         \/ ProtectCreated \/ ReleaseSupersededPending
         \/ \E d \in Dataset, chosen \in SUBSET Prunable : PruneJob(d, chosen)
  PROVE  CallInv'
<1>0. daemon \in Daemon
  BY DEF TransferTypeOK
<1>1. ASSUME NEW ds \in SUBSET Dataset, SnapshotJob(ds) PROVE CallInv'
  <2>1. op = NoOp /\ op' = op /\ owner' = owner
    BY Zenon, <1>1 DEF SnapshotJob, CreateSnapshot
  <2> QED
    BY <2>1, NobodyWaits, NoOpIs DEF CallInv
<1>2. CASE ProtectCreated
  <2>1. op = NoOp /\ owner = "none"
    BY <1>2, NobodyWaits DEF ProtectCreated
  <2>2. CASE UNCHANGED <<refVars, owner>>
    BY <2>1, <2>2, NoOpIs DEF CallInv, refVars
  <2>3. CASE \E d \in daemon.created :
               /\ ProtectSet(d, {d}, taken)
               /\ daemon' = [daemon EXCEPT !.stream = d] /\ owner' = "daemon"
    <3>1. PICK d \in daemon.created : /\ ProtectSet(d, {d}, taken)
                                      /\ daemon' = [daemon EXCEPT !.stream = d] /\ owner' = "daemon"
      BY Zenon, <2>3
    <3>2. daemon'.pc = "protect" /\ daemon'.stream \in Dataset
      BY <1>0, <1>2, <3>1 DEF Daemon, ProtectCreated
    <3>3. op'.kind = "protect" /\ holds' = holds /\ op'.asked \ op'.todo \subseteq holds
      BY ZenonT(60), <3>1, ProtectBegins DEF zfs
    <3> QED
      BY <3>1, <3>2, <3>3 DEF CallInv, DaemonCall
  <2> QED
    BY <1>2, <2>2, <2>3, Zenon DEF ProtectCreated
<1>3. CASE ReleaseSupersededPending
  <2>1. op = NoOp /\ owner = "none"
    BY <1>3, NobodyWaits DEF ReleaseSupersededPending
  <2>2. CASE UNCHANGED <<refVars, owner>>
    BY <2>1, <2>2, NoOpIs DEF CallInv, refVars
  <2>3. CASE /\ \E p \in Stored(daemon.stream, daemon.victim) : ReleaseReference(p)
             /\ owner' = "daemon" /\ UNCHANGED daemon
    <3>1. PICK p \in Stored(daemon.stream, daemon.victim) : ReleaseReference(p)
      BY <2>3
    <3>2. op'.kind = "release" /\ op'.proof = p /\ op'.todo \subseteq CoveredSnapshots(p)
      BY ZenonT(60), <3>1, OtherBegins DEF Begun
    <3>3. p.stream = daemon.stream /\ p.instant = daemon.victim
      BY <3>1 DEF Stored
    <3>4. daemon'.pc = "supersede"
      BY <1>3, <2>3 DEF ReleaseSupersededPending
    <3>5. DaemonCall'
      BY <2>3, <3>2, <3>3, <3>4 DEF DaemonCall
    <3>6. CoveredSnapshots(op.proof)' = CoveredSnapshots(p)
      BY <3>2 DEF CoveredSnapshots, Covers
    <3> QED
      BY ZenonT(60), <2>3, <3>2, <3>5, <3>6 DEF CallInv
  <2> QED
    BY <1>3, <2>2, <2>3, Zenon DEF ReleaseSupersededPending
<1>4. ASSUME NEW d \in Dataset, NEW chosen \in SUBSET Prunable, PruneJob(d, chosen) PROVE CallInv'
  <2>1. op'.kind = "prune" /\ owner' = "daemon" /\ daemon'.pc = "idle"
    BY <1>4 DEF PruneJob, Prune, Begin
  <2> QED
    BY <2>1 DEF CallInv, DaemonCall
<1> QED
  BY <1>1, <1>2, <1>3, <1>4

LEMMA EngineCalls ==
  ASSUME TransferTypeOK, CallInv, PinInv,
         ProtectEndpoint \/ ProtectBase \/ Checkpoint \/ CompleteHold \/ Retire
  PROVE  CallInv'
<1> DEFINE d == engine.stream
           verified == {<<engine.stream, engine.plan.endpoint>>}
<1>0. ASSUME NEW refused, NEW call, EngineCall(refused, call), ~refused
      PROVE  owner' = "engine" /\ engine' = engine
  BY <1>0 DEF EngineCall
<1>1. CASE ProtectEndpoint
  <2> DEFINE i == engine.plan.endpoint
  <2>1. engine.pc = "endpoint" /\ EngineCall(ProtectRefused(d, {d}, i), ProtectSet(d, {d}, i))
    BY <1>1 DEF ProtectEndpoint
  <2>2. ASSUME ProtectSet(d, {d}, i) PROVE CallInv'
    <3>1. ~ProtectRefused(d, {d}, i)
      BY <2>2 DEF ProtectSet
    <3>2. owner' = "engine" /\ engine' = engine
      BY <2>1, <3>1 DEF EngineCall
    <3>3. /\ op'.kind = "protect" /\ holds' = holds /\ op'.asked = {<<d, i>>}
          /\ op'.asked \ op'.todo \subseteq holds
      BY ZenonT(60), <2>2, ProtectBegins DEF zfs
    <3> QED
      BY <2>1, <3>2, <3>3 DEF CallInv, EngineWaits
  <2> QED
    BY <2>1, <2>2, EngineCallInv
<1>2. CASE ProtectBase
  <2> DEFINE i == engine.plan.base
  <2>1. engine.pc = "base" /\ EngineCall(ProtectRefused(d, {d}, i), ProtectSet(d, {d}, i))
    BY <1>2 DEF ProtectBase
  <2>2. ASSUME ProtectSet(d, {d}, i) PROVE CallInv'
    <3>1. ~ProtectRefused(d, {d}, i)
      BY <2>2 DEF ProtectSet
    <3>2. owner' = "engine" /\ engine' = engine
      BY <2>1, <3>1 DEF EngineCall
    <3>3. op'.kind = "protect" /\ holds' = holds /\ op'.asked \ op'.todo \subseteq holds
      BY Zenon, <2>2, ProtectBegins DEF zfs
    <3> QED
      BY <2>1, <3>2, <3>3 DEF CallInv, EngineWaits
  <2> QED
    BY <2>1, <2>2, EngineCallInv
<1>3. CASE Checkpoint
  <2>1. /\ engine.pc = "checkpoint"
        /\ EngineCall(CheckpointRefused(engine.ref, verified), CheckpointSet(engine.ref, verified))
    BY <1>3 DEF Checkpoint
  <2>2. ASSUME CheckpointSet(engine.ref, verified) PROVE CallInv'
    <3>1. owner' = "engine" /\ engine' = engine
      BY <2>1, <2>2 DEF EngineCall, CheckpointSet
    <3>2. op'.kind = "checkpoint"
      BY <2>2, OtherBegins DEF Begun
    <3> QED
      BY <2>1, <3>1, <3>2 DEF CallInv, EngineWaits
  <2> QED
    BY <2>1, <2>2, EngineCallInv
<1>4. CASE CompleteHold
  <2>1. /\ engine.pc = "complete"
        /\ EngineCall(CompleteRefused(engine.ref), ReleaseCompletedHold(engine.ref))
    BY <1>4 DEF CompleteHold
  <2>2. ASSUME ReleaseCompletedHold(engine.ref) PROVE CallInv'
    <3>1. owner' = "engine" /\ engine' = engine
      BY <2>1, <2>2 DEF EngineCall, ReleaseCompletedHold
    <3>2. op'.kind = "complete"
      BY <2>2, OtherBegins DEF Begun
    <3> QED
      BY <2>1, <3>1, <3>2 DEF CallInv, EngineWaits
  <2> QED
    BY <2>1, <2>2, EngineCallInv
<1>5. CASE Retire
  <2>1. CASE engine.retiring = {}
    <3>1. UNCHANGED <<refVars, owner, daemon>> /\ owner # "engine"
      BY <1>5, <2>1 DEF Retire, CallInv, EngineWaits
    <3>2. DaemonCall' = DaemonCall /\ CoveredSnapshots(op.proof)' = CoveredSnapshots(op.proof)
      BY <3>1 DEF DaemonCall, CoveredSnapshots, Covers, refVars
    <3> QED
      BY <3>1, <3>2 DEF CallInv, refVars
  <2>2. CASE \E p \in engine.retiring : EngineCall(p \notin proofs, ReleaseReference(p))
    <3>1. PICK p \in engine.retiring : EngineCall(p \notin proofs, ReleaseReference(p))
      BY <2>2
    <3>2. ASSUME ReleaseReference(p) PROVE CallInv'
      <4>1. owner' = "engine" /\ engine' = engine
        BY <3>1, <3>2 DEF EngineCall, ReleaseReference
      <4>2. op'.kind = "release" /\ op'.proof = p /\ op'.todo \subseteq CoveredSnapshots(p)
        BY ZenonT(60), <3>2, OtherBegins DEF Begun
      <4>3. engine.pc = "retire"
        BY <1>5 DEF Retire
      <4>4. CoveredSnapshots(op.proof)' = CoveredSnapshots(p)
        BY <4>2 DEF CoveredSnapshots, Covers
      <4> QED
        BY <4>1, <4>2, <4>3, <4>4 DEF CallInv, EngineWaits
    <3> QED
      BY <3>1, <3>2, EngineCallInv
  <2> QED
    BY <1>5, <2>1, <2>2 DEF Retire
<1> QED
  BY <1>1, <1>2, <1>3, <1>4, <1>5

LEMMA CallInvStep ==
  ASSUME IInv, TransferTypeOK, CallInv, PinInv, [Next]_vars
  PROVE  CallInv'
<1>0. TypeOK /\ op \in Op
  BY DEF TransferTypeOK, TypeOK
<1>1. CASE LifecycleWrite
  <2>1. /\ op'.kind = op.kind /\ op'.proof = op.proof /\ op'.asked = op.asked
        /\ op'.todo \subseteq op.todo
        /\ op.kind = "protect" => holds \subseteq holds' /\ op.todo \ op'.todo \subseteq holds'
    BY <1>0, <1>1, WriteIs DEF LifecycleWrite
  <2>2. UNCHANGED <<owner, daemon, engine>>
    BY <1>1 DEF LifecycleWrite, transferVars
  <2>3. op # NoOp
    BY <1>1 DEF LifecycleWrite, Write, WriteProof, Hold, Bookmark, ReleaseHold, DestroyBookmark,
       ReleaseSourceHold, InheritProof, DestroySnapshot, NoOp
  <2>4. owner' # "none"
    BY <2>2, <2>3 DEF CallInv
  <2>5. (owner = "daemon" => DaemonCall') /\ (owner = "engine" => EngineWaits')
    BY <2>1, <2>2 DEF CallInv, DaemonCall, EngineWaits
  <2>6. op'.kind = "protect" => op'.asked \ op'.todo \subseteq holds'
    BY <2>1 DEF CallInv
  <2>7. CoveredSnapshots(op.proof)' = CoveredSnapshots(op.proof)
    BY <2>1 DEF CoveredSnapshots, Covers
  <2>8. op'.kind = "release" => op'.todo \subseteq CoveredSnapshots(op.proof)'
    BY <2>1, <2>7 DEF CallInv
  <2> QED
    BY <2>2, <2>4, <2>5, <2>6, <2>8 DEF CallInv
<1>2. CASE LifecycleReturn \/ LifecycleError \/ Crash
  <2>1. op' = NoOp /\ owner' = "none"
    BY ZenonT(60), <1>2 DEF LifecycleReturn, LifecycleError, Crash, Return, Abort, DaemonReturn, EngineReturn
  <2> QED
    BY <2>1, NoOpIs DEF CallInv
<1>3. CASE \/ \E ds \in SUBSET Dataset : SnapshotJob(ds)
           \/ ProtectCreated \/ ReleaseSupersededPending
           \/ \E d \in Dataset, chosen \in SUBSET Prunable : PruneJob(d, chosen)
  BY <1>3, DaemonCalls
<1>4. CASE ProtectEndpoint \/ ProtectBase \/ Checkpoint \/ CompleteHold \/ Retire
  BY <1>4, EngineCalls
<1>5. CASE Coalesce \/ UNCHANGED vars \/ DestinationPrune
  <2>1. UNCHANGED <<op, holds, owner, engine>> /\ (daemon' = daemon \/ daemon.pc = "coalesce")
    BY <1>5, Zenon DEF Coalesce, vars, refVars, transferVars, DestinationPrune
  <2>2. owner = "daemon" => daemon' = daemon
    BY <2>1 DEF CallInv, DaemonCall
  <2>3. (owner = "daemon" => DaemonCall') /\ (owner = "engine" => EngineWaits')
    BY <2>1, <2>2 DEF CallInv, DaemonCall, EngineWaits
  <2>4. CoveredSnapshots(op.proof)' = CoveredSnapshots(op.proof)
    BY <2>1 DEF CoveredSnapshots, Covers
  <2> QED
    BY <2>1, <2>3, <2>4 DEF CallInv
<1>6. CASE BeginStreams \/ NextStream \/ FinishStreams \/ LoadAndPlan \/ Recheck
           \/ SendCompletes \/ SendFails \/ Verify
  <2>1. /\ UNCHANGED <<op, holds, owner, daemon>>
        /\ engine.pc \in {"idle", "next", "plan", "recheck", "send", "verify"}
    BY <1>6, Zenon DEF BeginStreams, NextStream, FinishStreams, LoadAndPlan, Recheck,
       SendCompletes, SendFails, Verify, refVars
  <2>2. owner # "engine"
    BY <2>1 DEF CallInv, EngineWaits
  <2>3. DaemonCall' = DaemonCall
    BY <2>1 DEF DaemonCall
  <2>4. CoveredSnapshots(op.proof)' = CoveredSnapshots(op.proof)
    BY <2>1 DEF CoveredSnapshots, Covers
  <2> QED
    BY <2>1, <2>2, <2>3, <2>4 DEF CallInv
<1> QED
  BY <1>1, <1>2, <1>3, <1>4, <1>5, <1>6 DEF Next

-----------------------------------------------------------------------------
(* Proofs, pending work and holds.                                         *)

\* What a step does to the stored proofs and to the holds.
LEMMA ReferenceSteps ==
  ASSUME IInv, TransferTypeOK, [Next]_vars
  PROVE  \/ LifecycleWrite
         \/ /\ holds' = holds /\ proofs' = proofs /\ bookmarks' = bookmarks
            /\ \/ op' = op \/ op' = NoOp
               \/ op'.proof \in proofs \/ op'.proof.recursive = FALSE
<1>1. CASE \E ds \in SUBSET Dataset : SnapshotJob(ds)
  BY <1>1 DEF SnapshotJob, CreateSnapshot
<1>2. CASE ProtectCreated
  BY Zenon, <1>2, ProtectBegins DEF ProtectCreated, refVars, zfs
<1>3. CASE ProtectEndpoint \/ ProtectBase
  BY Zenon, <1>3, ProtectBegins DEF ProtectEndpoint, ProtectBase, EngineCall, refVars, zfs
<1>4. CASE ReleaseSupersededPending
  BY ZenonT(60), <1>4, OtherBegins DEF ReleaseSupersededPending, Begun, refVars, zfs
<1>5. CASE Checkpoint
  BY <1>5, OtherBegins DEF Checkpoint, EngineCall, Begun, refVars, zfs
<1>6. CASE CompleteHold \/ Retire
  BY Zenon, <1>6, OtherBegins DEF CompleteHold, Retire, EngineCall, Begun, refVars, zfs
<1>7. CASE \E d \in Dataset, chosen \in SUBSET Prunable : PruneJob(d, chosen)
  BY <1>7 DEF PruneJob, Prune, Begin, NoProof, zfs
<1>8. CASE LifecycleReturn \/ LifecycleError \/ Crash
  BY Zenon, <1>8 DEF LifecycleReturn, LifecycleError, Crash, Return, Abort, zfs
<1>9. CASE \/ Coalesce \/ BeginStreams \/ NextStream \/ FinishStreams \/ LoadAndPlan \/ Recheck
           \/ SendCompletes \/ SendFails \/ Verify \/ DestinationPrune \/ UNCHANGED vars
  BY <1>9, Zenon DEF Coalesce, BeginStreams, NextStream, FinishStreams, LoadAndPlan, Recheck,
     SendCompletes, SendFails, Verify, DestinationPrune, vars, refVars
<1> QED
  BY Zenon, <1>1, <1>2, <1>3, <1>4, <1>5, <1>6, <1>7, <1>8, <1>9 DEF Next

LEMMA ProofStep ==
  ASSUME IInv, TransferTypeOK, ProofInv, [Next]_vars
  PROVE  ProofInv'
<1>1. CASE LifecycleWrite
  <2>1. op'.proof = op.proof /\ proofs' \subseteq proofs \cup {op.proof}
    BY <1>1, WriteIs DEF LifecycleWrite, IInv
  <2> QED
    BY <2>1 DEF ProofInv
<1>2. CASE proofs' = proofs /\ (op' = op \/ op' = NoOp)
  BY <1>2, NoOpIs DEF ProofInv
<1>3. CASE proofs' = proofs /\ (op'.proof \in proofs \/ op'.proof.recursive = FALSE)
  BY <1>3 DEF ProofInv
<1> QED
  BY ZenonT(60), <1>1, <1>2, <1>3, ReferenceSteps

\* What a step does to the snapshot job.
LEMMA DaemonSteps ==
  ASSUME TransferTypeOK, CallInv, [Next]_vars
  PROVE  \/ daemon' = daemon /\ taken' = taken
         \/ /\ daemon'.pc \in {"idle", "protect"} /\ taken' = taken /\ daemon.pc # "idle"
         \/ daemon'.pc = "idle" /\ taken' = taken
         \/ daemon.pc = "idle" /\ daemon'.pc = "protect" /\ taken' = taken + 1
         \/ Coalesce
         \/ /\ daemon.pc = "protect" /\ daemon'.pc = "coalesce" /\ daemon.stream \in Dataset
            /\ daemon'.stream = daemon.stream /\ taken' = taken
<1>0. daemon \in Daemon /\ TypeOK
  BY DEF TransferTypeOK
<1>1. ASSUME NEW ds \in SUBSET Dataset, SnapshotJob(ds)
      PROVE  daemon.pc = "idle" /\ daemon'.pc = "protect" /\ taken' = taken + 1
  BY <1>0, <1>1 DEF SnapshotJob, CreateSnapshot, Daemon
<1>2. CASE ProtectCreated
  <2>1. taken' = taken
    BY ZenonT(60), <1>2, ProtectBegins DEF ProtectCreated, refVars, zfs
  <2>2. \/ daemon' = DaemonIdle
        \/ \E d \in daemon.created : daemon' = [daemon EXCEPT !.stream = d]
    BY <1>2, Zenon DEF ProtectCreated
  <2>3. daemon'.pc \in {"idle", "protect"}
    BY <1>0, <1>2, <2>2, DaemonIdleIs DEF ProtectCreated, Daemon
  <2> QED
    BY <1>2, <2>1, <2>3 DEF ProtectCreated
<1>3. CASE ReleaseSupersededPending
  <2>1. taken' = taken /\ (daemon' = daemon \/ NextCreated) /\ daemon.pc = "supersede"
    BY <1>3, OtherBegins DEF ReleaseSupersededPending, Begun, refVars, zfs
  <2> QED
    BY <1>0, <2>1, NextCreatedIs
<1>4. ASSUME NEW ok \in BOOLEAN, DaemonReturn(ok), Return \/ Abort
      PROVE  \/ daemon' = daemon /\ taken' = taken
             \/ /\ daemon'.pc \in {"idle", "protect"} /\ taken' = taken /\ daemon.pc # "idle"
             \/ /\ daemon.pc = "protect" /\ daemon'.pc = "coalesce" /\ daemon.stream \in Dataset
                /\ daemon'.stream = daemon.stream /\ taken' = taken
  <2>1. taken' = taken /\ DaemonCall
    BY <1>4 DEF Return, Abort, zfs, DaemonReturn, CallInv
  <2>2. \/ daemon' = daemon
        \/ daemon.pc # "idle" /\ (daemon' = DaemonIdle \/ NextCreated)
        \/ daemon.pc = "protect" /\ daemon' = [daemon EXCEPT !.pc = "coalesce"]
    BY <1>4, <2>1, Zenon DEF DaemonReturn, DaemonCall
  <2>3. daemon.pc = "protect" => daemon.stream \in Dataset
    BY <2>1 DEF DaemonCall
  <2> QED
    BY <1>0, <2>1, <2>2, <2>3, NextCreatedIs, DaemonIdleIs DEF Daemon
<1>5. CASE Crash
  BY <1>5, DaemonIdleIs DEF Crash, zfs
<1>6. CASE LifecycleReturn \/ LifecycleError
  <2>1. CASE EngineReturn(TRUE) \/ EngineReturn(FALSE)
    BY ZenonT(60), <1>6, <2>1 DEF LifecycleReturn, LifecycleError, EngineReturn, Return, Abort, zfs
  <2>2. CASE DaemonReturn(TRUE) \/ DaemonReturn(FALSE)
    BY ZenonT(60), <1>4, <1>6, <2>2 DEF LifecycleReturn, LifecycleError
  <2> QED
    BY Zenon, <1>6, <2>1, <2>2 DEF LifecycleReturn, LifecycleError
<1>7. CASE LifecycleWrite
  BY ZenonT(60), <1>0, <1>7, WriteIs DEF LifecycleWrite, transferVars
<1>8. CASE \E d \in Dataset, chosen \in SUBSET Prunable : PruneJob(d, chosen)
  BY <1>8 DEF PruneJob, Prune, Begin, zfs
<1>9. CASE ProtectEndpoint \/ ProtectBase
  BY Zenon, <1>9, ProtectBegins DEF ProtectEndpoint, ProtectBase, EngineCall, refVars, zfs
<1>10. CASE Checkpoint \/ CompleteHold \/ Retire
  BY ZenonT(60), <1>10, OtherBegins DEF Checkpoint, CompleteHold, Retire, EngineCall, Begun, refVars, zfs
<1>11. CASE BeginStreams \/ NextStream \/ FinishStreams \/ LoadAndPlan \/ Recheck
           \/ SendCompletes \/ SendFails \/ Verify \/ DestinationPrune \/ UNCHANGED vars
  BY <1>11, Zenon DEF BeginStreams, NextStream, FinishStreams, LoadAndPlan, Recheck,
     SendCompletes, SendFails, Verify, DestinationPrune, vars, refVars, transferVars
<1> QED
  BY <1>1, <1>2, <1>3, <1>5, <1>6, <1>7, <1>8, <1>9, <1>10, <1>11 DEF Next

LEMMA SupersedeStep ==
  ASSUME TransferTypeOK, CallInv, PinInv, PinInv', SupersedeInv, [Next]_vars
  PROVE  SupersedeInv'
<1>0. /\ daemon \in Daemon /\ taken \in Nat /\ engine.pin = active /\ engine'.pin = active'
      /\ jobs \in [Dataset -> 0 .. MaxInstant] /\ active \in [Dataset -> 0 .. MaxInstant]
  BY MaxInstantAssumption DEF TransferTypeOK, TypeOK, PinInv
<1>1. CASE Coalesce
  <2> DEFINE d == daemon.stream
             new == IF jobs[d] >= taken THEN jobs[d] ELSE taken
  <2>1. /\ d \in Dataset /\ daemon.pc = "coalesce" /\ active' = active /\ taken' = taken
        /\ jobs' = [jobs EXCEPT ![d] = IF @ >= taken THEN @ ELSE taken]
    BY <1>1 DEF Coalesce, refVars, SupersedeInv
  <2>2. jobs'[d] = new /\ \A e \in Dataset : e # d => jobs'[e] = jobs[e]
    BY <1>0, <2>1
  <2>3. Replicated => taken # 0 /\ taken # 1
    BY <2>1 DEF SupersedeInv
  <2>4. Replicated => new # 1
    BY <2>1, <2>3 DEF SupersedeInv
  <2>5. CASE NextCreated
    <3>1. daemon'.pc \in {"idle", "protect"}
      BY <1>0, <2>5, NextCreatedIs
    <3> HIDE DEF new
    <3> QED
      BY <2>1, <2>2, <2>3, <2>4, <3>1 DEF SupersedeInv
  <2>6. CASE /\ jobs[d] # 0 /\ jobs[d] < taken /\ active[d] # jobs[d]
             /\ daemon' = [daemon EXCEPT !.pc = "supersede", !.victim = jobs[d]]
    <3>1. daemon'.pc = "supersede" /\ daemon'.victim = jobs[d] /\ daemon'.stream = d
      BY <1>0, <2>6 DEF Daemon
    <3>2. jobs[d] \in Nat
      BY <1>0, <2>1, MaxInstantAssumption
    <3>3. new # jobs[d]
      BY <1>0, <2>6, <3>2
    <3> HIDE DEF new
    <3>4. Replicated => jobs[d] # 1
      BY <2>1 DEF SupersedeInv
    <3>5. engine'.pin[d] # jobs[d]
      BY <1>0, <2>1, <2>6
    <3> QED
      BY <2>1, <2>2, <2>3, <2>4, <2>6, <3>1, <3>3, <3>4, <3>5 DEF SupersedeInv
  <2> QED
    BY <1>1, <2>5, <2>6 DEF Coalesce
<1>2. CASE ~Coalesce
  <2>1. \A e \in Dataset : jobs'[e] \in {jobs[e], 0}
    BY Zenon, <1>0, <1>2, PendingSteps DEF BeginStreams, FinishStreams, Crash, None
  <2>2. \A e \in Dataset : active'[e] \in {active[e], jobs[e], 0}
    BY Zenon, <1>0, <1>2, PendingSteps DEF BeginStreams, FinishStreams, Crash, None
  <2>3. Replicated => \A e \in Dataset : jobs'[e] # 1
    BY <2>1 DEF SupersedeInv
  <2>4. CASE daemon' = daemon /\ taken' = taken
    <3>1. daemon.pc = "supersede" =>
            /\ jobs'[daemon.stream] # daemon.victim /\ engine'.pin[daemon.stream] # daemon.victim
      BY <1>0, <2>1, <2>2 DEF SupersedeInv
    <3> QED
      BY <2>3, <2>4, <3>1 DEF SupersedeInv
  <2>5. CASE daemon'.pc \in {"idle", "protect"} /\ taken' = taken /\ daemon.pc # "idle"
    BY <2>3, <2>5 DEF SupersedeInv
  <2>6. CASE daemon'.pc = "idle" /\ taken' = taken
    BY <2>3, <2>6 DEF SupersedeInv
  <2>7. CASE daemon.pc = "idle" /\ daemon'.pc = "protect" /\ taken' = taken + 1
    <3>1. Replicated => taken' # 0 /\ taken' # 1
      BY <1>0, <2>7 DEF SupersedeInv
    <3> QED
      BY <2>3, <2>7, <3>1 DEF SupersedeInv
  <2>8. CASE /\ daemon.pc = "protect" /\ daemon'.pc = "coalesce" /\ daemon.stream \in Dataset
             /\ daemon'.stream = daemon.stream /\ taken' = taken
    BY <2>3, <2>8 DEF SupersedeInv
  <2> QED
    BY <1>2, <2>4, <2>5, <2>6, <2>7, <2>8, DaemonSteps
<1> QED
  BY <1>1, <1>2

LEMMA EndpointStep ==
  ASSUME TransferTypeOK, CallInv, PinInv, EndpointInv, [Next]_vars
  PROVE  EndpointInv'
<1>1. CASE engine' = engine
  BY <1>1 DEF EndpointInv
<1>2. CASE engine' = EngineIdle
  BY <1>2, EngineIdleIs DEF EndpointInv, Prepared
<1>3. CASE BeginStreams
  <2>1. engine'.pc = "next"
    BY <1>3 DEF BeginStreams, TransferTypeOK, Engine
  <2> QED
    BY <2>1 DEF EndpointInv, Prepared
<1>4. CASE Ended \/ Turns
  BY <1>4 DEF Ended, Turns, EndpointInv, Prepared
<1>5. CASE Planning
  <2>0. engine.stream \in Dataset
    BY <1>5 DEF Planning, PinInv
  <2>1. engine'.plan.endpoint \in Instant
    <3>1. CASE engine'.plan \in BuildResume(engine.stream)
      BY <2>0, <3>1, ResumeGood
    <3>2. CASE engine'.plan \in Build(engine.stream)
      <4>1. PlanGood(engine'.plan, engine.stream)
        BY <2>0, <3>2, BuildGood, Zenon
      <4> QED
        BY <4>1 DEF PlanGood
    <3> QED
      BY <1>5, <3>1, <3>2 DEF Planning
  <2> QED
    BY <2>1, MaxInstantAssumption DEF EndpointInv, Instant
<1>6. CASE Settling \/ Sending1 \/ Returning
  BY <1>6 DEF Settling, Sending1, Returning, Goes, EndpointInv, Prepared
<1> QED
  BY <1>1, <1>2, <1>3, <1>4, <1>5, <1>6, EngineSteps DEF EngineStep

\* The hold on what is reserved survives the step.
LEMMA HoldStays ==
  ASSUME IInv, TransferTypeOK, CallInv, ProofInv, PinInv, SupersedeInv, EndpointInv, [Next]_vars,
         engine.pc \in Prepared, engine.pin[engine.stream] = engine.plan.endpoint,
         <<engine.stream, engine.plan.endpoint>> \in holds
  PROVE  <<engine.stream, engine.plan.endpoint>> \in holds'
<1> DEFINE d == engine.stream
           i == engine.plan.endpoint
<1>0. d \in Dataset /\ i # 0
  BY DEF PinInv, EndpointInv, Prepared
<1>1. CASE holds' = holds
  BY <1>1
<1>2. CASE LifecycleWrite
  <2>1. /\ holds \subseteq holds' \/ op.kind \in {"complete", "release"}
        /\ holds \ holds' \subseteq op.todo
    BY <1>2, WriteIs DEF LifecycleWrite, IInv
  <2>2. CASE op.kind \in {"complete", "release"}
    <3>0. op # NoOp
      BY <2>2, NoOpIs
    <3>1. owner = "daemon" /\ DaemonCall
      BY <2>2, <3>0 DEF CallInv, EngineWaits, Prepared, TransferTypeOK
    <3>2. /\ op.kind = "release" /\ op.todo \subseteq CoveredSnapshots(op.proof)
          /\ op.proof.stream = daemon.stream /\ op.proof.instant = daemon.victim
          /\ daemon.pc = "supersede"
      BY <2>2, <3>1 DEF DaemonCall, CallInv
    <3>3. ASSUME <<d, i>> \in CoveredSnapshots(op.proof) PROVE FALSE
      <4>1. d \in Covers(op.proof) /\ i = op.proof.instant
        BY <3>3 DEF CoveredSnapshots
      <4>2. CASE op.proof.recursive
        <5>1. Replicated /\ daemon.victim = 1
          BY <3>2, <4>2 DEF ProofInv
        <5> QED
          BY <3>2, <5>1 DEF SupersedeInv
      <4>3. CASE ~op.proof.recursive
        <5>1. d = daemon.stream
          BY <3>2, <4>1, <4>3 DEF Covers
        <5> QED
          BY <3>2, <4>1, <5>1 DEF SupersedeInv
      <4> QED
        BY <4>2, <4>3
    <3> QED
      BY <2>1, <3>2, <3>3
  <2> QED
    BY <2>1, <2>2
<1> QED
  BY ZenonT(60), <1>1, <1>2, ReferenceSteps

LEMMA HeldStep ==
  ASSUME IInv, TransferTypeOK, CallInv, ProofInv, PinInv, SupersedeInv, EndpointInv, HeldInv,
         [Next]_vars
  PROVE  HeldInv'
<1> DEFINE d == engine.stream
           i == engine.plan.endpoint
<1>1. ASSUME engine.pc \in Prepared, engine'.stream = engine.stream, engine'.pin = engine.pin,
             engine'.plan = engine.plan
      PROVE  HeldInv'
  <2>1. /\ engine'.plan.mode # "resume" /\ engine'.pin[engine'.stream] = engine'.plan.endpoint
        => <<d, i>> \in holds
    BY <1>1 DEF HeldInv
  <2>2. /\ engine'.plan.mode # "resume" /\ engine'.pin[engine'.stream] = engine'.plan.endpoint
        => <<d, i>> \in holds'
    BY <1>1, <2>1, HoldStays
  <2> QED
    BY <1>1, <2>2 DEF HeldInv
<1>2. CASE engine' = engine
  <2>1. CASE engine.pc \in Prepared
    BY <1>1, <1>2, <2>1
  <2>2. CASE engine.pc \notin Prepared
    BY <1>2, <2>2 DEF HeldInv
  <2> QED
    BY <2>1, <2>2
<1>3. CASE engine' = EngineIdle
  BY <1>3, EngineIdleIs DEF HeldInv, Prepared
<1>4. CASE BeginStreams
  <2>1. engine'.pc = "next"
    BY <1>4 DEF BeginStreams, TransferTypeOK, Engine
  <2> QED
    BY <2>1 DEF HeldInv, Prepared
<1>5. CASE Ended \/ Turns
  BY <1>5 DEF Ended, Turns, HeldInv, Prepared
<1>6. CASE Planning
  <2>1. CASE engine'.pc = "endpoint"
    BY <2>1 DEF HeldInv, Prepared
  <2>2. CASE engine'.plan \in BuildResume(engine.stream)
    <3>1. engine.stream \in Dataset
      BY <1>6 DEF Planning, PinInv
    <3>2. engine'.plan.mode = "resume"
      BY <2>2, <3>1, ResumeGood
    <3> QED
      BY <3>2 DEF HeldInv
  <2> QED
    BY <1>6, <2>1, <2>2 DEF Planning
<1>7. CASE Settling \/ Sending1
  BY <1>1, <1>7 DEF Settling, Sending1, Goes, Prepared
<1>8. CASE Returning
  <2>1. CASE Goes({"endpoint"}, {"base", "recheck"})
    <3>1. op.kind = "protect" /\ op.asked = {<<d, i>>} /\ op.todo = {} /\ holds' = holds
      BY <1>8, <2>1 DEF Returning, Goes, Return, Finished, zfs, CallInv, EngineWaits
    <3>2. <<d, i>> \in holds'
      BY <3>1 DEF CallInv
    <3> QED
      BY <2>1, <3>2 DEF HeldInv, Goes
  <2>2. CASE Goes({"base"}, {"recheck"})
    BY <1>1, <2>2 DEF Goes, Prepared
  <2>3. CASE Goes({"checkpoint", "complete", "retire"}, {"complete", "retire"})
    BY <2>3 DEF Goes, HeldInv, Prepared
  <2> QED
    BY <1>8, <2>1, <2>2, <2>3 DEF Returning
<1> QED
  BY <1>2, <1>3, <1>4, <1>5, <1>6, <1>7, <1>8, EngineSteps DEF EngineStep

-----------------------------------------------------------------------------
(* The order of what is received.                                          *)

\* What a stream delivers is newer than all its dataset has.
LEMMA Ahead ==
  ASSUME TransferTypeOK, ReceiveInv, engine.pc = "send", engine.stream \in Dataset,
         NEW x \in received, x[1] = engine.stream, NEW i \in Sending(engine.stream)
  PROVE  x[2] < i
<1> DEFINE d == engine.stream
           base == engine.plan.base
           e == engine.plan.endpoint
<1>0. i \in Nat /\ i # 0 /\ x[2] \in Nat /\ base \in Nat /\ e \in Nat
  <2>1. i \in Instant
    BY SendingIs
  <2>2. x \in Snapshot /\ engine.plan \in Plan
    BY DEF TransferTypeOK, Engine
  <2> QED
    BY <2>1, <2>2, MaxInstantAssumption DEF Snapshot, Plan, Instant
<1>1. CASE engine.plan.mode = "resume"
  <2>1. i = token[d]
    BY <1>1 DEF Sending
  <2> QED
    BY <1>0, <2>1 DEF ReceiveInv
<1>2. CASE engine.plan.mode # "resume"
  <2>1. i \in Carried(d, base, e)
    BY <1>2 DEF Sending
  <2>2. base < e /\ x[2] =< base
    BY <1>2 DEF ReceiveInv
  <2>3. base < i
    BY <2>1, <2>2 DEF Carried
  <2> QED
    BY <1>0, <2>2, <2>3
<1> QED
  BY <1>1, <1>2

LEMMA TokenStep ==
  ASSUME TransferTypeOK, PinInv, ReceiveInv, [Next]_vars
  PROVE  \A x \in received' : token'[x[1]] # 0 => x[2] < token'[x[1]]
<1>1. CASE UNCHANGED <<received, token>> \/ DestinationPrune
  BY <1>1 DEF DestinationPrune, ReceiveInv
<1>2. CASE ReceiveStep
  <2> DEFINE d == engine.stream
  <2>0. d \in Dataset /\ engine.pc = "send" /\ token \in [Dataset -> 0 .. MaxInstant]
        /\ \A x \in received : x[1] \in Dataset
    BY <1>2 DEF ReceiveStep, TransferTypeOK, Snapshot
  <2>1. CASE /\ received' = received \cup ({d} \X Sending(d))
             /\ token' = [token EXCEPT ![d] = 0]
    <3>1. token'[d] = 0 /\ \A e \in Dataset : e # d => token'[e] = token[e]
      BY <2>0, <2>1
    <3> QED
      BY <2>0, <2>1, <3>1 DEF ReceiveInv
  <2>2. CASE \E i \in Sending(d) : PartialReceive(d, i)
    <3>1. PICK i \in Sending(d) : PartialReceive(d, i)
      BY <2>2
    <3>2. PICK kept \in {0, i} : token' = [token EXCEPT ![d] = IF @ = i THEN i ELSE kept]
      BY ZenonT(60), <3>1 DEF PartialReceive
    <3>3. token'[d] \in {0, i} /\ \A e \in Dataset : e # d => token'[e] = token[e]
      BY <2>0, <3>2
    <3>4. received' = received \cup ({d} \X {j \in Sending(d) : j < i})
      BY <3>1 DEF PartialReceive
    <3>5. ASSUME NEW x \in received, x[1] = d PROVE x[2] < i
      BY <2>0, <3>5, Ahead
    <3> QED
      BY <2>0, <3>3, <3>4, <3>5 DEF ReceiveInv
  <2> QED
    BY <1>2, <2>1, <2>2 DEF ReceiveStep
<1> QED
  BY <1>1, <1>2, ReceiveSteps

LEMMA ReceiveInvStep ==
  ASSUME TransferTypeOK, CallInv, PinInv, ReceiveInv, [Next]_vars
  PROVE  ReceiveInv'
<1> SUFFICES ASSUME engine'.pc = "send", engine'.plan.mode # "resume"
             PROVE  /\ engine'.plan.base < engine'.plan.endpoint
                    /\ \A x \in received' : x[1] = engine'.stream => x[2] =< engine'.plan.base
  BY TokenStep DEF ReceiveInv
<1>1. CASE engine' = engine
  <2>1. received' \subseteq received
    BY <1>1, ReceiveSteps DEF ReceiveStep, DestinationPrune
  <2> QED
    BY <1>1, <2>1 DEF ReceiveInv
<1>2. CASE engine' = EngineIdle
  BY <1>2, EngineIdleIs
<1>3. CASE BeginStreams
  BY <1>3 DEF BeginStreams, TransferTypeOK, Engine
<1>4. CASE Ended \/ Turns \/ Planning \/ Settling \/ Returning
  BY <1>4 DEF Ended, Turns, Planning, Settling, Returning, Goes
<1>5. CASE Sending1
  <2>1. /\ engine.pc = "recheck" /\ engine'.plan = engine.plan /\ engine'.stream = engine.stream
        /\ engine.plan \in Build(engine.stream) /\ engine.plan.mode # "up-to-date"
    BY <1>5 DEF Sending1, Goes
  <2>2. received' = received
    BY <2>1, ReceiveSteps DEF ReceiveStep, DestinationPrune
  <2>3. PlanGood(engine.plan, engine.stream)
    BY <2>1, BuildGood, Zenon DEF PinInv
  <2> QED
    BY <2>1, <2>2, <2>3 DEF PlanGood
<1> QED
  BY <1>1, <1>2, <1>3, <1>4, <1>5, EngineSteps DEF EngineStep

-----------------------------------------------------------------------------
(* The inductive invariant of the jobs, and what follows.                   *)

LEMMA InitTInv == Init => TInv
<1> SUFFICES ASSUME Init PROVE TInv
  OBVIOUS
<1>0. /\ op = NoOp /\ token = None /\ jobs = None /\ active = None /\ owner = "none"
      /\ daemon = DaemonIdle /\ engine = EngineIdle /\ received = snapshots
      /\ unbacked = {} /\ (Replicated => taken = 1)
  BY DEF Init
<1>1. IInv /\ TypeOK
  BY TransferInitIInv DEF IInv
<1>2. None \in [Dataset -> 0 .. MaxInstant] /\ \A d \in Dataset : None[d] = 0
  BY MaxInstantAssumption DEF None
<1>3. TransferTypeOK
  BY <1>0, <1>1, <1>2, DaemonIdleIs, EngineIdleIs DEF TransferTypeOK, TypeOK
<1>4. CallInv
  BY <1>0, NoOpIs DEF CallInv
<1>5. ProofInv
  <2>1. \A p \in proofs : Replicated /\ p.instant = 1
    BY DEF Init, Requested
  <2> QED
    BY <1>0, <2>1, NoOpIs DEF ProofInv
<1>6. PinInv
  BY <1>0, EngineIdleIs DEF PinInv
<1>7. SupersedeInv
  BY <1>0, <1>2, DaemonIdleIs DEF SupersedeInv
<1>8. HeldInv /\ EndpointInv
  BY <1>0, EngineIdleIs DEF HeldInv, EndpointInv, Prepared
<1>9. ReceiveInv
  <2>1. \A x \in received : token[x[1]] = 0
    BY <1>0, <1>2, <1>3 DEF TransferTypeOK, Snapshot
  <2> QED
    BY <1>0, <2>1, EngineIdleIs DEF ReceiveInv
<1> QED
  BY <1>1, <1>3, <1>4, <1>5, <1>6, <1>7, <1>8, <1>9 DEF TInv

LEMMA TInvStep == TInv /\ [Next]_vars => TInv'
<1> SUFFICES ASSUME TInv, [Next]_vars PROVE TInv'
  OBVIOUS
<1> USE DEF TInv
<1>1. IInv'
  <2>1. [RefNext]_refVars
    BY StepRefNext DEF vars, refVars
  <2> QED
    BY <2>1, StepIInv
<1>2. TransferTypeOK'
  BY <1>1, TransferTypeStep
<1>3. CallInv'
  BY CallInvStep
<1>4. ProofInv'
  BY ProofStep
<1>5. PinInv'
  BY PinStep
<1>6. SupersedeInv'
  BY <1>5, SupersedeStep
<1>7. HeldInv'
  BY HeldStep
<1>8. EndpointInv'
  BY EndpointStep
<1>9. ReceiveInv'
  BY ReceiveInvStep
<1> QED
  BY <1>1, <1>2, <1>3, <1>4, <1>5, <1>6, <1>7, <1>8, <1>9

\* The types of the jobs' state, whose call of the lifecycle service is under
\* way, what is reserved, held and superseded, and what a stream will bring:
\* the inductive invariant of the snapshot job and the transfer engine.
THEOREM JobsInvariant == Spec => []TInv
BY InitTInv, TInvStep, PTL DEF Spec

\* A reservation of BeginStreams ends with the transfer job, and while it lasts
\* it is what that job pinned, however jobs interleave and fail.
THEOREM ReservationsEnd == Spec => []ReservationEnds
<1>1. TInv => ReservationEnds
  <2> SUFFICES ASSUME TInv, NEW d \in Dataset, active[d] # 0
               PROVE  engine.pc # "idle" /\ engine.pin[d] = active[d]
    BY DEF ReservationEnds
  <2>1. active = engine.pin /\ (engine.pc = "idle" => engine = EngineIdle)
    BY DEF TInv, PinInv
  <2>2. EngineIdle.pin[d] = 0
    BY EngineIdleIs DEF None
  <2> QED
    BY <2>1, <2>2
<1> QED
  BY <1>1, JobsInvariant, PTL

\* A reserved endpoint is held from its protection to its checkpoint: no snapshot
\* job's Coalesce, on whatever state of the pending set, gives it up.
THEOREM ReservedAreHeld == Spec => []ReservedHeld
<1>1. TInv => ReservedHeld
  BY DEF TInv, HeldInv, Prepared, ReservedHeld
<1> QED
  BY <1>1, JobsInvariant, PTL

\* No stream, planned or resumed, complete or interrupted, brings the destination
\* a snapshot older than one it has.
THEOREM ReceivedInOrder == Spec => ReceiveOrder
<1>1. TInv /\ [Next]_vars => [\A x \in received' \ received, y \in received :
                                 x[1] = y[1] => y[2] < x[2]]_vars
  <2> SUFFICES ASSUME TInv, [Next]_vars, NEW x \in received' \ received, NEW y \in received,
                      x[1] = y[1]
               PROVE  y[2] < x[2]
    OBVIOUS
  <2>0. TransferTypeOK /\ PinInv /\ ReceiveInv
    BY DEF TInv
  <2>1. ReceiveStep
    BY <2>0, ReceiveSteps DEF DestinationPrune
  <2>2. x[1] = engine.stream /\ x[2] \in Sending(engine.stream)
    BY <2>1 DEF ReceiveStep, PartialReceive
  <2> QED
    BY ZenonT(60), <2>0, <2>1, <2>2, Ahead DEF ReceiveStep
<1> QED
  BY <1>1, JobsInvariant, PTL DEF Spec, ReceiveOrder
=============================================================================
