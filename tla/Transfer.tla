------------------------------ MODULE Transfer ------------------------------
(***************************************************************************)
(* One root replicating to one target: the daemon's snapshot job (which     *)
(* protects what it creates and coalesces it as pending work), its prune    *)
(* jobs at both ends, and the transfer job with the engine it runs, over    *)
(* the recovery references of module References.                            *)
(*                                                                         *)
(* Every dataset is a member with a stream of its own (replicate=off).      *)
(* Jobs of the root's key are serialized by its lock (process "daemon");    *)
(* the transfer and the destination prune are serialized by the target's    *)
(* lock (process "engine").  The two kinds of job interleave freely; only   *)
(* lifecycle operations exclude one another, through the root's hierarchy   *)
(* lock.                                                                    *)
(***************************************************************************)
EXTENDS References

CONSTANTS
    Incremental, \* the values the target's incremental policy may take
    Replicated,  \* the target starts as a send -R transfer of instant 1 left it
    Faults       \* which of "crash", "interrupt" and "error" may happen

ASSUME TransferAssumption ==
    /\ Incremental \subseteq {"latest", "all"}
    /\ Replicated \in BOOLEAN
    /\ Faults \subseteq {"crash", "interrupt", "error"}
    /\ Replicated => MaxInstant > 0 /\ \E d \in Dataset : Beneath[d] = Dataset

\* applySettled plans a stream this many times at most.
PreparationAttempts == 3

VARIABLES
    received,    \* snapshots the destination has, each with its source's GUID
    unbacked,    \* history: snapshots that arrived unheld or were superseded, and
                 \* that the engine has not protected since
    token,       \* token[d]: the snapshot instant d's resume token is for; 0: none
    jobs,        \* PendingSet.jobs: pending instant of each stream; 0: none
    active,      \* PendingSet.active: reserved instant of each stream; 0: none
    owner,       \* whose call of the lifecycle service is under way
    daemon,      \* the snapshot job
    engine       \* the transfer job

transferVars == <<received, unbacked, token, jobs, active, owner, daemon, engine>>
vars == <<refVars, transferVars>>

None == [d \in Dataset |-> 0]

NoPlan == [mode |-> "none", endpoint |-> 0, base |-> 0, bookmark |-> FALSE,
           expected |-> {}]

NoView == [snapshots |-> {}, holds |-> {}, bookmarks |-> {}, proofs |-> {}]

\* Idle jobs hold no state worth keeping.
DaemonIdle == [pc |-> "idle", created |-> {}, stream |-> "none", victim |-> 0]

EngineIdle ==
    [pc |-> "idle", incremental |-> "none", left |-> {}, stream |-> "none",
     pin |-> None, done |-> None, plan |-> NoPlan, view |-> NoView, ref |-> NoProof,
     attempt |-> 1, second |-> FALSE, retiring |-> {}]

Daemon == [pc : {"idle", "protect", "coalesce", "supersede"},
           created : SUBSET Dataset,
           stream : Dataset \cup {"none"},
           victim : 0 .. MaxInstant]

Plan == [mode : {"none", "up-to-date", "full", "incremental", "resume"},
         endpoint : 0 .. MaxInstant,
         base : 0 .. MaxInstant,
         bookmark : BOOLEAN,
         expected : SUBSET Instant]

View == [snapshots : SUBSET Snapshot, holds : SUBSET Snapshot,
         bookmarks : SUBSET Snapshot, proofs : SUBSET Proof]

Engine == [pc : {"idle", "next", "plan", "endpoint", "base", "recheck", "send",
                 "verify", "checkpoint", "complete", "retire"},
           incremental : Incremental \cup {"none"},
           left : SUBSET Dataset,
           stream : Dataset \cup {"none"},
           pin : [Dataset -> 0 .. MaxInstant],
           done : [Dataset -> 0 .. MaxInstant],
           plan : Plan,
           view : View,
           ref : Proof \cup {NoProof},
           attempt : 1 .. PreparationAttempts,
           second : BOOLEAN,
           retiring : SUBSET Proof]

\* The types of the state.
TransferTypeOK ==
    /\ TypeOK
    /\ received \subseteq Snapshot
    /\ unbacked \subseteq Snapshot
    /\ token \in [Dataset -> 0 .. MaxInstant]
    /\ jobs \in [Dataset -> 0 .. MaxInstant]
    /\ active \in [Dataset -> 0 .. MaxInstant]
    /\ owner \in {"none", "daemon", "engine"}
    /\ daemon \in Daemon
    /\ engine \in Engine

-----------------------------------------------------------------------------
(* Planning: Build and BuildResume.                                        *)

\* canResumeFromBookmark, by the policy the job was given (replicate is off).
LatestOnly == engine.incremental = "latest"

InstantsOf(set, d) == {x[2] : x \in {y \in set : y[1] = d}}

Latest(instants) == CHOOSE i \in instants : \A j \in instants : j =< i

\* The destination dataset exists once a receive into it has begun.
DestinationExists(d) == InstantsOf(received, d) # {} \/ token[d] # 0

\* The pinned endpoint, or the newest owned snapshot.
Endpoints(d) ==
    {i \in InstantsOf(snapshots, d) :
        IF engine.pin[d] # 0 THEN i = engine.pin[d] ELSE Newest(<<d, i>>)}

\* Mutant of SnapshotBase: the base need not be older than the endpoint.
SnapshotBaseAnyOrder(d, e) ==
    LET latest == Latest(InstantsOf(received, d))
    IN  <<d, latest>> \in snapshots /\ latest # e

\* The source's snapshot of the destination's latest, older than the endpoint.
SnapshotBase(d, e) ==
    LET latest == Latest(InstantsOf(received, d))
    IN  <<d, latest>> \in snapshots /\ latest < e

\* Failing that, its checkpoint bookmark under a proof of the stream.
BookmarkBase(d, e) ==
    LET latest == Latest(InstantsOf(received, d))
    IN  /\ LatestOnly
        /\ <<d, latest>> \in bookmarks
        /\ Stored(d, latest) # {}
        /\ latest < e

\* What a stream carries: its endpoint, or with send -I every snapshot after
\* the base up to it.
Carried(d, base, e) ==
    IF base # 0 /\ ~LatestOnly
    THEN {i \in InstantsOf(snapshots, d) : base < i /\ i =< e}
    ELSE {e}

PlanOf(d, mode, e, base) ==
    [mode |-> mode, endpoint |-> e, base |-> base,
     bookmark |-> base # 0 /\ ~SnapshotBase(d, e),
     expected |-> Carried(d, base, e)]

\* The plan Build returns for a stream, in a set; none when it refuses: a
\* token is pending, no owned snapshot can be the endpoint, or the
\* destination's latest has no base at the source.
Build(d) ==
    UNION {
      LET latest == IF InstantsOf(received, d) = {} THEN 0
                                                    ELSE Latest(InstantsOf(received, d))
      IN  CASE token[d] # 0                            -> {}
            [] token[d] = 0 /\ <<d, e>> \in received   -> {PlanOf(d, "up-to-date", e, 0)}
            [] ~DestinationExists(d)                   -> {PlanOf(d, "full", e, 0)}
            [] OTHER -> IF SnapshotBase(d, e) \/ BookmarkBase(d, e)
                        THEN {PlanOf(d, "incremental", e, latest)}
                        ELSE {}
      : e \in Endpoints(d)}

\* Proofs of the stream whose every source is a held snapshot.
HeldProofs(d) ==
    {p \in proofs : /\ p.stream = d
                    /\ <<d, p.instant>> \in Sources(p)
                    /\ Sources(p) \subseteq holds}

\* The proof BuildResume takes for the token's: the newest held one.
ResumeProofs(d) ==
    {p \in HeldProofs(d) : \A q \in HeldProofs(d) : q.instant =< p.instant}

\* What a load of the stream shows of the source: its own snapshots, holds and
\* bookmarks, the root's, and the proofs, which are the root's properties.
Load(d) ==
    LET seen(set) == {x \in set : x[1] = d \/ Beneath[x[1]] = Dataset}
    IN  [snapshots |-> seen(snapshots), holds |-> seen(holds),
         bookmarks |-> seen(bookmarks), proofs |-> proofs]

BuildResume(d) ==
    {[mode |-> "resume", endpoint |-> p.instant, base |-> 0, bookmark |-> FALSE,
      expected |-> {p.instant}] : p \in ResumeProofs(d)}

-----------------------------------------------------------------------------
(* The snapshot job: create, then per created stream protect, coalesce and  *)
(* release the reference of what was superseded.                            *)

SnapshotJob(ds) ==
    /\ daemon.pc = "idle"
    /\ CreateSnapshot(ds)
    /\ daemon' = [daemon EXCEPT !.pc = "protect", !.created = ds]
    /\ UNCHANGED <<received, unbacked, token, jobs, active, owner, engine>>

\* protectCreated goes on with the next stream, or ends the job's part here.
NextCreated ==
    LET left == daemon.created \ {daemon.stream}
    IN  daemon' = IF left = {} THEN DaemonIdle
                  ELSE [DaemonIdle EXCEPT !.pc = "protect", !.created = left]

\* A snapshot that cannot be protected fails the job.
ProtectCreated ==
    /\ daemon.pc = "protect"
    /\ op = NoOp
    /\ \E d \in daemon.created :
        IF ProtectRefused(d, {d}, taken)
        THEN daemon' = DaemonIdle /\ UNCHANGED <<refVars, owner>>
        ELSE /\ ProtectSet(d, {d}, taken)
             /\ daemon' = [daemon EXCEPT !.stream = d]
             /\ owner' = "daemon"
    /\ UNCHANGED <<received, unbacked, token, jobs, active, engine>>

\* Mutant of Coalesce: the new snapshot, not the displaced one, is released.
CoalesceReleasesNew ==
    LET d == daemon.stream
    IN  /\ daemon.pc = "coalesce"
        /\ jobs' = [jobs EXCEPT ![d] = IF @ >= taken THEN @ ELSE taken]
        /\ IF jobs[d] # 0 /\ jobs[d] < taken /\ active[d] # jobs[d]
           THEN daemon' = [daemon EXCEPT !.pc = "supersede", !.victim = taken]
           ELSE NextCreated
        /\ UNCHANGED <<refVars, received, unbacked, token, active, owner, engine>>

\* Mutant of Coalesce: a reservation does not stop the release.
CoalesceIgnoresActive ==
    LET d == daemon.stream
    IN  /\ daemon.pc = "coalesce"
        /\ jobs' = [jobs EXCEPT ![d] = IF @ >= taken THEN @ ELSE taken]
        /\ IF jobs[d] # 0 /\ jobs[d] < taken
           THEN daemon' = [daemon EXCEPT !.pc = "supersede", !.victim = jobs[d]]
           ELSE NextCreated
        /\ UNCHANGED <<refVars, received, unbacked, token, active, owner, engine>>

\* Coalesce: the newest snapshot becomes the pending work, and the one it
\* displaces is to be released unless an attempt has reserved it.
Coalesce ==
    LET d == daemon.stream
    IN  /\ daemon.pc = "coalesce"
        /\ jobs' = [jobs EXCEPT ![d] = IF @ >= taken THEN @ ELSE taken]
        /\ IF jobs[d] # 0 /\ jobs[d] < taken /\ active[d] # jobs[d]
           THEN daemon' = [daemon EXCEPT !.pc = "supersede", !.victim = jobs[d]]
           ELSE NextCreated
        /\ UNCHANGED <<refVars, received, unbacked, token, active, owner, engine>>

ReleaseSupersededPending ==
    /\ daemon.pc = "supersede"
    /\ op = NoOp
    /\ IF Stored(daemon.stream, daemon.victim) = {}
       THEN NextCreated /\ UNCHANGED <<refVars, unbacked, owner>>
       ELSE /\ \E p \in Stored(daemon.stream, daemon.victim) : ReleaseReference(p)
            /\ unbacked' = unbacked \cup {<<daemon.stream, daemon.victim>>}
            /\ owner' = "daemon"
            /\ UNCHANGED daemon
    /\ UNCHANGED <<received, token, jobs, active, engine>>

\* The lifecycle call of the snapshot or prune job returns.  A release that
\* failed is only logged.
DaemonReturn(ok) ==
    /\ owner = "daemon"
    /\ owner' = "none"
    /\ CASE daemon.pc = "idle"      -> UNCHANGED daemon
         [] daemon.pc = "protect"   -> daemon' = IF ok THEN [daemon EXCEPT !.pc = "coalesce"]
                                                       ELSE DaemonIdle
         [] daemon.pc = "supersede" -> NextCreated
    /\ UNCHANGED <<received, unbacked, token, jobs, active, engine>>

\* Mutant of PruneJob: the snapshots are destroyed without the service's lock.
PruneUnlocked(d, chosen) ==
    /\ daemon.pc = "idle"
    /\ chosen # {}
    /\ chosen \subseteq {x \in Prunable : x[1] = d}
    /\ snapshots' = snapshots \ chosen
    /\ UNCHANGED <<taken, holds, bookmarks, proofs, op, transferVars>>

PruneJob(d, chosen) ==
    /\ daemon.pc = "idle"
    /\ Prune(d, chosen)
    /\ owner' = "daemon"
    /\ UNCHANGED <<received, unbacked, token, jobs, active, daemon, engine>>

-----------------------------------------------------------------------------
(* The transfer job: reserve pending endpoints, apply each stream parents   *)
(* first, end the reservations.                                             *)

BeginStreams ==
    /\ engine.pc = "idle"
    /\ active' = [d \in Dataset |-> IF jobs[d] # 0 THEN jobs[d] ELSE active[d]]
    /\ \E policy \in Incremental :
        engine' = [engine EXCEPT !.pc = "next", !.incremental = policy,
                                 !.left = Dataset, !.pin = jobs]
    /\ UNCHANGED <<refVars, received, unbacked, token, jobs, owner, daemon>>

NextStream ==
    /\ engine.pc = "next"
    /\ \E d \in engine.left :
        /\ \A a \in engine.left : d \in Beneath[a] => a = d
        /\ engine' = [engine EXCEPT !.pc = "plan", !.stream = d, !.attempt = 1,
                                    !.second = FALSE]
    /\ UNCHANGED <<refVars, received, unbacked, token, jobs, active, owner, daemon>>

\* Mutant of FinishStreams: only verified streams end their reservation.
FinishVerifiedOnly ==
    LET verified(d) == engine.pin[d] # 0 /\ engine.done[d] = engine.pin[d]
    IN  /\ engine.pc = "next"
        /\ engine.left = {}
        /\ active' = [d \in Dataset |-> IF verified(d) THEN 0 ELSE active[d]]
        /\ jobs' = [d \in Dataset |->
                      IF verified(d) /\ jobs[d] = engine.pin[d] THEN 0 ELSE jobs[d]]
        /\ engine' = EngineIdle
        /\ UNCHANGED <<refVars, received, unbacked, token, owner, daemon>>

\* End each reservation; a stream that verified the endpoint it carried has
\* no pending work left, unless newer work replaced it.
FinishStreams ==
    /\ engine.pc = "next"
    /\ engine.left = {}
    /\ active' = [d \in Dataset |-> IF active[d] = engine.pin[d] THEN 0 ELSE active[d]]
    /\ jobs' = [d \in Dataset |->
                  IF engine.pin[d] # 0 /\ engine.done[d] = engine.pin[d] /\ jobs[d] = engine.pin[d]
                  THEN 0 ELSE jobs[d]]
    /\ engine' = EngineIdle
    /\ UNCHANGED <<refVars, received, unbacked, token, owner, daemon>>

\* The engine's state once the current stream is over; the streams beneath a
\* failed one are not attempted.
StreamOver(done, skipped) ==
    [EngineIdle EXCEPT !.pc = "next", !.incremental = engine.incremental,
                       !.pin = engine.pin, !.done = done,
                       !.left = engine.left \ skipped]

StreamFailed == engine' = StreamOver(engine.done, Beneath[engine.stream])

\* A stream that resumed plans again, to end at its own endpoint.
StreamVerified ==
    LET d == engine.stream
    IN  engine' =
          IF engine.plan.mode = "resume" /\ ~engine.second
          THEN [StreamOver(engine.done, {}) EXCEPT
                  !.pc = "plan", !.stream = d, !.second = TRUE]
          ELSE StreamOver([engine.done EXCEPT ![d] = engine.plan.endpoint], {d})

-----------------------------------------------------------------------------
(* applyOnce.                                                              *)

\* Load both ends and plan: resume when the destination has a token.  The
\* held proof a resume goes by is its reference.
LoadAndPlan ==
    LET d == engine.stream
        plans == IF token[d] # 0 THEN BuildResume(d) ELSE Build(d)
    IN  /\ engine.pc = "plan"
        /\ IF plans = {}
           THEN StreamFailed
           ELSE \E plan \in plans :
                  engine' =
                    IF plan.mode = "resume"
                    THEN [engine EXCEPT !.plan = plan, !.pc = "recheck", !.view = Load(d)]
                    ELSE [engine EXCEPT !.plan = plan, !.pc = "endpoint"]
        /\ UNCHANGED <<refVars, received, unbacked, token, jobs, active, owner, daemon>>

\* Calls of the lifecycle service by the engine: refused, or under way.
EngineCall(refused, call) ==
    /\ op = NoOp
    /\ IF refused
       THEN StreamFailed /\ UNCHANGED <<refVars, owner>>
       ELSE /\ call
            /\ owner' = "engine"
            /\ UNCHANGED engine
    /\ UNCHANGED <<received, unbacked, token, jobs, active, daemon>>

ProtectEndpoint ==
    LET d == engine.stream
        i == engine.plan.endpoint
    IN  /\ engine.pc = "endpoint"
        /\ EngineCall(ProtectRefused(d, {d}, i), ProtectSet(d, {d}, i))

ProtectBase ==
    LET d == engine.stream
        i == engine.plan.base
    IN  /\ engine.pc = "base"
        /\ EngineCall(ProtectRefused(d, {d}, i), ProtectSet(d, {d}, i))

\* verifyGUIDs: no token is left and everything expected arrived.  An
\* intermediate that neither end has any more was never sent.
ReceivedAll(d, plan) ==
    /\ token[d] = 0
    /\ \A i \in plan.expected :
        \/ <<d, i>> \in received
        \/ plan.mode = "incremental" /\ i # plan.endpoint /\ <<d, i>> \notin snapshots

\* Mutant of Settle: "not after" instead of "before".
SettleRetiringOwn(d, plan, ref) ==
    IF ReceivedAll(d, plan) /\ ref \in proofs
    THEN engine' = [engine EXCEPT
           !.pc = "checkpoint", !.plan = plan, !.ref = ref, !.view = NoView,
           !.retiring = {p \in proofs : p.stream = d /\ p.instant =< ref.instant}]
    ELSE StreamFailed

\* Verified: the proof still stands, and the stream's older proofs are listed
\* for release.  Otherwise the stream fails.
Settle(d, plan, ref) ==
    IF ReceivedAll(d, plan) /\ ref \in proofs
    THEN engine' = [engine EXCEPT
           !.pc = "checkpoint", !.plan = plan, !.ref = ref, !.view = NoView,
           !.retiring = {p \in proofs : p.stream = d /\ p.instant < ref.instant}]
    ELSE StreamFailed

\* Read both ends again.  A plan that moved is made again a bounded number of
\* times; a resume fails when anything it loaded did.  With nothing to send,
\* this read is also the one that verifies.
Recheck ==
    LET d == engine.stream
        resuming == engine.plan.mode = "resume"
        fresh == IF resuming THEN BuildResume(d) ELSE Build(d)
        ref == IF resuming THEN ResumeProofs(d) ELSE {engine.ref}
        stable == fresh = {engine.plan} /\ (resuming => Load(d) = engine.view)
    IN  /\ engine.pc = "recheck"
        /\ \/ /\ stable /\ engine.plan.mode = "up-to-date"
              /\ \E p \in ref : Settle(d, engine.plan, p)
           \/ /\ stable /\ engine.plan.mode # "up-to-date"
              /\ \E p \in ref :
                   engine' = [engine EXCEPT !.pc = "send", !.ref = p, !.view = NoView]
           \/ /\ ~stable
              /\ IF fresh = {} \/ resuming \/ engine.attempt = PreparationAttempts
                 THEN StreamFailed
                 ELSE engine' = [engine EXCEPT !.pc = "plan", !.plan = NoPlan,
                                               !.ref = NoProof, !.attempt = @ + 1]
        /\ UNCHANGED <<refVars, received, unbacked, token, jobs, active, owner, daemon>>

\* Those of the arriving snapshots that the target does not hold at the source.
Unheld(d, instants) == ({d} \X instants) \ holds

\* What the running stream will deliver: on a resume the token's snapshot,
\* which zfs send -t needs at the source; else the plan's.
Sending(d) ==
    IF engine.plan.mode = "resume"
    THEN {token[d]} \cap InstantsOf(snapshots, d)
    ELSE Carried(d, engine.plan.base, engine.plan.endpoint) \cap InstantsOf(snapshots, d)

SendCompletes ==
    LET d == engine.stream
    IN  /\ engine.pc = "send"
        /\ IF Sending(d) = {}
           THEN StreamFailed /\ UNCHANGED <<received, unbacked, token>>
           ELSE /\ received' = received \cup ({d} \X Sending(d))
                /\ unbacked' = unbacked \cup Unheld(d, Sending(d))
                /\ token' = [token EXCEPT ![d] = 0]
                /\ engine' = [engine EXCEPT !.pc = "verify"]
        /\ UNCHANGED <<refVars, jobs, active, owner, daemon>>

\* The receive stops at snapshot i: what precedes it in the stream arrived,
\* and a token for i is left, or nothing of i.
PartialReceive(d, i) ==
    /\ received' = received \cup ({d} \X {j \in Sending(d) : j < i})
    /\ unbacked' = unbacked \cup Unheld(d, {j \in Sending(d) : j < i})
    /\ \E kept \in {0, i} : token' = [token EXCEPT ![d] = IF @ = i THEN i ELSE kept]

SendFails ==
    LET d == engine.stream
    IN  /\ "interrupt" \in Faults
        /\ engine.pc = "send"
        /\ \E i \in Sending(d) : PartialReceive(d, i)
        /\ StreamFailed
        /\ UNCHANGED <<refVars, jobs, active, owner, daemon>>

Verify ==
    /\ engine.pc = "verify"
    /\ Settle(engine.stream, engine.plan, engine.ref)
    /\ UNCHANGED <<refVars, received, unbacked, token, jobs, active, owner, daemon>>

Checkpoint ==
    LET verified == {<<engine.stream, engine.plan.endpoint>>}
    IN  /\ engine.pc = "checkpoint"
        /\ EngineCall(CheckpointRefused(engine.ref, verified),
                      CheckpointSet(engine.ref, verified))

CompleteHold ==
    /\ engine.pc = "complete"
    /\ EngineCall(CompleteRefused(engine.ref), ReleaseCompletedHold(engine.ref))

Retire ==
    /\ engine.pc = "retire"
    /\ IF engine.retiring = {}
       THEN StreamVerified /\ UNCHANGED <<refVars, received, unbacked, token, jobs, active, owner, daemon>>
       ELSE \E p \in engine.retiring :
              EngineCall(p \notin proofs, ReleaseReference(p))

\* A lifecycle call of the engine returns.  The next step depends on the one
\* that made the call.
EngineReturn(ok) ==
    /\ owner = "engine"
    /\ owner' = "none"
    /\ IF ~ok
       THEN StreamFailed
       ELSE engine' =
         CASE engine.pc = "endpoint" ->
                [engine EXCEPT !.ref = op.proof,
                               !.pc = IF engine.plan.base # 0 /\ ~engine.plan.bookmark
                                      THEN "base" ELSE "recheck"]
           [] engine.pc = "base" -> [engine EXCEPT !.pc = "recheck"]
           [] engine.pc = "checkpoint" ->
                [engine EXCEPT !.pc = IF LatestOnly THEN "complete" ELSE "retire"]
           [] engine.pc = "complete" -> [engine EXCEPT !.pc = "retire"]
           [] engine.pc = "retire" -> [engine EXCEPT !.retiring = @ \ {op.proof}]
    /\ unbacked' = IF ok /\ engine.pc \in {"endpoint", "base"}
                   THEN unbacked \ {<<op.proof.stream, op.proof.instant>>}
                   ELSE unbacked
    /\ UNCHANGED <<received, token, jobs, active, daemon>>

\* pruneDestination never destroys the newest replica, nor anything while a
\* receive is to be resumed.  It holds the target's lock.
DestinationPrune ==
    /\ engine.pc = "idle"
    /\ token = None
    /\ \E x \in received :
        /\ \E y \in received : y[1] = x[1] /\ y[2] > x[2]
        /\ received' = received \ {x}
        /\ unbacked' = unbacked \ {x}
    /\ UNCHANGED <<refVars, token, jobs, active, owner, daemon, engine>>

-----------------------------------------------------------------------------

LifecycleReturn ==
    /\ Return
    /\ DaemonReturn(TRUE) \/ EngineReturn(TRUE)

LifecycleWrite ==
    /\ Write
    /\ UNCHANGED transferVars

\* A command of the operation under way fails.
LifecycleError ==
    /\ "error" \in Faults
    /\ Abort
    /\ DaemonReturn(FALSE) \/ EngineReturn(FALSE)

\* The daemon dies: pending work, reservations and jobs are lost, and a
\* receive in progress stops where it was.
Crash ==
    /\ "crash" \in Faults
    /\ op' = NoOp
    /\ UNCHANGED zfs
    /\ jobs' = None
    /\ active' = None
    /\ owner' = "none"
    /\ daemon' = DaemonIdle
    /\ engine' = EngineIdle
    /\ IF engine.pc = "send" /\ Sending(engine.stream) # {}
       THEN \E i \in Sending(engine.stream) : PartialReceive(engine.stream, i)
       ELSE UNCHANGED <<received, unbacked, token>>

\* Either nothing has been taken yet, or replicate=on carried instant 1 of
\* every dataset under the root's recursive proof, held and checkpointed.
Init ==
    LET all == Dataset \X {1}
        top == CHOOSE d \in Dataset : Beneath[d] = Dataset
    IN  /\ taken = IF Replicated THEN 1 ELSE 0
        /\ snapshots = IF Replicated THEN all ELSE {}
        /\ holds = snapshots
        /\ bookmarks = snapshots
        /\ proofs = IF Replicated THEN {Requested(top, Dataset, 1)} ELSE {}
        /\ op = NoOp
        /\ received = snapshots
        /\ unbacked = {}
        /\ token = None
        /\ jobs = None
        /\ active = None
        /\ owner = "none"
        /\ daemon = DaemonIdle
        /\ engine = EngineIdle

Next ==
    \/ \E ds \in SUBSET Dataset : SnapshotJob(ds)
    \/ ProtectCreated \/ Coalesce \/ ReleaseSupersededPending
    \/ \E d \in Dataset, chosen \in SUBSET Prunable : PruneJob(d, chosen)
    \/ BeginStreams \/ NextStream \/ FinishStreams
    \/ LoadAndPlan \/ ProtectEndpoint \/ ProtectBase \/ Recheck
    \/ SendCompletes \/ SendFails \/ Verify
    \/ Checkpoint \/ CompleteHold \/ Retire
    \/ DestinationPrune
    \/ LifecycleReturn \/ LifecycleWrite \/ LifecycleError
    \/ Crash

Spec == Init /\ [][Next]_vars

-----------------------------------------------------------------------------
(* Properties.                                                             *)

\* The source can continue from x: the snapshot exists or, where a policy goes
\* by bookmarks, its checkpoint bookmark does under a proof of its stream.
\* Otherwise Build refuses the stream until an operator reseeds the target.
Continues(x) ==
    \/ x \in snapshots
    \/ "latest" \in Incremental /\ x \in bookmarks /\ Stored(x[1], x[2]) # {}

LatestReceived ==
    {x \in received : \A y \in received : x[1] = y[1] => y[2] =< x[2]}

\* However snapshot, prune and transfer jobs overlap, fail and crash, the source
\* can continue from the latest snapshot the destination has, unless that one
\* arrived unheld or ReleaseSupersededPending gave its reference up: neither a
\* prune, nor a checkpoint, a completed or a retired reference ever costs the
\* base.
BaseSurvives == \A x \in LatestReceived : Continues(x) \/ x \in unbacked

\* "Turning replicate off again needs nothing": each member continues from the
\* snapshot its replica shares with the source.
MembersContinue == \A x \in LatestReceived : Continues(x)

\* While a planned stream is being sent, the target's hold is on its endpoint
\* and on the snapshot it is incremental from.
InFlightHeld ==
    engine.pc = "send" /\ engine.plan.mode # "resume" =>
        /\ <<engine.stream, engine.plan.endpoint>> \in holds
        /\ engine.plan.base # 0 /\ ~engine.plan.bookmark =>
             <<engine.stream, engine.plan.base>> \in holds

\* An endpoint that BeginStreams reserved stays held from its protection to
\* its checkpoint, whatever snapshot jobs, failures and retries happen
\* meanwhile: Coalesce never gives up what an attempt has reserved.
ReservedHeld ==
    LET d == engine.stream
        i == engine.plan.endpoint
    IN  /\ engine.pc \in {"recheck", "send", "verify", "checkpoint"}
        /\ engine.plan.mode # "resume"
        /\ engine.pin[d] = i
        => <<d, i>> \in holds

\* A resumed stream is taken for the snapshot its token is really for, so a
\* resume that completes also verifies.
NeverGuesses ==
    engine.pc = "send" /\ engine.plan.mode = "resume" =>
        engine.plan.endpoint = token[engine.stream]

\* The destination's history only grows forwards: no stream, planned or
\* resumed, brings a snapshot older than one already there.
ReceiveOrder ==
    [][\A x \in received' \ received, y \in received :
          x[1] = y[1] => y[2] < x[2]]_vars

\* A reservation lasts no longer than the transfer job that made it, and is
\* for the endpoint that job pinned: one left behind would keep a superseded
\* snapshot held for ever.
ReservationEnds ==
    \A d \in Dataset :
        active[d] # 0 => engine.pc # "idle" /\ engine.pin[d] = active[d]

\* Pending work stays protected until the destination has it, or something
\* newer: the snapshot PendingSet promises to send next has its recovery proof,
\* though transfers that reserved other endpoints retire older proofs meanwhile.
PendingProtected ==
    \A d \in Dataset :
        jobs[d] # 0 => \/ Stored(d, jobs[d]) # {}
                       \/ \E x \in received : x[1] = d /\ jobs[d] =< x[2]

\* Refinement: what the daemon's jobs, the transfer engine and their failures
\* do to the recovery references is what the lifecycle service's operations
\* allow, one write at a time.
RefSteps == [][UNCHANGED refVars \/ RefNext]_vars
=============================================================================
