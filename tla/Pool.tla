-------------------------------- MODULE Pool --------------------------------
(***************************************************************************)
(* The daemon's worker pools: the round-robin queue of each (queue.go), the  *)
(* deduplication of job IDs, the workers with Resize and the shutdown, and   *)
(* the locks they share (keyLocks in pool.go), which an administrator's       *)
(* Clean takes as well.                                                      *)
(*                                                                         *)
(* A lock scope is a path, a sequence of names; <<>> stands for "", which    *)
(* overlaps every scope.  Who waits for a key, and who holds it, is a worker *)
(* or the Clean call.                                                         *)
(***************************************************************************)
EXTENDS Integers, Sequences, FiniteSets, Functions

CONSTANTS
    Jobs,          \* job IDs
    PoolSeq,       \* the pools, in the order the shutdown goes through them
    TransferPools, \* those whose context the shutdown cancels
    PoolOf,        \* PoolOf[j], GroupOf[j], ScopeOf[j], KeyOf[j], LockScopeOf[j]:
    GroupOf,       \*   the fields of job j
    ScopeOf,
    KeyOf,
    LockScopeOf,
    Awaits,        \* Awaits[j]: the jobs whose running tickets Run of j waits for
    Capacity,      \* of each queue
    Slots,         \* Slots[p]: room for the workers of pool p
    CleanKeys,     \* the keys a Clean call takes, sorted
    Environments   \* what else happens in a behaviour: each of these is a set
                   \*   of "clean", "resize" and "shutdown"

Pools == Range(PoolSeq)
Worker == UNION {Slots[p] : p \in Pools}
Groups == {GroupOf[j] : j \in Jobs}
Keys == {KeyOf[j] : j \in Jobs} \cup Range(CleanKeys)
Clean == "clean"
Holders == Worker \cup {Clean}
NoJob == "none"

ASSUME PoolAssumption ==
    /\ NoJob \notin Jobs /\ Clean \notin Worker
    /\ \A j \in Jobs : PoolOf[j] \in Pools /\ LockScopeOf[j] \in Seq(Range(LockScopeOf[j]))
    /\ CleanKeys \in Seq(Range(CleanKeys)) /\ PoolSeq \in Seq(Range(PoolSeq))
    /\ \A p, q \in Pools : p # q => Slots[p] \cap Slots[q] = {}

VARIABLES
    known,      \* Pool.known: the IDs Submit refuses
    groups,     \* groups[p][g]: queued jobs of group g
    order,      \* order[p]: the groups with queued jobs, next to be served first
    dropped,    \* jobs that left the queue and whose Drop is still to come
    worker,     \* worker[w]: what worker w does
    stops,      \* stops[p]: the workers of p not told to stop, oldest first
    waiters,    \* waiters[k]: who waits for key k, in order of arrival
    active,     \* active[k]: who holds key k
    asleep,     \* holders waiting for the changed channel to close
    clean,      \* the Clean call: how many of its keys it holds, and what it does
    stage,      \* how far the shutdown has come
    env         \* what may happen in this behaviour

queueVars == <<groups, order, dropped>>
lockVars == <<waiters, active, asleep>>
poolVars == <<known, groups, order, dropped, worker, stops, waiters,
              active, asleep, clean, stage, env>>

WorkerPool == [w \in Worker |-> CHOOSE p \in Pools : w \in Slots[p]]
Queued(p) == UNION {Range(groups[p][g]) : g \in Groups}

\* The shutdown discards each queue, cancels the transfer pools, closes the
\* queues, and waits.
Cancelled(p) == p \in TransferPools /\ stage > Len(PoolSeq)
Closed(p) == \E i \in 1..Len(PoolSeq) : PoolSeq[i] = p /\ stage > Len(PoolSeq) + i
LastStage == 2 * Len(PoolSeq) + 1

-----------------------------------------------------------------------------
(* keyLocks.                                                               *)

KeyWanted(h) == IF h = Clean THEN CleanKeys[clean.held + 1] ELSE KeyOf[worker[h].job]
LockScope(h) == IF h = Clean THEN <<>> ELSE LockScopeOf[worker[h].job]

\* Path b is a or beneath it.
Inside(a, b) == Len(a) <= Len(b) /\ SubSeq(b, 1, Len(a)) = a

\* Mutant of Overlap: only equal scopes exclude each other.
OverlapEqual(a, b) == a = b

\* overlappingLockScope: one is a prefix of the other.
Overlap(a, b) == Inside(a, b) \/ Inside(b, a)

\* Who came before h, and what is left of the line without h.
Earlier(h, k) ==
    {waiters[k][i] : i \in {i \in 1..Len(waiters[k]) : \A n \in 1..i : waiters[k][n] # h}}
Without(line, h) == SelectSeq(line, LAMBDA w : w # h)

\* Mutant of Blocked: whoever is first in line takes the key.
BlockedByWaiters(h, k) == \E a \in Earlier(h, k) : Overlap(LockScope(a), LockScope(h))

\* An overlapping holder, or an overlapping waiter that came first.
Blocked(h, k) ==
    \E a \in active[k] \cup Earlier(h, k) : Overlap(LockScope(a), LockScope(h))

\* acquireAs joins the queue for the key.
Join(h, k) ==
    /\ waiters' = [waiters EXCEPT ![k] = Append(@, h)]
    /\ UNCHANGED <<active, asleep>>

\* One turn of acquireAs' loop that finds the key free: taking it signals
\* everyone, since those behind may have waited for this waiter only.
Take(h, k) ==
    /\ waiters' = [waiters EXCEPT ![k] = Without(@, h)]
    /\ active' = [active EXCEPT ![k] = @ \cup {h}]
    /\ asleep' = {}

\* A turn that does not: sleep until the changed channel is closed.
Sleep(h) ==
    /\ asleep' = asleep \cup {h}
    /\ UNCHANGED <<waiters, active>>

\* Mutant of GiveUp: the others are not told.
GiveUpSilently(h, k) ==
    /\ waiters' = [waiters EXCEPT ![k] = Without(@, h)]
    /\ asleep' = asleep \ {h}
    /\ UNCHANGED active

\* The context ended while waiting.
GiveUp(h, k) ==
    /\ waiters' = [waiters EXCEPT ![k] = Without(@, h)]
    /\ asleep' = {}
    /\ UNCHANGED active

\* The release function acquireAs returns, for each of the keys.
Release(h, keys) ==
    /\ active' = [k \in Keys |-> IF k \in keys THEN active[k] \ {h} ELSE active[k]]
    /\ asleep' = {}
    /\ UNCHANGED waiters

-----------------------------------------------------------------------------
(* Submit, the queue, and jobs that leave it without running.               *)

\* Mutant of Submit: a group that had no jobs is served first.
SubmitFirst(j) ==
    LET p == PoolOf[j]
        g == GroupOf[j]
    IN  /\ j \notin known /\ ~ Closed(p) /\ Cardinality(Queued(p)) < Capacity
        /\ known' = known \cup {j}
        /\ groups' = [groups EXCEPT ![p][g] = Append(@, j)]
        /\ order' = [order EXCEPT ![p] = IF groups[p][g] = <<>> THEN <<g>> \o @ ELSE @]
        /\ UNCHANGED <<dropped, worker, stops, lockVars, clean, stage, env>>

\* Pool.Submit and FairQueue.Offer.  A known ID is refused without a trace.
\* A closed or full queue refuses the job; its ID is forgotten by a step of
\* its own, after the queue's unlock.
Submit(j) ==
    LET p == PoolOf[j]
        g == GroupOf[j]
        refused == Closed(p) \/ Cardinality(Queued(p)) >= Capacity
    IN  /\ j \notin known
        /\ known' = known \cup {j}
        /\ IF refused
           THEN /\ dropped' = dropped \cup {j}
                /\ UNCHANGED <<groups, order>>
           ELSE /\ groups' = [groups EXCEPT ![p][g] = Append(@, j)]
                /\ order' = [order EXCEPT ![p] = IF groups[p][g] = <<>> THEN Append(@, g) ELSE @]
                /\ UNCHANGED dropped
        /\ UNCHANGED <<worker, stops, lockVars, clean, stage, env>>

\* The members of s that are in kept, in their order.
Keep(s, kept) ==
    LET front[i \in 0..Len(s)] ==
          IF i = 0 THEN <<>>
          ELSE IF s[i] \in kept THEN Append(front[i - 1], s[i]) ELSE front[i - 1]
    IN  front[Len(s)]

\* Jobs leave the queue of p; their Drop is called after the queue's unlock.
Discard(p, jobs) ==
    LET left == [g \in Groups |-> Keep(groups[p][g], Jobs \ jobs)]
    IN  /\ groups' = [groups EXCEPT ![p] = left]
        /\ order' = [order EXCEPT ![p] = Keep(@, {g \in Groups : left[g] # <<>>})]
        /\ dropped' = dropped \cup (Queued(p) \cap jobs)

\* deactivate, one pool at a time.
RemoveScope(p, s) ==
    /\ \E j \in Queued(p) : ScopeOf[j] = s
    /\ Discard(p, {j \in Jobs : ScopeOf[j] = s})
    /\ UNCHANGED <<known, worker, stops, lockVars, clean, stage, env>>

\* Drop, as Submit wrapped it: the job's own, then complete.
DropJob(j) ==
    /\ j \in dropped
    /\ dropped' = dropped \ {j}
    /\ known' = known \ {j}
    /\ UNCHANGED <<groups, order, worker, stops, lockVars, clean, stage, env>>

-----------------------------------------------------------------------------
(* Workers.                                                                *)

Doing(w, pc, job) == [worker EXCEPT ![w].pc = pc, ![w].job = job, ![w].await = {}]

\* FairQueue.Pop: the first job of the first group, which goes to the end of
\* the order if it has more.
Pop(w) ==
    LET p == WorkerPool[w]
        g == Head(order[p])
    IN  /\ worker[w].pc = "idle"
        /\ order[p] # <<>>
        /\ worker' = Doing(w, "popped", Head(groups[p][g]))
        /\ groups' = [groups EXCEPT ![p][g] = Tail(@)]
        /\ order' = [order EXCEPT ![p] = IF Len(groups[p][g]) = 1 THEN Tail(@)
                                         ELSE Append(Tail(@), g)]
        /\ UNCHANGED <<known, dropped, stops, lockVars, clean, stage, env>>

\* A job popped after the pool was stopped is dropped.
DropPopped(w) ==
    /\ worker[w].pc = "popped" /\ Cancelled(WorkerPool[w])
    /\ worker' = Doing(w, "idle", NoJob)
    /\ dropped' = dropped \cup {worker[w].job}
    /\ UNCHANGED <<known, groups, order, stops, lockVars, clean, stage, env>>

\* acquireAs, on behalf of the job.
JoinLock(w) ==
    /\ worker[w].pc = "popped" /\ ~Cancelled(WorkerPool[w])
    /\ worker' = [worker EXCEPT ![w].pc = "lock"]
    /\ Join(w, KeyOf[worker[w].job])
    /\ UNCHANGED <<known, queueVars, stops, clean, stage, env>>

\* Run begins.  A job that waits for its scope to be quiescent waits for the
\* runs under way; the gate lets no other of them start.
Running(jobs) == {w \in Worker : worker[w].pc = "run" /\ worker[w].job \in jobs}

TryLock(w) ==
    LET k == KeyOf[worker[w].job]
    IN  /\ worker[w].pc = "lock" /\ w \notin asleep /\ ~Cancelled(WorkerPool[w])
        /\ IF Blocked(w, k)
           THEN Sleep(w) /\ UNCHANGED worker
           ELSE /\ Take(w, k)
                /\ worker' = [worker EXCEPT ![w].pc = "run",
                                            ![w].await = Running(Awaits[worker[w].job])]
        /\ UNCHANGED <<known, queueVars, stops, clean, stage, env>>

\* The pool was stopped while the job waited for its lock: the outcome is
\* failed, and neither Run nor Drop is called.
FailLock(w) ==
    /\ worker[w].pc = "lock" /\ Cancelled(WorkerPool[w])
    /\ GiveUp(w, KeyOf[worker[w].job])
    /\ worker' = [worker EXCEPT ![w].pc = "failed"]
    /\ UNCHANGED <<known, queueVars, stops, clean, stage, env>>

\* Run returns and the lock is released.
EndRun(w) ==
    /\ worker[w].pc = "run" /\ worker[w].await = {}
    /\ Release(w, {KeyOf[worker[w].job]})
    /\ worker' = [v \in Worker |->
                    IF v = w THEN [worker[w] EXCEPT !.pc = "ended"]
                    ELSE [worker[v] EXCEPT !.await = @ \ {w}]]
    /\ UNCHANGED <<known, queueVars, stops, clean, stage, env>>

Retired(w) == w \notin Range(stops[WorkerPool[w]]) \/ Cancelled(WorkerPool[w])

\* complete, then After, whose submissions are Submit steps.  A worker told
\* to stop exits here after a run.
Complete(w) ==
    /\ worker[w].pc \in {"ended", "failed"}
    /\ known' = known \ {worker[w].job}
    /\ worker' = Doing(w, IF worker[w].pc = "ended" /\ Retired(w) THEN "absent" ELSE "idle", NoJob)
    /\ UNCHANGED <<queueVars, stops, lockVars, clean, stage, env>>

\* Mutant of Exit: closing the queue wakes nobody.
ExitWhenRetired(w) ==
    /\ worker[w].pc = "idle" /\ order[WorkerPool[w]] = <<>>
    /\ Retired(w)
    /\ worker' = [worker EXCEPT ![w].pc = "absent"]
    /\ UNCHANGED <<known, queueVars, stops, lockVars, clean, stage, env>>

\* Pop returns without a job: the queue is closed and drained, or empty when
\* the worker was told to stop.
Exit(w) ==
    /\ worker[w].pc = "idle" /\ order[WorkerPool[w]] = <<>>
    /\ Retired(w) \/ Closed(WorkerPool[w])
    /\ worker' = [worker EXCEPT ![w].pc = "absent"]
    /\ UNCHANGED <<known, queueVars, stops, lockVars, clean, stage, env>>

\* Resize, one worker at a time; one always stays.
Grow(p, w) ==
    /\ "resize" \in env /\ stage = 0 /\ Len(stops[p]) < Cardinality(Slots[p]) /\ w \in Slots[p]
    /\ worker[w].pc = "absent"
    /\ worker' = [worker EXCEPT ![w].pc = "idle"]
    /\ stops' = [stops EXCEPT ![p] = Append(@, w)]
    /\ UNCHANGED <<known, queueVars, lockVars, clean, stage, env>>

Shrink(p) ==
    /\ "resize" \in env /\ stage = 0 /\ Len(stops[p]) > 1
    /\ stops' = [stops EXCEPT ![p] = SubSeq(@, 1, Len(@) - 1)]
    /\ UNCHANGED <<known, queueVars, worker, lockVars, clean, stage, env>>

WorkerStep(w) ==
    \/ Pop(w) \/ DropPopped(w) \/ JoinLock(w) \/ TryLock(w) \/ FailLock(w)
    \/ EndRun(w) \/ Complete(w) \/ Exit(w)

-----------------------------------------------------------------------------
(* Runtime.Clean takes the root locks it needs one after the other, and the  *)
(* daemon's shutdown.                                                        *)

CleanJoin ==
    /\ "clean" \in env /\ stage = 0 /\ clean.pc = "idle" /\ clean.held < Len(CleanKeys)
    /\ clean' = [clean EXCEPT !.pc = "lock"]
    /\ Join(Clean, KeyWanted(Clean))
    /\ UNCHANGED <<known, queueVars, worker, stops, stage, env>>

CleanTryLock ==
    LET k == KeyWanted(Clean)
    IN  /\ clean.pc = "lock" /\ Clean \notin asleep
        /\ IF Blocked(Clean, k)
           THEN Sleep(Clean) /\ UNCHANGED clean
           ELSE /\ Take(Clean, k)
                /\ clean' = [pc |-> IF clean.held + 1 = Len(CleanKeys) THEN "clean" ELSE "idle",
                             held |-> clean.held + 1]
        /\ UNCHANGED <<known, queueVars, worker, stops, stage, env>>

\* The caller's context ends while a key is awaited.
CleanCancel ==
    /\ clean.pc = "lock"
    /\ GiveUp(Clean, KeyWanted(Clean))
    /\ clean' = [clean EXCEPT !.pc = "release"]
    /\ UNCHANGED <<known, queueVars, worker, stops, stage, env>>

\* The plans are made and applied under all the keys, or none is; then what
\* is held is released.
CleanEnd ==
    /\ clean.pc \in {"clean", "release"}
    /\ IF clean.held > 0 THEN Release(Clean, Keys) ELSE UNCHANGED lockVars
    /\ clean' = [pc |-> "idle", held |-> 0]
    /\ UNCHANGED <<known, queueVars, worker, stops, stage, env>>

\* Runtime.Run after its context ends, from the first DiscardPending on.
Shutdown ==
    /\ "shutdown" \in env /\ stage < LastStage
    /\ stage' = stage + 1
    /\ IF stage < Len(PoolSeq) THEN Discard(PoolSeq[stage + 1], Jobs) ELSE UNCHANGED queueVars
    /\ UNCHANGED <<known, worker, stops, lockVars, clean, env>>

-----------------------------------------------------------------------------
Listed(S) == CHOOSE s \in [1..Cardinality(S) -> S] : IsInjective(s)

PoolInit ==
    /\ known = {} /\ dropped = {}
    /\ groups = [p \in Pools |-> [g \in Groups |-> <<>>]]
    /\ order = [p \in Pools |-> <<>>]
    /\ stops = [p \in Pools |-> Listed(Slots[p])]
    /\ worker = [w \in Worker |-> [pc |-> IF w \in Range(stops[WorkerPool[w]]) THEN "idle" ELSE "absent",
                                   job |-> NoJob, await |-> {}]]
    /\ waiters = [k \in Keys |-> <<>>] /\ active = [k \in Keys |-> {}] /\ asleep = {}
    /\ clean = [pc |-> "idle", held |-> 0]
    /\ stage = 0
    /\ env \in Environments

PoolNext ==
    \/ \E j \in Jobs : Submit(j) \/ DropJob(j)
    \/ \E w \in Worker : WorkerStep(w)
    \/ \E p \in Pools : Shrink(p) \/ \E w \in Slots[p] : Grow(p, w)
    \/ \E p \in Pools, s \in {ScopeOf[j] : j \in Jobs} : RemoveScope(p, s)
    \/ CleanJoin \/ CleanTryLock \/ CleanCancel \/ CleanEnd
    \/ Shutdown

\* Goroutines that can run do; every Run returns, because the ZFS commands
\* it waits for end; a Clean that has its keys finishes.  Submissions, Clean
\* calls, resizing and the shutdown need not happen, but a shutdown that has
\* begun goes on.
PoolFairness ==
    /\ \A j \in Jobs : WF_poolVars(DropJob(j))
    /\ \A w \in Worker : WF_poolVars(WorkerStep(w))
    /\ WF_poolVars(CleanTryLock \/ CleanEnd)
    /\ WF_poolVars(clean.held > 0 /\ CleanJoin)
    /\ WF_poolVars(stage > 0 /\ Shutdown)

PoolSpec == PoolInit /\ [][PoolNext]_poolVars /\ PoolFairness

-----------------------------------------------------------------------------
(* Properties.                                                             *)

\* While Clean plans and applies (Runtime.Clean), no job runs under the lock of
\* a root it covers.
CleanAlone ==
    clean.pc = "clean" => \A w \in Worker :
        worker[w].pc = "run" => KeyOf[worker[w].job] \notin Range(CleanKeys)

\* The phase of job j that the pools' state amounts to.
Phase(j) ==
    IF j \notin known THEN "idle"
    ELSE IF \E w \in Worker : worker[w].job = j /\ worker[w].pc = "run" THEN "running"
    ELSE IF \/ j \in dropped
            \/ \E w \in Worker : worker[w].job = j /\ worker[w].pc \in {"ended", "failed"}
         THEN "leaving"
    ELSE "queued"

Conflicting ==
    {c \in Jobs \X Jobs :
        KeyOf[c[1]] = KeyOf[c[2]] /\ (\/ Inside(LockScopeOf[c[1]], LockScopeOf[c[2]])
                                      \/ Inside(LockScopeOf[c[2]], LockScopeOf[c[1]]))}

Table == INSTANCE JobTable WITH Conflicts <- Conflicting, phase <- [j \in Jobs |-> Phase(j)]

\* The pools implement JobTable (Pool.Submit, Pool.worker, keyLocks): an
\* accepted job runs once or is dropped before its ID is accepted again, and
\* jobs with overlapping scopes of one key never run together.
Implements == Table!TableSpec

PositionIn(s, g) ==
    LET I == {i \in 1..Len(s) : s[i] = g}
    IN  IF I # {} THEN CHOOSE i \in I : \A n \in I : i <= n ELSE 0

Position(p, g) == PositionIn(order[p], g)

Serves(p) == \E w \in Slots[p] : worker[w].pc = "idle" /\ worker'[w].pc = "popped"

\* FairQueue: a group with queued jobs moves forward in its queue's order with
\* every job of another group that is served, and never back, so no other
\* group is served twice before it.
RoundRobin ==
    [][\A p \in Pools, g \in Groups :
          groups[p][g] # <<>> /\ groups'[p][g] # <<>> =>
              IF ~ Serves(p) THEN Position(p, g)' =< Position(p, g)
              ELSE Head(order[p]) # g => Position(p, g)' < Position(p, g)]_poolVars

\* Unless the daemon shuts down, every job that Submit took leaves its pool
\* (Pool.worker, acquireAs): no job starves behind others of its queue or its
\* lock, no two wait for each other, and neither do a Clean call and a job that
\* waits for quiescence.
Served == \A j \in Jobs : j \in known ~> (j \notin known \/ stage > 0)

\* A shutdown ends with every worker gone (Pool.Close, Pool.Wait).
Drains == stage > 0 ~> \A w \in Worker : worker[w].pc = "absent"
=============================================================================
