----------------------------- MODULE Scheduler ------------------------------
(***************************************************************************)
(* The snapshot scheduler of internal/daemon: the deadlines the Scheduler    *)
(* keeps per root and member, and the four goroutines that share them: the  *)
(* scanner that applies discovery generations, the loop around Next that    *)
(* fires due roots, the management worker that runs a root's snapshot job,  *)
(* and a caller of Trigger.                                                  *)
(*                                                                         *)
(* Time is relative.  wait is how long until a member's deadline and age    *)
(* how long ago its newest owned snapshot was taken; both stop at the point  *)
(* where the code no longer tells later from earlier (a deadline that has    *)
(* passed, a snapshot older than the cadence), so no clock is needed.        *)
(***************************************************************************)
EXTENDS Integers, FiniteSets

CONSTANTS
    Root,         \* scheduling roots
    Member,       \* datasets with a deadline of their own
    RootOf,       \* RootOf[m]: the root that snapshots m
    Cadence,      \* Cadence[m]: the cadence of m's grid
    RetryDelay,   \* ReconcileInterval, before a failed root is tried again
    DropDelay     \* the second before a dropped root is tried again

ASSUME SchedulerAssumption ==
    /\ RootOf \in [Member -> Root]
    /\ \A r \in Root : \E m \in Member : RootOf[m] = r
    /\ Cadence \in [Member -> Nat \ {0}]
    /\ RetryDelay \in Nat \ {0}
    /\ DropDelay \in Nat \ {0}

MembersOf(r) == {m \in Member : RootOf[m] = r}

Delays == {0, RetryDelay, DropDelay} \cup {Cadence[m] : m \in Member}

\* No deadline lies further ahead than the longest cadence or delay.
Wait == {w \in Nat : \E d \in Delays : w =< d}

VARIABLES
    on,          \* the roots with an entry in Scheduler.entries
    pending,     \* those whose pending flag is set
    revived,     \* history: those whose flag Update set after it was cleared
    wait,        \* wait[m]: time to m's deadline, 0 once it has passed
    age,         \* age[m]: age of m's newest owned snapshot, up to its cadence
    enabled,     \* the roots the lifecycle gate admits work for
    scan,        \* applyGeneration
    loop,        \* the goroutine around Next
    job          \* job[r]: the management pool's job "snapshot:r"

vars == <<on, pending, revived, wait, age, enabled, scan, loop, job>>

NoWait == [m \in Member |-> 0]

ScanIdle == [pc |-> "idle", gen |-> {}, left |-> {}, root |-> "none",
             found |-> {}, pending |-> {}, wait |-> NoWait]

LoopIdle == [pc |-> "wait", root |-> "none", due |-> {}, cancelled |-> FALSE]

NoJob == [pc |-> "none", due |-> {}, deferred |-> {}, force |-> FALSE,
          cancelled |-> FALSE]

\* A job past its last use of the scheduler.
Done == [NoJob EXCEPT !.pc = "done"]

NoJobs == [r \in Root |-> NoJob]

Scan == [pc : {"idle", "read", "merge", "disable", "remove"},
         gen : SUBSET Root, left : SUBSET Root, root : Root \cup {"none"},
         found : SUBSET Root, pending : SUBSET Root, wait : [Member -> Wait]]

Loop == [pc : {"wait", "fired", "queue", "submit"}, root : Root \cup {"none"},
         due : SUBSET Member, cancelled : BOOLEAN]

Job == [pc : {"none", "queued", "popped", "check", "create", "settle", "done"},
        due : SUBSET Member, deferred : SUBSET Member, force : BOOLEAN,
        cancelled : BOOLEAN]

SchedulerTypeOK ==
    /\ on \subseteq Root
    /\ pending \subseteq Root
    /\ revived \subseteq pending
    /\ wait \in [Member -> Wait]
    /\ age \in [Member -> Nat] /\ \A m \in Member : age[m] =< Cadence[m]
    /\ enabled \subseteq Root
    /\ scan \in Scan
    /\ loop \in Loop
    /\ job \in [Root -> Job]

-----------------------------------------------------------------------------
(* Complete and Retry.                                                     *)

\* Settle a fired root: its due members wait a cadence from now, those
\* deferred until their newest snapshot is a cadence old.
Complete(r, due, deferred) ==
    IF r \in on
    THEN /\ pending' = pending \ {r} /\ revived' = revived \ {r}
         /\ wait' = [m \in Member |->
                       IF m \in deferred THEN Cadence[m] - age[m]
                       ELSE IF m \in due THEN Cadence[m] ELSE wait[m]]
    ELSE UNCHANGED <<pending, revived, wait>>

\* Mutant of Retry: the members move, the root stays pending.
RetryStaysPending(r, delay) ==
    IF r \in on
    THEN /\ UNCHANGED <<pending, revived>>
         /\ wait' = [m \in Member |->
                       IF m \in MembersOf(r) /\ wait[m] < delay THEN delay ELSE wait[m]]
    ELSE UNCHANGED <<pending, revived, wait>>

\* Make the root eligible again, no earlier than the delay.
Retry(r, delay) ==
    IF r \in on
    THEN /\ pending' = pending \ {r} /\ revived' = revived \ {r}
         /\ wait' = [m \in Member |->
                       IF m \in MembersOf(r) /\ wait[m] < delay THEN delay ELSE wait[m]]
    ELSE UNCHANGED <<pending, revived, wait>>

-----------------------------------------------------------------------------
(* applyGeneration: enable, Update, deactivate.                            *)

\* Mutant of BeginGeneration: the gate is not opened.
BeginUnadmitted(gen) ==
    /\ scan.pc = "idle"
    /\ scan' = [ScanIdle EXCEPT !.pc = "read", !.gen = gen, !.left = gen]
    /\ UNCHANGED <<on, pending, revived, wait, age, enabled, loop, job>>

\* Admit the generation's roots, then Update: each is read and merged, and
\* the new entries are installed.
BeginGeneration(gen) ==
    /\ scan.pc = "idle"
    /\ enabled' = enabled \cup gen
    /\ scan' = [ScanIdle EXCEPT !.pc = "read", !.gen = gen, !.left = gen]
    /\ UNCHANGED <<on, pending, revived, wait, age, loop, job>>

\* entry: a copy of the root's entry, under the lock.  The copy shares the
\* map of the members' deadlines with the original.
ReadEntry ==
    /\ scan.pc = "read"
    /\ \E r \in scan.left :
        scan' = [scan EXCEPT !.pc = "merge", !.root = r, !.found = on \cap {r},
                             !.pending = @ \cup (pending \cap {r})]
    /\ UNCHANGED <<on, pending, revived, wait, age, enabled, loop, job>>

\* Without the lock: members that were known keep their deadline, read from
\* the shared map; new ones are due at once.
MergeEntry ==
    /\ scan.pc = "merge"
    /\ scan' = [scan EXCEPT
         !.pc = "read", !.root = "none", !.found = {},
         !.left = @ \ {scan.root},
         !.wait = [m \in Member |->
                     IF RootOf[m] \in scan.found THEN wait[m] ELSE @[m]]]
    /\ UNCHANGED <<on, pending, revived, wait, age, enabled, loop, job>>

\* Under the lock: replace all entries and wake Next.
InstallEntries ==
    /\ scan.pc = "read"
    /\ scan.left = {}
    /\ on' = scan.gen
    /\ pending' = scan.pending
    /\ revived' = (scan.pending \ pending) \cup (scan.pending \cap revived)
    /\ wait' = scan.wait
    /\ scan' = [ScanIdle EXCEPT !.pc = "disable", !.left = on \ scan.gen]
    /\ UNCHANGED <<age, enabled, loop, job>>

EndGeneration ==
    /\ scan.pc = "disable"
    /\ scan.left = {}
    /\ scan' = ScanIdle
    /\ UNCHANGED <<on, pending, revived, wait, age, enabled, loop, job>>

\* SetEnabled(r, false) cancels the tickets that have not started.
Disable ==
    /\ scan.pc = "disable"
    /\ \E r \in scan.left :
        /\ enabled' = enabled \ {r}
        /\ loop' = IF loop.pc = "submit" /\ loop.root = r
                   THEN [loop EXCEPT !.cancelled = TRUE] ELSE loop
        /\ job' = IF job[r].pc \in {"queued", "popped"}
                  THEN [job EXCEPT ![r].cancelled = TRUE] ELSE job
        /\ scan' = [scan EXCEPT !.pc = "remove", !.root = r]
    /\ UNCHANGED <<on, pending, revived, wait, age>>

\* RemoveScope drops the job if no worker has taken it.
RemoveScope ==
    LET r == scan.root
    IN  /\ scan.pc = "remove"
        /\ scan' = [scan EXCEPT !.pc = "disable", !.root = "none", !.left = @ \ {r}]
        /\ IF job[r].pc = "queued"
           THEN /\ job' = [job EXCEPT ![r] = NoJob]
                /\ IF job[r].force THEN UNCHANGED <<pending, revived, wait>> ELSE Retry(r, DropDelay)
           ELSE UNCHANGED <<job, pending, revived, wait>>
        /\ UNCHANGED <<on, age, enabled, loop>>

-----------------------------------------------------------------------------
(* The loop: Next, then enqueueSnapshot.                                   *)

\* Next, under the lock: mark a due root pending.
Fire(r) ==
    /\ loop.pc = "wait"
    /\ r \in on \ pending
    /\ \E m \in MembersOf(r) : wait[m] = 0
    /\ pending' = pending \cup {r}
    /\ loop' = [LoopIdle EXCEPT !.pc = "fired", !.root = r]
    /\ UNCHANGED <<on, revived, wait, age, enabled, scan, job>>

\* Next, after unlocking: collect the members due by now from the shared map.
HandOut ==
    /\ loop.pc = "fired"
    /\ loop' = [loop EXCEPT !.pc = "queue",
                            !.due = {m \in MembersOf(loop.root) : wait[m] = 0}]
    /\ UNCHANGED <<on, pending, revived, wait, age, enabled, scan, job>>

\* Gate.Queue: a ticket, or the root is tried again later.
QueueTicket ==
    /\ loop.pc = "queue"
    /\ IF loop.root \in enabled
       THEN loop' = [loop EXCEPT !.pc = "submit"] /\ UNCHANGED <<pending, revived, wait>>
       ELSE loop' = LoopIdle /\ Retry(loop.root, RetryDelay)
    /\ UNCHANGED <<on, age, enabled, scan, job>>

Submitted(due, force, cancelled) ==
    [NoJob EXCEPT !.pc = "queued", !.due = due, !.force = force, !.cancelled = cancelled]

\* Pool.Submit refuses a job whose ID is queued or running; a full queue
\* refuses any.  What is refused is dropped, to be tried again.
Submit ==
    LET r == loop.root
    IN  /\ loop.pc = "submit"
        /\ loop' = LoopIdle
        /\ IF job[r] = NoJob
           THEN \/ /\ job' = [job EXCEPT ![r] = Submitted(loop.due, FALSE, loop.cancelled)]
                   /\ UNCHANGED <<pending, revived, wait>>
                \/ Retry(r, DropDelay) /\ UNCHANGED job
           ELSE Retry(r, DropDelay) /\ UNCHANGED job
        /\ UNCHANGED <<on, age, enabled, scan>>

\* Trigger: every member of an active root, whatever its deadline.
Trigger(r) ==
    /\ r \in on \cap enabled
    /\ job[r] = NoJob
    /\ job' = [job EXCEPT ![r] = Submitted(MembersOf(r), TRUE, FALSE)]
    /\ UNCHANGED <<on, pending, revived, wait, age, enabled, scan, loop>>

-----------------------------------------------------------------------------
(* The worker: one snapshot job.                                           *)

\* The worker takes the job and waits for the root's lock.
Pop(r) ==
    /\ job[r].pc = "queued"
    /\ job' = [job EXCEPT ![r].pc = "popped"]
    /\ UNCHANGED <<on, pending, revived, wait, age, enabled, scan, loop>>

\* Ticket.Start: a cancelled ticket, or one whose scope is disabled, ends the
\* job without a Retry.
Start(r) ==
    /\ job[r].pc = "popped"
    /\ job' = IF r \in enabled /\ ~job[r].cancelled
              THEN [job EXCEPT ![r].pc = "check"] ELSE [job EXCEPT ![r] = Done]
    /\ UNCHANGED <<on, pending, revived, wait, age, enabled, scan, loop>>

\* Mutant of satisfiedMembers: the due time is not checked again.
NoneSatisfied(r) == {}

\* Members whose newest owned snapshot is younger than their cadence.
satisfiedMembers(r) ==
    IF job[r].force THEN {} ELSE {m \in MembersOf(r) : age[m] < Cadence[m]}

\* Leave out the members that are not due; with none left there is nothing to
\* create.
CheckDue(r) ==
    LET satisfied == satisfiedMembers(r)
    IN  /\ job[r].pc = "check"
        /\ IF job[r].due \subseteq satisfied
           THEN /\ Complete(r, {}, satisfied)
                /\ job' = [job EXCEPT ![r] = Done]
           ELSE /\ job' = [job EXCEPT ![r].pc = "create", ![r].due = @ \ satisfied,
                                      ![r].deferred = satisfied]
                /\ UNCHANGED <<pending, revived, wait>>
        /\ UNCHANGED <<on, age, enabled, scan, loop>>

CreateSnapshot(r) ==
    /\ job[r].pc = "create"
    /\ age' = [m \in Member |-> IF m \in job[r].due THEN 0 ELSE age[m]]
    /\ job' = [job EXCEPT ![r].pc = "settle"]
    /\ UNCHANGED <<on, pending, revived, wait, enabled, scan, loop>>

\* Reading the newest snapshots or creating the new one fails.
SnapshotFails(r) ==
    /\ job[r].pc = "create" \/ (job[r].pc = "check" /\ ~job[r].force)
    /\ Retry(r, RetryDelay)
    /\ job' = [job EXCEPT ![r] = Done]
    /\ UNCHANGED <<on, age, enabled, scan, loop>>

SettleJob(r) ==
    /\ job[r].pc = "settle"
    /\ Complete(r, job[r].due, job[r].deferred)
    /\ job' = [job EXCEPT ![r] = Done]
    /\ UNCHANGED <<on, age, enabled, scan, loop>>

\* The rest of the job runs, and the pool forgets its ID.
EndJob(r) ==
    /\ job[r].pc = "done"
    /\ job' = [job EXCEPT ![r] = NoJob]
    /\ UNCHANGED <<on, pending, revived, wait, age, enabled, scan, loop>>

-----------------------------------------------------------------------------

Down(w) == [m \in Member |-> IF w[m] = 0 THEN 0 ELSE w[m] - 1]

Tick ==
    /\ wait' = Down(wait)
    /\ scan' = [scan EXCEPT !.wait = Down(@)]
    /\ age' = [m \in Member |-> IF age[m] < Cadence[m] THEN age[m] + 1 ELSE age[m]]
    /\ UNCHANGED <<on, pending, revived, enabled, loop, job>>

\* The daemon restarts.  Only the snapshots remain.
Restart ==
    /\ on' = {}
    /\ pending' = {} /\ revived' = {}
    /\ wait' = NoWait
    /\ enabled' = {}
    /\ scan' = ScanIdle
    /\ loop' = LoopIdle
    /\ job' = NoJobs
    /\ UNCHANGED age

Init ==
    /\ on = {}
    /\ pending = {} /\ revived = {}
    /\ wait = NoWait
    /\ age = Cadence
    /\ enabled = {}
    /\ scan = ScanIdle
    /\ loop = LoopIdle
    /\ job = NoJobs

ScanStep ==
    ReadEntry \/ MergeEntry \/ InstallEntries \/ EndGeneration \/ Disable \/ RemoveScope

LoopStep == HandOut \/ QueueTicket \/ Submit

JobStep(r) == Pop(r) \/ Start(r) \/ CheckDue(r) \/ SettleJob(r) \/ EndJob(r)

Next ==
    \/ \E gen \in SUBSET Root : BeginGeneration(gen)
    \/ ScanStep
    \/ Restart
    \/ LoopStep
    \/ Tick
    \/ \E r \in Root :
        Fire(r) \/ Trigger(r) \/ JobStep(r) \/ CreateSnapshot(r) \/ SnapshotFails(r)

Spec == Init /\ [][Next]_vars

\* Goroutines and the clock run on; a lookup or a snapshot that can always be
\* tried again succeeds some time; Next, which takes the earliest deadline
\* first, passes over no due root for ever.  A firing whose root another job
\* settles before Next has read who is due makes a job with no due member; that
\* does not happen every time, and the jobs of the other firings are not all
\* refused by Submit or failed by their lookup.
Fairness ==
    /\ WF_vars(ScanStep)
    /\ WF_vars(Tick)
    /\ WF_vars(LoopStep)
    /\ SF_vars(HandOut /\ loop'.due # {})
    /\ SF_vars(Submit /\ loop.due # {} /\ job' # job)
    /\ \A r \in Root :
        /\ WF_vars(JobStep(r))
        /\ SF_vars(Fire(r))
        /\ SF_vars(CheckDue(r))
        /\ SF_vars(CheckDue(r) /\ job[r].due # {})
        /\ SF_vars(CreateSnapshot(r))

FairSpec == Spec /\ Fairness

-----------------------------------------------------------------------------
(* Properties.                                                             *)

\* A snapshot that was not forced is never taken before the member's newest
\* owned snapshot is a cadence old, however early a restart, a stale Update or
\* a repeated firing made the job run: enqueueSnapshot checks ZFS again.
Spacing ==
    [][\A m \in Member :
          age'[m] < age[m] => age[m] = Cadence[m] \/ job[RootOf[m]].force]_vars

\* A root is in someone's hands: the loop has its schedule, or its job is on
\* the way to Complete or Retry.
Owned(r) ==
    \/ loop.pc # "wait" /\ loop.root = r
    \/ /\ job[r].pc \notin {"none", "done"}
       /\ ~job[r].force /\ ~job[r].cancelled

\* A pending root is owned, or Update revived its flag: no drop, refusal,
\* cancellation, failure or deactivation strands a root, and neither does a
\* generation applied meanwhile, except by installing a copy of the entry that
\* is older than the Complete or Retry which cleared the flag.
PendingOwned == \A r \in pending \ revived : Owned(r)

\* "marks it pending until Complete or Retry": a pending root awaits one of
\* them.  Otherwise nothing clears the flag and Next passes the root over.
PendingUntilSettled == \A r \in pending : Owned(r)

\* A member whose newest snapshot has come of age is snapshotted again while
\* its root stays scheduled, unless Update revives the flag of its root.
Snapshotted ==
    \A m \in Member :
        RootOf[m] \in on /\ age[m] = Cadence[m]
            ~> age[m] < Cadence[m] \/ RootOf[m] \notin on \/ RootOf[m] \in revived
=============================================================================
