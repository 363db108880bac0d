-------------------------------- MODULE Jobs --------------------------------
(***************************************************************************)
(* How the runtime keeps one root's work going: the scanner that applies    *)
(* generations, the jobs it and the scheduler queue through the admission   *)
(* gate, the dirty flag, the delayed retries, a reload of the remotes, and  *)
(* the inactive marker with the retirement it leads to.                     *)
(*                                                                          *)
(* The pools appear as what JobTable says of them.  The root has one        *)
(* transfer target, local or remote.  A deadline is the number of its issue *)
(* among the deadlines of its key: those of one key are issued in the order *)
(* in which they pass, because each is the present plus a delay and none is *)
(* issued while a later one could be pending.                                *)
(***************************************************************************)
EXTENDS Naturals, Sequences

CONSTANTS
    Environments    \* what a behaviour may meet: the kind of target ("local",
                    \* "remote" or "none"), whether the root starts "fresh" or
                    \* "settled", and the bounds on snapshots, changes of
                    \* activation, transient failures, refused markers, calls
                    \* that a full queue or an error turns away, and reloads

VARIABLES
    kind,       \* the kind of target
    left,       \* what remains of each bound
    on,         \* the activation property in ZFS
    owned,      \* owner and lineage are on the root in ZFS
    since,      \* the inactive marker in ZFS: its deadline, 0 without one
    snaps,      \* the newest snapshot in ZFS
    seen,       \* r.generation's entry of the root
    scan,       \* the scanner: its step and the generation it applies
    enabled,    \* the gate's scope
    tick,       \* tickets, by the job or caller that owns them
    phase,      \* the pools, see JobTable
    line,       \* queued jobs that lock the root, in the order of their group and of the lock's waiters
    run,        \* the next step of a running job
    at,         \* the next step of a caller of enqueueSnapshot or enqueueLocal/Remote
    dirty,      \* r.dirty of the transfer job
    pend,       \* the newest snapshot coalesced for the target
    tried,      \* the newest pending snapshot an attempt has begun with
    sent,       \* the newest snapshot the target verified
    old,        \* tickets whose coordinator a reload has replaced
    notBefore,  \* the current coordinator's deadline, 0 when none
    issued,     \* deadlines issued, by timer key
    passed,     \* deadlines in the past
    delayed,    \* r.delayed, 0 where the key is absent
    timers,     \* the timer goroutines
    outcome,    \* how the last run of the transfer job ended
    calm,       \* history: WaitScopeQuiescent has returned and the scope was not enabled since
    missed,     \* history: jobs whose last call came to nothing and is not
                \* repeated, see TurnAway, Overtaken and MarkerFails
    kept        \* history: the newest pending snapshot was coalesced since the scope was last disabled

zfs   == <<on, owned, since, snaps>>
gate  == <<enabled, tick, calm, kept>>
work  == <<dirty, pend, tried, sent, old, notBefore, outcome>>
clock == <<issued, passed, delayed, timers>>
pools == <<phase, line>>
jvars == <<kind, left, zfs, seen, scan, gate, pools, run, at, work, clock, missed>>

ID      == {"send", "snapshot", "clear", "set", "retire"}
Callers == {"sched", "created", "scan", "after", "timer", "reload"}
Keys    == {"send", "clear", "set", "retire"}
Owners  == ID \cup Callers

\* The management jobs lock the root; the transfer job locks its target.
RootJobs == {"snapshot", "clear", "set", "retire"}
SameLock == RootJobs \X RootJobs

Table == INSTANCE JobTable WITH Jobs <- ID, Conflicts <- SameLock

JobOf(c)    == IF c = "sched" THEN "snapshot" ELSE "send"
Transfers   == {"send"} \cup (Callers \ {"sched"})
Entry       == [on |-> on, owned |-> owned, marked |-> since # 0]
Running     == {o \in Owners : tick[o] \in {"running", "stopping"}}
-----------------------------------------------------------------------------
(* The admission gate (gate.go).  A ticket is "queued", "cancelled" before  *)
(* it started, "running", or "stopping": running and cancelled.             *)

Enable ==
    /\ enabled' = TRUE
    /\ calm' = FALSE
    /\ UNCHANGED <<tick, kept>>

Disable ==
    /\ enabled' = FALSE
    /\ tick' = [o \in Owners |->
                  CASE tick[o] = "queued" -> "cancelled"
                    [] tick[o] = "running" /\ o \in Transfers -> "stopping"
                    [] OTHER -> tick[o]]
    /\ kept' = FALSE
    /\ UNCHANGED calm

\* Mutant: Start asks nothing.
StartAnyway(j) == TRUE

\* Start's two conditions.
Startable(j) == tick[j] = "queued" /\ enabled

Finish(o) == tick' = [tick EXCEPT ![o] = "none"]

\* WaitScopeQuiescent returns nil.
Quiescent == ~enabled /\ Running = {}
-----------------------------------------------------------------------------
(* Delayed runs (schedule).                                                  *)

\* A deadline for key k is issued and offered to schedule, which drops it
\* when one that is not later is still pending.
ScheduleAt(k, d) ==
    IF delayed[k] # 0 /\ d >= delayed[k]
    THEN UNCHANGED <<delayed, timers>>
    ELSE /\ delayed' = [delayed EXCEPT ![k] = d]
         /\ timers' = timers \cup {<<k, d>>}

Schedule(k) ==
    /\ issued' = [issued EXCEPT ![k] = @ + 1]
    /\ ScheduleAt(k, issued[k] + 1)
    /\ UNCHANGED passed

Pass(k) ==
    /\ passed[k] < issued[k]
    /\ passed' = [passed EXCEPT ![k] = @ + 1]
    /\ UNCHANGED <<kind, missed, left, zfs, seen, scan, gate, pools, run, at, work, issued, delayed, timers>>
-----------------------------------------------------------------------------
(* Queueing: the caller's checks and Queue, then Submit.                     *)

Accept(j) ==
    /\ Table!Accept(j)
    /\ line' = IF j \in RootJobs THEN Append(line, j) ELSE line

\* The queue is full or closed, or the caller's preparations failed.  It is
\* logged at most, and nothing repeats the call.
TurnAway(j) ==
    /\ left.turned > 0
    /\ left' = [left EXCEPT !.turned = @ - 1]
    /\ missed' = missed \cup {j}

\* enqueueRemote returns before a backoff deadline; Queue refuses a disabled
\* scope.  Either way nothing is queued and the dirty flag stays.
QueueTicket(c) ==
    /\ at[c] = "check"
    /\ IF enabled /\ (JobOf(c) = "send" /\ kind = "remote" => passed["send"] >= notBefore)
       THEN /\ at' = [at EXCEPT ![c] = "submit"]
            /\ tick' = [tick EXCEPT ![c] = "queued"]
            /\ old' = old \ {c}
       ELSE /\ at' = [at EXCEPT ![c] = "none"]
            /\ UNCHANGED <<tick, old>>
    /\ UNCHANGED <<kind, missed, left, zfs, seen, scan, enabled, calm, kept, pools, run,
                   dirty, pend, tried, sent, notBefore, outcome, clock>>

\* The target is not configured any more, is blocked by its permissions, or its
\* road cannot be prepared.  What created a snapshot has passed this already.
Unprepared(c) ==
    /\ c \notin {"sched", "created"}
    /\ at[c] = "check"
    /\ at' = [at EXCEPT ![c] = "none"]
    /\ TurnAway("send")
    /\ UNCHANGED <<kind, zfs, seen, scan, gate, pools, run, work, clock>>

\* The ticket goes with an accepted job and is finished with a duplicate or a
\* refused one.
SubmitJob(c) ==
    LET j == JobOf(c) IN
    /\ at[c] = "submit"
    /\ at' = [at EXCEPT ![c] = "none"]
    /\ \/ /\ Accept(j)
          /\ tick' = [tick EXCEPT ![j] = tick[c], ![c] = "none"]
          /\ old' = IF c \in old THEN old \cup {j} ELSE old \ {j}
          /\ missed' = missed \ {j}
          /\ UNCHANGED left
       \/ /\ phase[j] # "idle"
          /\ Finish(c)
          /\ UNCHANGED <<pools, old, missed, left>>
       \/ /\ Table!Refuse(j)
          /\ TurnAway(j)
          /\ Finish(c)
          /\ UNCHANGED <<line, old>>
    /\ UNCHANGED <<kind, zfs, seen, scan, enabled, calm, kept, run,
                   dirty, pend, tried, sent, notBefore, outcome, clock>>

\* A job that a submission under the same ID is refused for does not do the
\* new one's work if it has begun, or if the opposite job waits behind it.
Overtaken(j) ==
    \/ phase[j] \in {"running", "leaving"}
    \/ \E m, n \in 1..Len(line) : m < n /\ line[m] = j /\ {j, line[n]} = {"set", "clear"}

\* A job that takes no ticket: enqueueInactive and enqueueRetirement.
SubmitPlain(j) ==
    \/ /\ IF phase[j] = "idle" THEN Accept(j) ELSE UNCHANGED pools
       /\ missed' = IF Overtaken(j) THEN missed \cup {j} ELSE missed \ {j}
       /\ UNCHANGED left
    \/ Table!Refuse(j) /\ TurnAway(j) /\ UNCHANGED line

\* Queued jobs a worker has not popped are dropped, their tickets finished
\* and their IDs forgotten, before RemoveScope or DiscardPending returns.
DropQueued(dropped) ==
    /\ phase' = [j \in ID |-> IF j \in dropped THEN "idle" ELSE phase[j]]
    /\ line' = SelectSeq(line, LAMBDA j : j \notin dropped)
    /\ tick' = [o \in Owners |-> IF o \in dropped THEN "none" ELSE tick[o]]

\* The pools forget a job that was refused, or that has run; then After follows.
ForgetJob(j) ==
    /\ Table!Forget(j)
    /\ UNCHANGED line
    /\ IF j = "send" /\ outcome # "none"
       THEN /\ at["after"] = "none"
            /\ at' = [at EXCEPT !["after"] = IF kind = "local" /\ outcome = "waiting-retry" THEN "retry" ELSE "read"]
            /\ outcome' = "none"
       ELSE UNCHANGED <<at, outcome>>
    /\ UNCHANGED <<kind, missed, left, zfs, seen, scan, gate, run, dirty, pend, tried, sent, old, notBefore, clock>>

\* After: a snapshot that landed during the run is the next run's; otherwise
\* a local transient failure is retried.
After ==
    /\ at["after"] \in {"read", "retry"}
    /\ at' = [at EXCEPT !["after"] = IF dirty THEN "check" ELSE "none"]
    /\ IF ~dirty /\ at["after"] = "retry" THEN Schedule("send") ELSE UNCHANGED clock
    /\ UNCHANGED <<kind, missed, left, zfs, seen, scan, gate, pools, run, work>>

\* A timer goroutine runs only if its deadline is still the key's.
Fire(k, d) ==
    /\ <<k, d>> \in timers
    /\ passed[k] >= d
    /\ timers' = timers \ {<<k, d>>}
    /\ IF delayed[k] # d
       THEN UNCHANGED <<delayed, at, pools, missed, left>>
       ELSE /\ delayed' = [delayed EXCEPT ![k] = 0]
            /\ IF k = "send"
               THEN at["timer"] = "none" /\ at' = [at EXCEPT !["timer"] = "check"]
               ELSE UNCHANGED at
            /\ IF k = "retire" \/ (k # "send" /\ seen.on = (k = "clear"))
               THEN SubmitPlain(k)
               ELSE UNCHANGED <<pools, missed, left>>
    /\ UNCHANGED <<kind, zfs, seen, scan, gate, run, work, issued, passed>>
-----------------------------------------------------------------------------
(* The scanner and applyGeneration.                                          *)

\* A discovery pass reads the root.  One that finds what is already applied
\* changes nothing here.
Scan ==
    /\ scan.step = "idle"
    /\ Entry # seen
    /\ scan' = [step |-> "enable", entry |-> Entry]
    /\ UNCHANGED <<kind, missed, left, zfs, seen, gate, pools, run, at, work, clock>>

\* Admission is opened before the schedule is published.
ApplyEnable ==
    /\ scan.step = "enable"
    /\ IF scan.entry.on THEN Enable ELSE UNCHANGED gate
    /\ scan' = [scan EXCEPT !.step = "publish"]
    /\ UNCHANGED <<kind, missed, left, zfs, seen, pools, run, at, work, clock>>

\* The generation is published, and what has to follow is decided.
ApplyPublish ==
    /\ scan.step = "publish"
    /\ seen' = scan.entry
    /\ scan' = [scan EXCEPT !.step =
                  CASE scan.entry.on -> "clear"
                    [] ~scan.entry.on /\ (seen.on \/ scan.entry.owned) -> "disable"
                    [] OTHER -> "idle"]
    /\ UNCHANGED <<kind, missed, left, zfs, gate, pools, run, at, work, clock>>

ApplyClear ==
    /\ scan.step = "clear"
    /\ SubmitPlain("clear")
    /\ scan' = [scan EXCEPT !.step = "transfers"]
    /\ UNCHANGED <<kind, zfs, seen, gate, run, at, work, clock>>

\* A root that already has snapshots is caught up.
ApplyTransfers ==
    /\ scan.step = "transfers"
    /\ at["scan"] = "none"
    /\ at' = IF owned /\ kind # "none" THEN [at EXCEPT !["scan"] = "check"] ELSE at
    /\ scan' = [scan EXCEPT !.step = "enqueue"]
    /\ UNCHANGED <<kind, missed, left, zfs, seen, gate, pools, run, work, clock>>

ApplyDone ==
    /\ scan.step = "enqueue"
    /\ at["scan"] = "none"
    /\ scan' = [scan EXCEPT !.step = "idle"]
    /\ UNCHANGED <<kind, missed, left, zfs, seen, gate, pools, run, at, work, clock>>

ApplyDisable ==
    /\ scan.step = "disable"
    /\ Disable
    /\ scan' = [scan EXCEPT !.step = "remove"]
    /\ UNCHANGED <<kind, missed, left, zfs, seen, pools, run, at, work, clock>>

\* RemoveScope takes whatever no worker has popped.
ApplyRemove ==
    /\ scan.step = "remove"
    /\ \E popped \in 0..Len(line), sends \in SUBSET {"send"} :
          DropQueued({line[i] : i \in popped + 1..Len(line)} \cup {j \in sends : phase[j] = "queued"})
    /\ scan' = [scan EXCEPT !.step = IF scan.entry.owned THEN "mark" ELSE "idle"]
    /\ UNCHANGED <<kind, missed, left, zfs, seen, enabled, calm, kept, run, at, work, clock>>

ApplyMark ==
    /\ scan.step = "mark"
    /\ SubmitPlain("set")
    /\ scan' = [scan EXCEPT !.step = "idle"]
    /\ UNCHANGED <<kind, zfs, seen, gate, run, at, work, clock>>
-----------------------------------------------------------------------------
(* Jobs.  Begin and End are the pools'; the steps between are Run.           *)

FirstStep(j) ==
    CASE j = "send" -> "clear"
      [] j = "snapshot" -> "start"
      [] j = "set" -> "wait"
      [] OTHER -> "write"

BeginJob(j) ==
    /\ Table!Begin(j)
    /\ j \in RootJobs => j = Head(line)
    /\ line' = IF j \in RootJobs THEN Tail(line) ELSE line
    /\ run' = [run EXCEPT ![j] = FirstStep(j)]
    /\ UNCHANGED <<kind, missed, left, zfs, seen, scan, gate, at, work, clock>>

At(j, step) == phase[j] = "running" /\ run[j] = step
Goto(j, step) == run' = [run EXCEPT ![j] = step] /\ UNCHANGED pools
Leave(j) == Table!End(j) /\ UNCHANGED line /\ run' = [run EXCEPT ![j] = "none"]

\* Start fails on a cancelled ticket or a disabled scope.
StartJob(j) ==
    /\ At(j, "start")
    /\ IF Startable(j)
       THEN /\ tick' = [tick EXCEPT ![j] = "running"]
            /\ Goto(j, "work")
            /\ UNCHANGED outcome
       ELSE /\ Finish(j)
            /\ Leave(j)
            /\ outcome' = IF j = "send" THEN "cancelled" ELSE outcome
    /\ UNCHANGED <<kind, missed, left, zfs, seen, scan, enabled, calm, kept, at,
                   dirty, pend, tried, sent, old, notBefore, clock>>

\* A due or forced snapshot (see Scheduler) is queued.
DueSnapshot ==
    /\ left.snapshots > 0
    /\ seen.on
    /\ at["sched"] = "none"
    /\ left' = [left EXCEPT !.snapshots = @ - 1]
    /\ at' = [at EXCEPT !["sched"] = "check"]
    /\ UNCHANGED <<kind, missed, zfs, seen, scan, gate, pools, run, work, clock>>

\* CreateSnapshot, which makes the root owned, succeeds or fails.
Create ==
    /\ At("snapshot", "work")
    /\ \/ snaps' = snaps + 1 /\ owned' = TRUE /\ Goto("snapshot", "protect") /\ UNCHANGED tick
       \/ Finish("snapshot") /\ Leave("snapshot") /\ UNCHANGED <<snaps, owned>>
    /\ UNCHANGED <<kind, missed, left, on, since, seen, scan, enabled, calm, kept, at, work, clock>>

\* protectCreated: the new snapshot becomes the target's pending work, unless
\* there is no target or its protection fails.
Protect ==
    /\ At("snapshot", "protect")
    /\ \/ Finish("snapshot") /\ Leave("snapshot") /\ UNCHANGED <<pend, kept>>
       \/ /\ kind # "none"
          /\ pend' = snaps /\ kept' = enabled /\ Goto("snapshot", "mark") /\ UNCHANGED tick
    /\ UNCHANGED <<kind, missed, left, zfs, seen, scan, enabled, calm, at,
                   dirty, tried, sent, old, notBefore, outcome, clock>>

\* Mutant: the flag is forgotten, and a duplicate submission is lost.
MarkNothing ==
    /\ At("snapshot", "mark")
    /\ at' = [at EXCEPT !["created"] = "check"]
    /\ Goto("snapshot", "enqueue")
    /\ UNCHANGED <<kind, missed, left, zfs, seen, scan, gate, work, clock>>

MarkDirty ==
    /\ At("snapshot", "mark")
    /\ dirty' = TRUE
    /\ at' = [at EXCEPT !["created"] = "check"]
    /\ Goto("snapshot", "enqueue")
    /\ UNCHANGED <<kind, missed, left, zfs, seen, scan, gate, pend, tried, sent, old, notBefore, outcome, clock>>

SnapshotEnds ==
    /\ At("snapshot", "enqueue")
    /\ at["created"] = "none"
    /\ Finish("snapshot")
    /\ Leave("snapshot")
    /\ UNCHANGED <<kind, missed, left, zfs, seen, scan, enabled, calm, kept, at, work, clock>>

\* Run clears the flag before it asks what is pending.
ClearDirty ==
    /\ At("send", "clear")
    /\ dirty' = FALSE
    /\ Goto("send", "start")
    /\ UNCHANGED <<kind, missed, left, zfs, seen, scan, gate, at, pend, tried, sent, old, notBefore, outcome, clock>>

\* BeginStreams pins the pending snapshot.  A remote attempt inside the
\* backoff does nothing but schedule the deadline again.
BeginSend ==
    /\ At("send", "work")
    /\ IF kind = "remote" /\ "send" \notin old /\ passed["send"] < notBefore
       THEN /\ ScheduleAt("send", notBefore)
            /\ outcome' = "waiting-retry"
            /\ Finish("send")
            /\ Leave("send")
            /\ UNCHANGED tried
       ELSE /\ tried' = pend
            /\ Goto("send", "sending")
            /\ UNCHANGED <<delayed, timers, outcome, tick>>
    /\ UNCHANGED <<kind, missed, left, zfs, seen, scan, enabled, calm, kept, at,
                   dirty, pend, sent, old, notBefore, issued, passed>>

SendSucceeds ==
    /\ At("send", "sending")
    /\ sent' = tried
    /\ outcome' = "succeeded"
    /\ notBefore' = IF "send" \in old THEN notBefore ELSE 0
    /\ Finish("send")
    /\ Leave("send")
    /\ UNCHANGED <<kind, missed, left, zfs, seen, scan, enabled, calm, kept, at, dirty, pend, tried, old, clock>>

\* A remote transient failure sets the coordinator's deadline and schedules
\* it; a local one is left to After.
SendFails ==
    /\ At("send", "sending")
    /\ left.failures > 0
    /\ left' = [left EXCEPT !.failures = @ - 1]
    /\ outcome' = "waiting-retry"
    /\ IF kind = "remote"
       THEN /\ Schedule("send")
            /\ notBefore' = IF "send" \in old THEN notBefore ELSE issued["send"] + 1
       ELSE UNCHANGED <<clock, notBefore>>
    /\ Finish("send")
    /\ Leave("send")
    /\ UNCHANGED <<kind, missed, zfs, seen, scan, enabled, calm, kept, at, dirty, pend, tried, sent, old>>

\* Any other failure, or the cancellation that stops the stream.
SendStops ==
    /\ At("send", "sending")
    /\ outcome' = IF tick["send"] = "stopping" THEN "cancelled" ELSE "blocked"
    /\ Finish("send")
    /\ Leave("send")
    /\ UNCHANGED <<kind, missed, left, zfs, seen, scan, enabled, calm, kept, at,
                   dirty, pend, tried, sent, old, notBefore, clock>>

-----------------------------------------------------------------------------
(* The inactive marker and retirement.                                       *)

\* enqueueInactive(false) waits for the scope, and gives up if it is enabled.
AwaitQuiescent ==
    /\ At("set", "wait")
    /\ \/ enabled /\ Leave("set") /\ UNCHANGED calm
       \/ Quiescent /\ Goto("set", "write") /\ calm' = TRUE
    /\ UNCHANGED <<kind, missed, left, zfs, seen, scan, enabled, tick, kept, at, work, clock>>

\* Mutant: a refused job is not retried.
MarkerDropped(j) ==
    /\ j \in {"set", "clear"}
    /\ At(j, "write")
    /\ left.refusals > 0
    /\ left' = [left EXCEPT !.refusals = @ - 1]
    /\ calm' = IF j = "set" THEN FALSE ELSE calm
    /\ Leave(j)
    /\ UNCHANGED <<kind, missed, zfs, seen, scan, enabled, tick, kept, at, work, clock>>

\* The source keeps changing under the plan: the job is retried later.
MarkerRefused(j) ==
    /\ j \in {"set", "clear"}
    /\ At(j, "write")
    /\ left.refusals > 0
    /\ left' = [left EXCEPT !.refusals = @ - 1]
    /\ Schedule(j)
    /\ calm' = IF j = "set" THEN FALSE ELSE calm
    /\ Leave(j)
    /\ UNCHANGED <<kind, missed, zfs, seen, scan, enabled, tick, kept, at, work>>

\* The service or the reconciliation fails otherwise: the job ends, and nothing
\* runs it again.
MarkerFails(j) ==
    /\ At(j, "write")
    /\ left.refusals > 0
    /\ left' = [left EXCEPT !.refusals = @ - 1]
    /\ missed' = missed \cup {j}
    /\ calm' = IF j = "set" THEN FALSE ELSE calm
    /\ Leave(j)
    /\ UNCHANGED <<kind, zfs, seen, scan, enabled, tick, kept, at, work, clock>>

\* A marker is set once, with the deadline of its grace period; retirement is
\* scheduled for the deadline, or queued when it has passed.
SetMarker ==
    /\ At("set", "write")
    /\ calm' = FALSE
    /\ CASE ~owned -> Leave("set") /\ UNCHANGED <<since, clock>>
         [] owned /\ since = 0 -> since' = issued["retire"] + 1 /\ Schedule("retire") /\ Leave("set")
         [] owned /\ since # 0 /\ passed["retire"] < since ->
                /\ ScheduleAt("retire", since)
                /\ Leave("set")
                /\ UNCHANGED <<since, issued, passed>>
         [] OTHER -> Goto("set", "due") /\ UNCHANGED <<since, clock>>
    /\ UNCHANGED <<kind, missed, left, on, owned, snaps, seen, scan, enabled, tick, kept, at, work>>

QueueRetirement ==
    /\ At("set", "due")
    /\ SubmitPlain("retire")
    /\ run' = [run EXCEPT !["set"] = "end"]
    /\ UNCHANGED <<kind, zfs, seen, scan, gate, at, work, clock>>

SetEnds ==
    /\ At("set", "end")
    /\ Leave("set")
    /\ UNCHANGED <<kind, missed, left, zfs, seen, scan, gate, at, work, clock>>

ClearMarker ==
    /\ At("clear", "write")
    /\ since' = IF owned THEN 0 ELSE since
    /\ Leave("clear")
    /\ UNCHANGED <<kind, missed, left, on, owned, snaps, seen, scan, gate, at, work, clock>>

\* Retire reads the activation and the marker again.
Eligible == ~on /\ owned /\ since # 0 /\ passed["retire"] >= since

\* What is not due is left without a timer.
RetireNotDue ==
    /\ At("retire", "write")
    /\ ~Eligible
    /\ Leave("retire")
    /\ UNCHANGED <<kind, missed, left, zfs, seen, scan, gate, at, work, clock>>

\* Clean's safety checks hold (see Decommission) and the root is released.
RetireApplied ==
    /\ At("retire", "write")
    /\ Eligible
    /\ Quiescent
    /\ owned' = FALSE
    /\ since' = 0
    /\ Leave("retire")
    /\ UNCHANGED <<kind, missed, left, on, snaps, seen, scan, gate, at, work, clock>>

\* A blocker or an error.  Where no failure is left to the model the job waits
\* for its blocker to go, which stands for its further retries.
RetireFails ==
    /\ At("retire", "write")
    /\ Eligible
    /\ left.failures > 0
    /\ left' = [left EXCEPT !.failures = @ - 1]
    /\ Schedule("retire")
    /\ Leave("retire")
    /\ UNCHANGED <<kind, missed, zfs, seen, scan, gate, at, work>>
-----------------------------------------------------------------------------
(* The surroundings.                                                         *)

Toggle ==
    /\ left.toggles > 0
    /\ left' = [left EXCEPT !.toggles = @ - 1]
    /\ on' = ~on
    /\ UNCHANGED <<kind, missed, owned, since, snaps, seen, scan, gate, pools, run, at, work, clock>>

\* commitConfig with changed remotes: queued remote work is discarded,
ReloadDiscard ==
    /\ kind = "remote"
    /\ left.reloads > 0
    /\ at["reload"] = "none"
    /\ left' = [left EXCEPT !.reloads = @ - 1]
    /\ at' = [at EXCEPT !["reload"] = "reset"]
    /\ \E dropped \in SUBSET {j \in {"send"} : phase[j] = "queued"} : DropQueued(dropped)
    /\ UNCHANGED <<kind, missed, zfs, seen, scan, enabled, calm, kept, run, work, clock>>

\* the coordinators, the remote timers and the remote dirty flags are reset,
ReloadReset ==
    /\ at["reload"] = "reset"
    /\ notBefore' = 0
    /\ old' = {o \in Transfers : tick[o] # "none"}
    /\ delayed' = [delayed EXCEPT !["send"] = 0]
    /\ dirty' = FALSE
    /\ at' = [at EXCEPT !["reload"] = IF seen.on THEN "mark" ELSE "none"]
    /\ UNCHANGED <<kind, missed, left, zfs, seen, scan, gate, pools, run, pend, tried, sent, outcome, issued, passed, timers>>

\* and each active root's remote work is queued again.
ReloadMark ==
    /\ at["reload"] = "mark"
    /\ dirty' = TRUE
    /\ at' = [at EXCEPT !["reload"] = "check"]
    /\ UNCHANGED <<kind, missed, left, zfs, seen, scan, gate, pools, run, pend, tried, sent, old, notBefore, outcome, clock>>
-----------------------------------------------------------------------------
NoEntry == [on |-> FALSE, owned |-> FALSE, marked |-> FALSE]

\* A root the daemon has never seen, or an owned one at rest.
JobsInit ==
    /\ left \in Environments
    /\ kind = left.kind
    /\ on = TRUE
    /\ owned = (left.start = "settled")
    /\ since = 0 /\ snaps = 0
    /\ seen = IF owned THEN Entry ELSE NoEntry
    /\ scan = [step |-> "idle", entry |-> NoEntry]
    /\ enabled = owned
    /\ tick = [o \in Owners |-> "none"]
    /\ Table!TableInit /\ line = << >>
    /\ run = [j \in ID |-> "none"]
    /\ at = [c \in Callers |-> "none"]
    /\ dirty = FALSE
    /\ pend = 0 /\ tried = 0 /\ sent = 0
    /\ old = {} /\ notBefore = 0
    /\ issued = [k \in Keys |-> 0] /\ passed = [k \in Keys |-> 0]
    /\ delayed = [k \in Keys |-> 0] /\ timers = {}
    /\ outcome = "none"
    /\ calm = FALSE /\ kept = FALSE /\ missed = {}

Scanner ==
    \/ Scan \/ ApplyEnable \/ ApplyPublish \/ ApplyClear \/ ApplyTransfers \/ ApplyDone
    \/ ApplyDisable \/ ApplyRemove \/ ApplyMark

SendStep == ClearDirty \/ StartJob("send") \/ BeginSend \/ SendSucceeds \/ SendFails \/ SendStops

SnapshotStep == StartJob("snapshot") \/ Create \/ Protect \/ MarkDirty \/ SnapshotEnds

MarkerStep(j) ==
    \/ MarkerRefused(j) \/ MarkerFails(j)
    \/ j = "set" /\ (AwaitQuiescent \/ SetMarker \/ QueueRetirement \/ SetEnds)
    \/ j = "clear" /\ ClearMarker

RetireStep == RetireNotDue \/ RetireApplied \/ RetireFails

Enqueue(c) == Unprepared(c) \/ QueueTicket(c) \/ SubmitJob(c)

Reload == ReloadReset \/ ReloadMark

JobsNext ==
    \/ Scanner
    \/ SendStep \/ SnapshotStep \/ RetireStep
    \/ \E j \in {"set", "clear"} : MarkerStep(j)
    \/ \E j \in ID : BeginJob(j) \/ ForgetJob(j)
    \/ After
    \/ \E c \in Callers : Enqueue(c)
    \/ \E k \in Keys : Pass(k) \/ \E t \in timers : t[1] = k /\ Fire(k, t[2])
    \/ DueSnapshot
    \/ Toggle
    \/ ReloadDiscard \/ Reload

\* Every goroutine that can run eventually does, every lock wait and every
\* stream ends, and time passes.  What the operator and the schedule do is
\* not forced.
JobsFair ==
    /\ WF_jvars(Scanner)
    /\ WF_jvars(SendStep) /\ WF_jvars(SnapshotStep) /\ WF_jvars(RetireStep)
    /\ \A j \in {"set", "clear"} : WF_jvars(MarkerStep(j))
    /\ \A j \in ID : SF_jvars(BeginJob(j)) /\ WF_jvars(ForgetJob(j))
    /\ WF_jvars(After)
    /\ \A c \in Callers : WF_jvars(Enqueue(c))
    /\ \A k \in Keys : WF_jvars(Pass(k)) /\ WF_jvars(\E t \in timers : t[1] = k /\ Fire(k, t[2]))
    /\ WF_jvars(Reload)

JobsSpec == JobsInit /\ [][JobsNext]_jvars /\ JobsFair
-----------------------------------------------------------------------------
(* Properties.                                                               *)

\* Once WaitScopeQuiescent has returned for a root (gate.go) and until the
\* root is enabled again, no job of the root is running, so the marker is set
\* and the grace period starts with nothing at work.
CalmHolds == calm => Running = {}

\* A coordinator with an outstanding failure (runtime.go enqueueRemote) that
\* nothing is scheduled or queued to try again.
RetryLost ==
    /\ notBefore # 0 /\ delayed["send"] = 0
    /\ phase["send"] = "idle"
    /\ \A c \in Callers \ {"sched"} : at[c] = "none"

\* A snapshot coalesced as pending work is carried by an attempt, whatever
\* runs, retries and reloads it lands among (the dirty flag), unless the root
\* is disabled in the meantime, the last call of the transfer job was turned
\* away, or the remote's retry has been lost.
Attempted ==
    (kept /\ tried < pend) ~> (tried >= pend \/ ~kept \/ "send" \in missed \/ RetryLost)

\* When the activation property settles the marker follows it
\* (applyGeneration, enqueueInactive): an owned root that stays off is marked
\* or retired, one that stays on loses its marker.  The exception is a last
\* reconciliation that a full queue turned away, that ended in an error other
\* than a state change, or that was taken for a duplicate of one already
\* running, or queued ahead of its opposite, for an earlier activation.
MarkerFollows ==
    /\ <>[](~on) => <>[](owned => since # 0 \/ "set" \in missed)
    /\ <>[]on => <>[](since = 0 \/ "clear" \in missed)

\* A marked root that stays off is retired once its grace period has passed
\* (enqueueInactive and schedule).
Retires == []<>(on \/ since = 0)
=============================================================================
