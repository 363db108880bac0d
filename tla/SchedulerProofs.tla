-------------------------- MODULE SchedulerProofs ---------------------------
(***************************************************************************)
(* Proofs about Scheduler, for any roots, members, cadences and delays:       *)
(* its type invariant, that unforced snapshots keep their distance even when  *)
(* Update works with stale deadlines, and that the only pending roots without  *)
(* an owner are those whose flag Update revived.                              *)
(***************************************************************************)
EXTENDS Scheduler, TLAPS

\* Members of another root never get into a root's schedule or job, and a job
\* that is about to create holds only members that are due, unless forced.
DueInv ==
    /\ loop.pc # "wait" => loop.root \in Root /\ loop.due \subseteq MembersOf(loop.root)
    /\ scan.pc \in {"merge", "remove"} => scan.root \in Root
    /\ \A r \in Root :
        /\ job[r].due \subseteq MembersOf(r)
        /\ job[r].pc = "create" /\ ~job[r].force =>
             \A m \in job[r].due : age[m] = Cadence[m]

SInv == SchedulerTypeOK /\ DueInv

LEMMA ZeroIsWait == 0 \in Wait
  BY DEF Wait, Delays

LEMMA DelaysAreWait == RetryDelay \in Wait /\ DropDelay \in Wait
  BY SchedulerAssumption DEF Wait, Delays

LEMMA CadenceIsWait ==
    ASSUME NEW m \in Member, NEW a \in Nat, a =< Cadence[m]
    PROVE  Cadence[m] \in Wait /\ Cadence[m] - a \in Wait
  BY SchedulerAssumption DEF Wait, Delays

LEMMA DownIsWait ==
    ASSUME NEW w \in [Member -> Wait] PROVE Down(w) \in [Member -> Wait]
  BY SchedulerAssumption DEF Wait, Delays, Down

\* Complete and Retry keep the types of what they write.
LEMMA CompleteType ==
    ASSUME SchedulerTypeOK, NEW r \in Root, NEW due, NEW deferred,
           Complete(r, due, deferred)
    PROVE  pending' \in SUBSET Root /\ revived' \subseteq pending' /\ wait' \in [Member -> Wait]
  <1>1. wait' \in [Member -> Wait]
    BY CadenceIsWait, SchedulerAssumption DEF Complete, SchedulerTypeOK
  <1>2. pending' \in SUBSET Root /\ revived' \subseteq pending'
    BY DEF Complete, SchedulerTypeOK
  <1> QED
    BY <1>1, <1>2

LEMMA RetryType ==
    ASSUME SchedulerTypeOK, NEW r \in Root, NEW delay \in Wait, Retry(r, delay)
    PROVE  pending' \in SUBSET Root /\ revived' \subseteq pending' /\ wait' \in [Member -> Wait]
  BY DEF Retry, SchedulerTypeOK

LEMMA InitSInv == Init => SInv
  BY ZeroIsWait, SchedulerAssumption
  DEF Init, SInv, SchedulerTypeOK, DueInv, ScanIdle, LoopIdle, NoJobs, NoJob,
      NoWait, Scan, Loop, Job, MembersOf

LEMMA ScanSInv == SInv /\ ScanStep => SInv'
  <1> SUFFICES ASSUME SInv, ScanStep PROVE SInv'
    OBVIOUS
  <1> USE DEF SInv, SchedulerTypeOK, DueInv
  <1>1. CASE ReadEntry
    <2>1. PICK r \in scan.left :
            scan' = [scan EXCEPT !.pc = "merge", !.root = r, !.found = on \cap {r},
                                 !.pending = @ \cup (pending \cap {r})]
      BY Zenon, <1>1 DEF ReadEntry
    <2>2. r \in Root /\ scan' \in Scan /\ scan'.root \in Root
      BY Zenon, <2>1 DEF Scan
    <2> QED
      BY <1>1, <2>2 DEF ReadEntry
  <1>2. CASE MergeEntry
    BY Zenon, <1>2 DEF MergeEntry, Scan, Wait
  <1>3. CASE InstallEntries
    BY ZenonT(60), <1>3, ZeroIsWait DEF InstallEntries, Scan, ScanIdle, NoWait, Wait
  <1>4. CASE EndGeneration
    BY <1>4, ZeroIsWait DEF EndGeneration, Scan, ScanIdle, NoWait, Wait
  <1>5. CASE Disable
    <2>1. PICK r \in scan.left :
            /\ loop' = IF loop.pc = "submit" /\ loop.root = r
                       THEN [loop EXCEPT !.cancelled = TRUE] ELSE loop
            /\ job' = IF job[r].pc \in {"queued", "popped"}
                      THEN [job EXCEPT ![r].cancelled = TRUE] ELSE job
            /\ scan' = [scan EXCEPT !.pc = "remove", !.root = r]
            /\ enabled' = enabled \ {r}
      BY Zenon, <1>5 DEF Disable
    <2>2. r \in Root /\ scan' \in Scan /\ scan'.root \in Root
      BY Zenon, <2>1 DEF Scan
    <2>3. loop' \in Loop /\ loop'.pc = loop.pc /\ loop'.root = loop.root /\ loop'.due = loop.due
      BY Zenon, <2>1 DEF Loop
    <2>4. /\ job' \in [Root -> Job]
          /\ \A q \in Root : /\ job'[q].due = job[q].due /\ job'[q].pc = job[q].pc
                             /\ job'[q].force = job[q].force
      <3> DEFINE ended == [job[r] EXCEPT !.cancelled = TRUE]
      <3>1. job[r] \in Job
        BY <2>2
      <3>2. /\ ended \in Job /\ ended.due = job[r].due /\ ended.pc = job[r].pc
            /\ ended.force = job[r].force
        BY Zenon, <3>1 DEF Job
      <3>3. job' = job \/ job' = [job EXCEPT ![r] = ended]
        BY <2>1
      <3> HIDE DEF ended
      <3> QED
        BY <2>2, <3>2, <3>3
    <2> QED
      BY <1>5, <2>1, <2>2, <2>3, <2>4 DEF Disable
  <1>6. CASE RemoveScope
    <2>1. scan.root \in Root
      BY <1>6 DEF RemoveScope
    <2>2. pending' \in SUBSET Root /\ revived' \subseteq pending' /\ wait' \in [Member -> Wait]
      BY <1>6, <2>1, RetryType, DelaysAreWait DEF RemoveScope
    <2>3. scan' \in Scan /\ scan'.pc = "disable"
      BY Zenon, <1>6 DEF RemoveScope, Scan
    <2>4. /\ job' \in [Root -> Job]
          /\ \A q \in Root : job'[q] = job[q] \/ job'[q] = NoJob
      <3>1. NoJob \in Job
        BY DEF NoJob, Job
      <3>2. UNCHANGED job \/ job' = [job EXCEPT ![scan.root] = NoJob]
        BY <1>6 DEF RemoveScope
      <3> QED
        BY <2>1, <3>1, <3>2
    <2> QED
      BY <1>6, <2>2, <2>3, <2>4 DEF RemoveScope, NoJob
  <1> QED
    BY <1>1, <1>2, <1>3, <1>4, <1>5, <1>6 DEF ScanStep

LEMMA LoopSInv == SInv /\ LoopStep => SInv'
  <1> SUFFICES ASSUME SInv, LoopStep PROVE SInv'
    OBVIOUS
  <1> USE DEF SInv, SchedulerTypeOK, DueInv
  <1>1. CASE QueueTicket
    <2>1. loop.root \in Root
      BY <1>1 DEF QueueTicket
    <2>2. pending' \in SUBSET Root /\ revived' \subseteq pending' /\ wait' \in [Member -> Wait]
      BY <1>1, <2>1, RetryType, DelaysAreWait DEF QueueTicket
    <2>3. /\ loop' \in Loop
          /\ loop'.pc # "wait" => loop'.root = loop.root /\ loop'.due = loop.due
      <3>1. CASE loop' = [loop EXCEPT !.pc = "submit"]
        BY <3>1 DEF Loop
      <3>2. CASE loop' = LoopIdle
        BY <3>2 DEF Loop, LoopIdle
      <3> QED
        BY <1>1, <3>1, <3>2 DEF QueueTicket
    <2> QED
      BY <1>1, <2>1, <2>2, <2>3 DEF QueueTicket
  <1>2. CASE Submit
    <2>1. loop.root \in Root
      BY <1>2 DEF Submit
    <2>2. pending' \in SUBSET Root /\ revived' \subseteq pending' /\ wait' \in [Member -> Wait]
      BY Zenon, <1>2, <2>1, RetryType, DelaysAreWait DEF Submit
    <2>3. loop' \in Loop /\ loop'.pc = "wait"
      BY <1>2 DEF Submit, Loop, LoopIdle
    <2>4. \/ UNCHANGED job
          \/ job' = [job EXCEPT ![loop.root] = Submitted(loop.due, FALSE, loop.cancelled)]
      BY Zenon, <1>2 DEF Submit
    <2>5. /\ Submitted(loop.due, FALSE, loop.cancelled) \in Job
          /\ Submitted(loop.due, FALSE, loop.cancelled).due = loop.due
          /\ Submitted(loop.due, FALSE, loop.cancelled).pc = "queued"
      BY Zenon DEF Submitted, NoJob, Job, Loop
    <2>6. job' \in [Root -> Job]
      BY Zenon, <2>1, <2>4, <2>5
    <2>7. \A q \in Root : \/ job'[q] = job[q]
                         \/ /\ job'[q].due \subseteq MembersOf(q)
                            /\ job'[q].pc = "queued"
      BY Zenon, <1>2, <2>1, <2>4, <2>5 DEF Submit
    <2> QED
      BY <1>2, <2>2, <2>3, <2>6, <2>7 DEF Submit
  <1>3. CASE HandOut
    <2>1. loop.root \in Root
      BY <1>3 DEF HandOut
    <2>2. /\ loop' \in Loop
          /\ loop'.pc = "queue" /\ loop'.root = loop.root
          /\ loop'.due \subseteq MembersOf(loop.root)
      BY Zenon, <1>3, <2>1 DEF HandOut, Loop, MembersOf
    <2> QED
      BY <1>3, <2>1, <2>2 DEF HandOut
  <1> QED
    BY <1>1, <1>2, <1>3 DEF LoopStep

LEMMA RootSInv ==
    ASSUME SInv, NEW r \in Root,
           \/ Fire(r) \/ Trigger(r) \/ JobStep(r) \/ CreateSnapshot(r) \/ SnapshotFails(r)
    PROVE  SInv'
  <1> USE DEF SInv, SchedulerTypeOK, DueInv
  <1>1. CASE Fire(r)
    BY <1>1, ZenonT(60) DEF Fire, Loop, LoopIdle, MembersOf
  <1>2. CASE Trigger(r)
    BY <1>2, ZenonT(60) DEF Trigger, Submitted, Job, NoJob, MembersOf
  <1>3. CASE Pop(r)
    BY <1>3 DEF Pop, Job
  <1>4. CASE Start(r)
    BY <1>4 DEF Start, Job, NoJob, Done
  <1>5. CASE CheckDue(r)
    <2>1. pending' \in SUBSET Root /\ revived' \subseteq pending' /\ wait' \in [Member -> Wait]
      BY <1>5, CompleteType DEF CheckDue
    <2>2. satisfiedMembers(r) \subseteq Member
      BY DEF satisfiedMembers, MembersOf
    <2>3. \A m \in MembersOf(r) \ satisfiedMembers(r) : job[r].force \/ age[m] = Cadence[m]
      BY SchedulerAssumption DEF satisfiedMembers, MembersOf
    <2>4. CASE job' = [job EXCEPT ![r] = Done]
      BY <1>5, <2>1, <2>4 DEF CheckDue, Job, NoJob, Done
    <2>5. CASE job' = [job EXCEPT ![r].pc = "create", ![r].due = @ \ satisfiedMembers(r),
                                  ![r].deferred = satisfiedMembers(r)]
      BY <1>5, <2>1, <2>2, <2>3, <2>5 DEF CheckDue, Job
    <2> QED
      BY Zenon, <1>5, <2>4, <2>5 DEF CheckDue
  <1>6. CASE SettleJob(r)
    <2>1. pending' \in SUBSET Root /\ revived' \subseteq pending' /\ wait' \in [Member -> Wait]
      BY <1>6, CompleteType DEF SettleJob
    <2> QED
      BY <1>6, <2>1 DEF SettleJob, Job, NoJob, Done
  <1>7. CASE EndJob(r)
    BY <1>7 DEF EndJob, Job, NoJob
  <1>8. CASE CreateSnapshot(r)
    <2>1. age' \in [Member -> Nat] /\ \A m \in Member : age'[m] =< Cadence[m]
      BY <1>8, SchedulerAssumption DEF CreateSnapshot
    <2>2. ASSUME NEW q \in Root, job'[q].pc = "create" /\ ~job'[q].force,
                 NEW m \in job'[q].due
          PROVE  age'[m] = Cadence[m]
      <3>1. q # r /\ job'[q] = job[q]
        BY <1>8, <2>2 DEF CreateSnapshot
      <3>2. m \in MembersOf(q) /\ m \notin job[r].due
        BY <3>1, <2>2 DEF MembersOf
      <3> QED
        BY <1>8, <2>2, <3>1, <3>2 DEF CreateSnapshot, MembersOf
    <2>3. /\ job' \in [Root -> Job]
          /\ \A q \in Root : job'[q].due = job[q].due
      BY <1>8 DEF CreateSnapshot, Job
    <2> QED
      BY <1>8, <2>1, <2>2, <2>3 DEF CreateSnapshot
  <1>9. CASE SnapshotFails(r)
    <2>1. pending' \in SUBSET Root /\ revived' \subseteq pending' /\ wait' \in [Member -> Wait]
      BY <1>9, RetryType, DelaysAreWait DEF SnapshotFails
    <2> QED
      BY <1>9, <2>1 DEF SnapshotFails, Job, NoJob, Done
  <1> QED
    BY <1>1, <1>2, <1>3, <1>4, <1>5, <1>6, <1>7, <1>8, <1>9 DEF JobStep

LEMMA StepSInv == SInv /\ [Next]_vars => SInv'
  <1> SUFFICES ASSUME SInv, [Next]_vars PROVE SInv'
    OBVIOUS
  <1> USE DEF SInv, SchedulerTypeOK, DueInv
  <1>1. CASE \E gen \in SUBSET Root : BeginGeneration(gen)
    <2>1. PICK gen \in SUBSET Root : BeginGeneration(gen)
      BY <1>1
    <2>2. scan' \in Scan /\ scan'.pc = "read"
      BY Zenon, <2>1, ZeroIsWait DEF BeginGeneration, Scan, ScanIdle, NoWait
    <2> QED
      BY <2>1, <2>2 DEF BeginGeneration
  <1>2. CASE ScanStep
    BY <1>2, ScanSInv
  <1>3. CASE Restart
    BY <1>3, ZeroIsWait
    DEF Restart, Scan, ScanIdle, Loop, LoopIdle, NoJobs, NoJob, Job, NoWait, Wait
  <1>4. CASE LoopStep
    BY <1>4, LoopSInv
  <1>5. CASE Tick
    <2>1. wait' \in [Member -> Wait] /\ scan' \in Scan
      BY <1>5, DownIsWait DEF Tick, Scan, Wait
    <2>2. /\ age' \in [Member -> Nat]
          /\ \A m \in Member : age'[m] =< Cadence[m] /\ age[m] =< age'[m]
      BY <1>5, SchedulerAssumption DEF Tick
    <2>3. \A m \in Member : age[m] = Cadence[m] => age'[m] = Cadence[m]
      BY <1>5, SchedulerAssumption DEF Tick
    <2> QED
      BY <1>5, <2>1, <2>2, <2>3 DEF Tick, MembersOf, Scan
  <1>6. CASE \E r \in Root : \/ Fire(r) \/ Trigger(r) \/ JobStep(r)
                             \/ CreateSnapshot(r) \/ SnapshotFails(r)
    BY <1>6, RootSInv
  <1>7. CASE UNCHANGED vars
    BY <1>7 DEF vars
  <1> QED
    BY <1>1, <1>2, <1>3, <1>4, <1>5, <1>6, <1>7 DEF Next

\* The variables of the scheduler, its gate, its loop and its jobs keep their
\* types; in particular no deadline is ever further ahead than the longest
\* cadence or delay.
THEOREM SchedulerTypes == Spec => []SchedulerTypeOK
  <1>1. SInv => SchedulerTypeOK
    BY DEF SInv
  <1> QED
    BY <1>1, InitSInv, StepSInv, PTL DEF Spec

LEMMA StepSpacing ==
    ASSUME SInv, [Next]_vars, NEW m \in Member, age'[m] < age[m]
    PROVE  age[m] = Cadence[m] \/ job[RootOf[m]].force
  <1> USE DEF SInv, SchedulerTypeOK, DueInv
  <1>1. CASE Tick
    BY <1>1, SchedulerAssumption DEF Tick
  <1>2. CASE \E r \in Root : CreateSnapshot(r)
    <2>1. PICK r \in Root : CreateSnapshot(r)
      BY <1>2
    <2>2. m \in job[r].due
      BY <2>1 DEF CreateSnapshot
    <2>3. RootOf[m] = r
      BY <2>2 DEF MembersOf
    <2> QED
      BY <2>1, <2>2, <2>3 DEF CreateSnapshot
  <1>3. CASE UNCHANGED age
    BY <1>3
  <1>4. Tick \/ (\E r \in Root : CreateSnapshot(r)) \/ UNCHANGED age
    BY Zenon DEF Next, vars, BeginGeneration, ScanStep, ReadEntry, MergeEntry, InstallEntries,
           EndGeneration, Disable, RemoveScope, Restart, LoopStep, HandOut, QueueTicket, Submit, Fire,
           Trigger, JobStep, Pop, Start, CheckDue, SettleJob, EndJob, SnapshotFails
  <1> QED
    BY <1>1, <1>2, <1>3, <1>4

\* Whatever the interleaving of discovery, firing, triggering and restarts,
\* stale installs by Update included, an unforced snapshot of a member is
\* taken only once its newest owned one is a cadence old.
THEOREM SnapshotsAreSpaced == Spec => Spacing
  <1>1. SInv /\ [Next]_vars =>
          [\A m \in Member :
             age'[m] < age[m] => age[m] = Cadence[m] \/ job[RootOf[m]].force]_vars
    BY StepSpacing
  <1> QED
    BY <1>1, InitSInv, StepSInv, PTL DEF Spec, Spacing

-----------------------------------------------------------------------------
(* A pending root without an owner is one that Update revived.             *)

\* Pending roots are scheduled and admitted, and so are those Update copied as
\* pending; the roots being deactivated are out of the schedule; and a ticket
\* cancelled in the loop's hands belongs to no root that is pending or that
\* Update is about to make so.
PendingInv ==
    /\ PendingOwned
    /\ pending \subseteq on
    /\ on \subseteq enabled
    /\ scan.pc \in {"read", "merge"} =>
         /\ scan.left \subseteq scan.gen
         /\ scan.gen \subseteq enabled
         /\ scan.pending \subseteq scan.gen
         /\ scan.pc = "merge" => scan.root \in scan.gen
         /\ loop.cancelled => loop.root \notin scan.pending
    /\ scan.pc \in {"disable", "remove"} => scan.left \cap on = {}
    /\ scan.pc = "remove" => scan.root \in scan.left
    /\ loop.pc = "wait" => ~loop.cancelled
    /\ loop.cancelled => loop.root \notin pending

PInv == SInv /\ PendingInv

LEMMA InitPInv == Init => PendingInv
  BY DEF Init, PendingInv, PendingOwned, ScanIdle, LoopIdle

LEMMA StepPending ==
    ASSUME PInv, SInv', [Next]_vars PROVE PendingInv'
  <1> USE DEF PInv, SInv, SchedulerTypeOK, DueInv, PendingInv, PendingOwned, Owned
  <1>1. CASE \E gen \in SUBSET Root : BeginGeneration(gen)
    BY <1>1 DEF BeginGeneration, ScanIdle
  <1>2. CASE ReadEntry
    BY <1>2 DEF ReadEntry, Scan
  <1>3. CASE MergeEntry
    BY Zenon, <1>3 DEF MergeEntry, Scan
  <1>4. CASE InstallEntries
    BY <1>4 DEF InstallEntries, Scan, ScanIdle
  <1>5. CASE EndGeneration
    BY <1>5 DEF EndGeneration, ScanIdle
  <1>6. CASE Disable
    BY <1>6 DEF Disable, Scan, Loop, Job
  <1>7. CASE RemoveScope
    BY <1>7 DEF RemoveScope, Retry, Scan, Job, NoJob
  <1>8. CASE Restart
    BY <1>8 DEF Restart, ScanIdle, LoopIdle
  <1>9. CASE QueueTicket
    BY <1>9 DEF QueueTicket, Retry, Loop, LoopIdle
  <1>10. CASE Submit
    <2>1. loop.root \in Root /\ loop.pc = "submit"
      BY <1>10 DEF Submit
    <2>2. loop'.pc = "wait" /\ ~loop'.cancelled
      BY <1>10 DEF Submit, LoopIdle
    <2>3. \A r \in (pending \ revived) \ {loop.root} :
            job[r].pc \notin {"none", "done"} /\ ~job[r].force /\ ~job[r].cancelled
      OBVIOUS
    <2>4. CASE UNCHANGED job /\ Retry(loop.root, DropDelay)
      <3>1. pending' = pending \ {loop.root} /\ revived' = revived \ {loop.root}
        BY <2>4 DEF Retry
      <3> QED
        BY <1>10, <2>2, <2>3, <2>4, <3>1 DEF Submit
    <2>5. CASE /\ job' = [job EXCEPT ![loop.root] = Submitted(loop.due, FALSE, loop.cancelled)]
               /\ UNCHANGED <<pending, revived>>
      <3>1. /\ Submitted(loop.due, FALSE, loop.cancelled).pc = "queued"
            /\ ~Submitted(loop.due, FALSE, loop.cancelled).force
            /\ Submitted(loop.due, FALSE, loop.cancelled).cancelled = loop.cancelled
        BY DEF Submitted, NoJob
      <3>2. \A r \in pending \ revived :
              job'[r].pc \notin {"none", "done"} /\ ~job'[r].force /\ ~job'[r].cancelled
        BY ZenonT(60), <2>1, <2>3, <2>5, <3>1
      <3> QED
        BY Zenon, <1>10, <2>2, <2>5, <3>2 DEF Submit
    <2> QED
      BY Zenon, <1>10, <2>4, <2>5 DEF Submit
  <1>11. CASE Tick
    BY <1>11 DEF Tick, Scan
  <1>12. ASSUME NEW r \in Root,
                \/ Fire(r) \/ Trigger(r) \/ JobStep(r) \/ CreateSnapshot(r) \/ SnapshotFails(r)
         PROVE  PendingInv'
    <2> USE <1>12
    <2>1. CASE Fire(r)
      BY <2>1 DEF Fire, Loop, LoopIdle
    <2>2. CASE Trigger(r)
      BY <2>2 DEF Trigger, Submitted, Job, NoJob
    <2>3. CASE Pop(r)
      BY <2>3 DEF Pop, Job
    <2>4. CASE Start(r)
      BY <2>4 DEF Start, Job, NoJob, Done
    <2>5. CASE CheckDue(r)
      <3>1. CASE job[r].due \subseteq satisfiedMembers(r)
        <4>1. /\ pending' = pending \ {r} /\ revived' = revived \ {r}
              /\ job' = [job EXCEPT ![r] = Done]
          BY <2>5, <3>1 DEF CheckDue, Complete
        <4> QED
          BY <2>5, <4>1 DEF CheckDue
      <3>2. CASE ~(job[r].due \subseteq satisfiedMembers(r))
        <4>1. /\ UNCHANGED <<pending, revived>>
              /\ job' = [job EXCEPT ![r].pc = "create",
                                    ![r].due = job[r].due \ satisfiedMembers(r),
                                    ![r].deferred = satisfiedMembers(r)]
          BY <2>5, <3>2 DEF CheckDue
        <4>2. /\ job'[r].pc = "create" /\ job'[r].force = job[r].force
              /\ job'[r].cancelled = job[r].cancelled
              /\ \A q \in Root \ {r} : job'[q] = job[q]
          BY <4>1 DEF Job
        <4> QED
          BY <2>5, <4>1, <4>2 DEF CheckDue
      <3> QED
        BY <3>1, <3>2
    <2>6. CASE SettleJob(r)
      BY <2>6 DEF SettleJob, Complete, Job, NoJob, Done
    <2>7. CASE EndJob(r)
      <3>1. r \in pending \ revived => loop.pc # "wait" /\ loop.root = r
        BY <2>7 DEF EndJob
      <3>2. \A q \in Root \ {r} : job'[q] = job[q]
        BY <2>7 DEF EndJob
      <3> QED
        BY <2>7, <3>1, <3>2 DEF EndJob
    <2>8. CASE CreateSnapshot(r)
      BY <2>8 DEF CreateSnapshot, Job
    <2>9. CASE SnapshotFails(r)
      BY <2>9 DEF SnapshotFails, Retry, Job, NoJob, Done
    <2> QED
      BY Zenon, <1>12, <2>1, <2>2, <2>3, <2>4, <2>5, <2>6, <2>7, <2>8, <2>9 DEF JobStep
  <1>13. CASE UNCHANGED vars
    BY <1>13 DEF vars
  <1>14. CASE HandOut
    BY Zenon, <1>14 DEF HandOut, Loop
  <1> QED
    BY Zenon, <1>1, <1>2, <1>3, <1>4, <1>5, <1>6, <1>7, <1>8, <1>9, <1>10, <1>11, <1>12, <1>13, <1>14
    DEF Next, ScanStep, LoopStep

\* However firings, jobs, deactivations, restarts and generations interleave, a
\* pending root is on its way to Complete or Retry, or Update revived its flag:
\* dropped, refused, cancelled, failed and forced jobs never leave it passed
\* over.
THEOREM PendingIsOwned == Spec => []PendingOwned
  <1>1. Init => PInv
    BY InitSInv, InitPInv DEF PInv
  <1>2. PInv /\ [Next]_vars => PInv'
    BY StepSInv, StepPending DEF PInv
  <1>3. PInv => PendingOwned
    BY DEF PInv, PendingInv
  <1> QED
    BY <1>1, <1>2, <1>3, PTL DEF Spec
=============================================================================
