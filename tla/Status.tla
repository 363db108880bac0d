------------------------------- MODULE Status -------------------------------
(***************************************************************************)
(* The daemon's status (internal/daemon/status.go): one goroutine owns the *)
(* job states and views, producers send it messages, and a forwarder       *)
(* stands between it and each consumer, a watch and the daemon log.        *)
(*                                                                         *)
(* Every channel is bounded and the owner never waits: a state is          *)
(* conflated, a sample may be dropped, a watch that falls behind is ended, *)
(* and the log marks a gap.  Transitions are numbered in the order the     *)
(* owner applies them, and so are the entries of the log, which are the    *)
(* transitions and the discovery generations.                              *)
(***************************************************************************)
EXTENDS Integers, SequencesExt

CONSTANTS
  Job,
  Bound,          \* transitionBound
  InputBound,     \* statusInputBuffer
  SampleBound,    \* progressBuffer
  Environments    \* how much of each kind of input a behaviour has

ASSUME StatusAssumption ==
  /\ IsFiniteSet(Job)
  /\ Bound \in Nat \ {0}
  /\ \A e \in Environments :
       /\ e = [transitions |-> e.transitions, drops |-> e.drops, views |-> e.views,
               samples |-> e.samples, flushes |-> e.flushes, watches |-> e.watches,
               cancels |-> e.cancels, generation |-> e.generation, log |-> e.log]
       /\ e.watches \in 0 .. 1 /\ e.generation \in Nat /\ e.log \in BOOLEAN

VARIABLES
  worker,    \* job -> what its worker last reported
  input,     \* Status.input
  samples,   \* Status.progress
  owner,     \* statusOwner: job rows, generation, revision
  fan,       \* what the owner has yet to offer of a change it applied
  watch,     \* a subscription: its record in the owner, its forwarder, its consumer
  log,       \* the log's record, forwarder and writer
  env

vars == <<worker, input, samples, owner, fan, watch, log, env>>

(***************************************************************************)
(* Producers.                                                              *)
(***************************************************************************)

Message == [kind |-> "none", events |-> <<>>, generation |-> 0]

Post(message) ==
  /\ Len(input) < InputBound
  /\ input' = Append(input, message)

Event(j, state, send) ==
  [job |-> j, state |-> state, send |-> IF state = "sending" THEN send ELSE 0]

\* A worker's transition; entering "sending", first or to resume, counts one
\* more send.
Record(j) ==
  /\ env.transitions > 0
  /\ \E state \in {"sending"} \cup (IF worker[j].state = "sending" THEN {"verifying"} ELSE {}) :
       LET send == worker[j].send + (IF state = "sending" THEN 1 ELSE 0)
       IN  /\ worker' = [worker EXCEPT ![j] = [state |-> state, send |-> send]]
           /\ Post([Message EXCEPT !.kind = "change",
                                   !.events = <<Event(j, state, send)>>])
  /\ env' = [env EXCEPT !.transitions = @ - 1]
  /\ UNCHANGED <<samples, owner, fan, watch, log>>

\* A queue change drops every job: one message with a transition for each.
PublishQueue ==
  /\ env.drops > 0
  /\ Post([Message EXCEPT !.kind = "change",
                          !.events = SetToSeq({Event(j, "cancelled", 0) : j \in Job})])
  /\ worker' = [j \in Job |-> [worker[j] EXCEPT !.state = "cancelled"]]
  /\ env' = [env EXCEPT !.drops = @ - 1]
  /\ UNCHANGED <<samples, owner, fan, watch, log>>

\* The runtime's view, with a new discovery generation or the same one.
PublishRuntime ==
  /\ env.views > 0
  /\ \E generation \in {env.generation, env.generation + 1} \ {0} :
       /\ Post([Message EXCEPT !.kind = "change", !.generation = generation])
       /\ env' = [env EXCEPT !.views = @ - 1, !.generation = generation]
  /\ UNCHANGED <<worker, samples, owner, fan, watch, log>>

\* A progress sample carries its send; one that finds the channel full is lost.
Sample(j) ==
  /\ env.samples > 0 /\ worker[j].state = "sending"
  /\ samples' = IF Len(samples) < SampleBound
                THEN Append(samples, [job |-> j, send |-> worker[j].send]) ELSE samples
  /\ env' = [env EXCEPT !.samples = @ - 1]
  /\ UNCHANGED <<worker, input, owner, fan, watch, log>>

Subscribe ==
  /\ env.watches > 0 /\ watch.at = "none"
  /\ Post([Message EXCEPT !.kind = "subscribe"])
  /\ env' = [env EXCEPT !.watches = @ - 1]
  /\ UNCHANGED <<worker, samples, owner, fan, watch, log>>

Flush ==
  /\ env.flushes > 0 /\ log.registered
  /\ Post([Message EXCEPT !.kind = "flush"])
  /\ env' = [env EXCEPT !.flushes = @ - 1]
  /\ UNCHANGED <<worker, samples, owner, fan, watch, log>>

(***************************************************************************)
(* Fan-out.  A delivery to the log stands for `count` entries, the last of *)
(* them numbered `entry`; a flush stands for none and remembers how many   *)
(* entries came before it.                                                 *)
(***************************************************************************)

NoState == [revision |-> -1, transitions |-> 0, jobs |-> <<>>, generation |-> 0]

\* The state a subscriber is sent, as the owner builds it.
State(o) == [revision |-> o.revision, transitions |-> o.transitions, jobs |-> o.jobs,
             generation |-> o.generation]

Still == [watch |-> FALSE, events |-> <<>>, log |-> FALSE, entries |-> <<>>]

\* fanOut begins: a watch whose forwarder has exited is forgotten, and the
\* transitions carry the revision they produced.
FanOut(o, first, events, entries) ==
  /\ fan' = [watch |-> watch.registered /\ watch.at # "exited",
             events |-> IF watch.registered /\ watch.at # "exited"
                        THEN [i \in DOMAIN events |-> [number |-> first + i, revision |-> o.revision]]
                        ELSE <<>>,
             log |-> log.registered, entries |-> IF log.registered THEN entries ELSE <<>>]
  /\ watch' = [watch EXCEPT !.registered = @ /\ watch.at # "exited"]

Offering == UNCHANGED <<worker, input, samples, owner, env>>

\* Mutant: a refused transition is dropped and the subscription goes on.
OfferDropping ==
  /\ fan.watch /\ fan.events # <<>>
  /\ watch' = IF Len(watch.channel) < Bound
              THEN [watch EXCEPT !.channel = Append(@, Head(fan.events))] ELSE watch
  /\ fan' = [fan EXCEPT !.events = Tail(@)]
  /\ UNCHANGED log /\ Offering

\* Transitions first, one at a time; a refused one ends the subscription.
OfferTransition ==
  /\ fan.watch /\ fan.events # <<>>
  /\ IF Len(watch.channel) < Bound
     THEN /\ watch' = [watch EXCEPT !.channel = Append(@, Head(fan.events))]
          /\ fan' = [fan EXCEPT !.events = Tail(@)]
     ELSE /\ watch' = [watch EXCEPT !.overflowed = TRUE, !.registered = FALSE]
          /\ fan' = [fan EXCEPT !.events = <<>>, !.watch = FALSE]
  /\ UNCHANGED log /\ Offering

\* Mutant: the state is sent whenever its turn comes.
OfferStateEarly ==
  /\ fan.watch
  /\ watch' = [watch EXCEPT !.state = <<State(owner)>>]
  /\ fan' = [fan EXCEPT !.watch = fan.events # <<>>]
  /\ UNCHANGED log /\ Offering

\* Then the state that includes them, in the place of one not yet read.
OfferState ==
  /\ fan.watch /\ fan.events = <<>>
  /\ watch' = [watch EXCEPT !.state = <<State(owner)>>]
  /\ fan' = [fan EXCEPT !.watch = FALSE]
  /\ UNCHANGED log /\ Offering

Entry(i) == [kind |-> "entry", count |-> 1, entry |-> i]
Gap(count) == [kind |-> "gap", count |-> count, entry |-> 0]
Mark(i) == [kind |-> "flush", count |-> 0, entry |-> i]

\* What was refused is offered first, in order.
Reoffer(l) ==
  LET k == Min({Len(l.refused), Bound - Len(l.channel)})
  IN  [l EXCEPT !.channel = @ \o SubSeq(l.refused, 1, k),
                !.refused = SubSeq(@, k + 1, Len(@))]

\* Mutant: a new entry is offered before those held back.
DeliverPast(l, entry) ==
  Reoffer(IF Len(l.channel) < Bound
          THEN [l EXCEPT !.channel = Append(@, entry)]
          ELSE [l EXCEPT !.refused = Append(@, Gap(1))])

\* Nothing is offered past a refusal: what cannot be is counted in a gap.
deliverLog(l, entry) ==
  LET r == Reoffer(l)
      widen == r.refused # <<>> /\ Last(r.refused).kind = "gap"
  IN  CASE r.refused = <<>> /\ Len(r.channel) < Bound -> [r EXCEPT !.channel = Append(@, entry)]
        [] OTHER -> [r EXCEPT !.refused = IF widen THEN Append(Front(@), Gap(Last(@).count + 1))
                                                   ELSE Append(@, Gap(1))]

\* The log is offered each entry, and at the end what it refused.
OfferLog ==
  /\ fan.log
  /\ IF fan.entries # <<>>
     THEN /\ log' = deliverLog(log, Head(fan.entries))
          /\ fan' = [fan EXCEPT !.entries = Tail(@)]
     ELSE /\ log' = Reoffer(log)
          /\ fan' = [fan EXCEPT !.log = FALSE]
  /\ UNCHANGED watch /\ Offering

(***************************************************************************)
(* The owner.                                                              *)
(***************************************************************************)

\* A transition replaces its job's row, so that leaving sending clears progress.
Rows(jobs, events) ==
  [j \in Job |->
     LET mine == {i \in DOMAIN events : events[i].job = j}
     IN  IF mine = {} THEN jobs[j]
         ELSE LET e == events[Max(mine)]
              IN  [state |-> e.state, send |-> e.send, shown |-> 0]]

Apply(m) ==
  LET logged == m.generation \notin {0, owner.generation}
      entries == Len(m.events) + (IF logged THEN 1 ELSE 0)
      next == [owner EXCEPT
                 !.jobs = Rows(@, m.events),
                 !.transitions = @ + Len(m.events),
                 !.entries = @ + entries,
                 !.generation = IF m.generation = 0 THEN @ ELSE m.generation,
                 !.revision = @ + 1]
  IN  /\ owner' = next
      /\ FanOut(next, owner.transitions, m.events, [i \in 1 .. entries |-> Entry(owner.entries + i)])
      /\ UNCHANGED log

\* Registration answers with a forwarder whose first state is the current one.
Register ==
  /\ watch' = [watch EXCEPT !.at = "top", !.registered = TRUE, !.state = <<State(owner)>>,
                            !.seen = owner.transitions]
  /\ UNCHANGED <<owner, fan, log>>

\* The owner handles one thing at a time.
Handle ==
  /\ fan = Still /\ input # <<>>
  /\ input' = Tail(input)
  /\ LET m == Head(input)
     IN  CASE m.kind = "subscribe" -> Register
           [] m.kind = "flush" ->
                /\ log' = [log EXCEPT !.refused = Append(@, Mark(owner.entries))]
                /\ FanOut(owner, owner.transitions, <<>>, <<>>)
                /\ UNCHANGED owner
           [] m.kind = "change" -> Apply(m)
  /\ UNCHANGED <<worker, samples, env>>

\* Mutant: a sample counts while its job is sending, whichever send it is of.
CountsWhileSending(sample) == owner.jobs[sample.job].state = "sending"

\* A sample counts only under the sending transition it was taken under.
Counts(sample) ==
  /\ owner.jobs[sample.job].state = "sending"
  /\ owner.jobs[sample.job].send = sample.send

ApplyProgress ==
  /\ fan = Still /\ samples # <<>>
  /\ samples' = Tail(samples)
  /\ LET sample == Head(samples)
         next == [owner EXCEPT !.jobs[sample.job].shown = sample.send, !.revision = @ + 1]
     IN  IF Counts(sample)
         THEN owner' = next /\ FanOut(next, owner.transitions, <<>>, <<>>)
         ELSE UNCHANGED <<owner, fan, watch>>
  /\ UNCHANGED <<worker, input, log, env>>

\* The ticker that re-offers what the log refused.
RetryLog ==
  /\ fan = Still /\ log.refused # <<>>
  /\ FanOut(owner, owner.transitions, <<>>, <<>>)
  /\ UNCHANGED <<worker, input, samples, owner, log, env>>

(***************************************************************************)
(* The forwarder of a watch.                                               *)
(***************************************************************************)

Forward == UNCHANGED <<worker, input, samples, owner, fan, log, env>>

Drain(w, room) ==
  LET k == Min({room, Len(w.channel)})
  IN  [w EXCEPT !.pending = @ \o SubSeq(w.channel, 1, k),
                !.channel = SubSeq(@, k + 1, Len(@))]

\* The top of the loop takes transitions while it may hold more.
Collect ==
  /\ watch.at = "top"
  /\ watch' = [Drain(watch, Bound - Len(watch.pending)) EXCEPT !.at = "select"]
  /\ Forward

TakeTransition ==
  /\ watch.at = "select" /\ watch.channel # <<>> /\ Len(watch.pending) < Bound
  /\ watch' = [Drain(watch, 1) EXCEPT !.at = "top"]
  /\ Forward

\* Mutant: a state without transitions is not worth an update.
TakeStateClean ==
  /\ watch.at = "select" /\ watch.state # <<>>
  /\ watch' = [Drain(watch, Bound - Len(watch.pending)) EXCEPT
                 !.at = "top", !.held = Head(watch.state), !.state = <<>>]
  /\ Forward

\* The transitions a state includes were sent before it.
TakeState ==
  /\ watch.at = "select" /\ watch.state # <<>>
  /\ watch' = [Drain(watch, Bound - Len(watch.pending)) EXCEPT
                 !.at = "top", !.held = Head(watch.state), !.state = <<>>, !.dirty = TRUE]
  /\ Forward

\* An update is offered only once its state includes every transition in it; one
\* without transitions waits for its interval.
Ready ==
  /\ watch.held # NoState
  /\ IF watch.pending # <<>>
     THEN watch.held.revision >= Last(watch.pending).revision
     ELSE watch.dirty

\* The consumer receives an update.
SendUpdate ==
  /\ watch.at = "select" /\ Ready
  /\ LET to == watch.seen + Len(watch.pending)
     IN  watch' = [watch EXCEPT !.at = "top", !.pending = <<>>, !.dirty = FALSE, !.seen = to,
                                !.last = [state |-> watch.held, to |-> to,
                                          size |-> Len(watch.pending)]]
  /\ Forward

\* The consumer's context is cancelled.
Cancel ==
  /\ env.cancels > 0 /\ watch.at \in {"top", "select"} /\ ~watch.ended
  /\ watch' = [watch EXCEPT !.ended = TRUE]
  /\ env' = [env EXCEPT !.cancels = @ - 1]
  /\ UNCHANGED <<worker, input, samples, owner, fan, log>>

Finish ==
  /\ watch.at = "select" /\ (watch.overflowed \/ watch.ended)
  /\ watch' = [watch EXCEPT !.at = "exited"]
  /\ Forward

(***************************************************************************)
(* The log's forwarder and writer.                                         *)
(***************************************************************************)

Logging == UNCHANGED <<worker, input, samples, owner, fan, watch, env>>

TakeDelivery ==
  /\ log.channel # <<>> /\ Len(log.batch) < Bound
  /\ log' = [log EXCEPT !.batch = Append(@, Head(log.channel)), !.channel = Tail(@)]
  /\ Logging

HandBatch ==
  /\ log.batch # <<>> /\ log.writing = <<>>
  /\ log' = [log EXCEPT !.writing = log.batch, !.batch = <<>>]
  /\ Logging

\* One line, or the flush that waits for what precedes it.
Write ==
  /\ log.writing # <<>>
  /\ log' = [log EXCEPT !.written = @ + Head(log.writing).count, !.writing = Tail(@)]
  /\ Logging

(***************************************************************************)
(* The specification.                                                      *)
(***************************************************************************)

Init ==
  /\ env \in Environments
  /\ worker = [j \in Job |-> [state |-> "queued", send |-> 0]]
  /\ input = <<>>
  /\ samples = <<>>
  /\ owner = [jobs |-> [j \in Job |-> [state |-> "queued", send |-> 0, shown |-> 0]],
              transitions |-> 0, entries |-> 0, generation |-> 0, revision |-> 0]
  /\ fan = Still
  /\ watch = [at |-> "none", registered |-> FALSE, channel |-> <<>>, state |-> <<>>,
              pending |-> <<>>, held |-> NoState, dirty |-> FALSE, overflowed |-> FALSE,
              ended |-> FALSE, seen |-> 0, last |-> [state |-> NoState, to |-> 0, size |-> 0]]
  /\ log = [registered |-> env.log, channel |-> <<>>, refused |-> <<>>, batch |-> <<>>,
            writing |-> <<>>, written |-> 0]

Owner == Handle \/ ApplyProgress
Offer == OfferTransition \/ OfferState \/ OfferLog
Forwarder == Collect \/ TakeTransition \/ TakeState
Writer == HandBatch \/ Write

Next ==
  \/ \E j \in Job : Record(j) \/ Sample(j)
  \/ PublishQueue \/ PublishRuntime \/ Subscribe \/ Flush \/ Cancel
  \/ Owner \/ RetryLog \/ Offer
  \/ Forwarder \/ SendUpdate \/ Finish
  \/ TakeDelivery \/ Writer

\* The goroutines run and the ticker ticks; a watch's consumer goes on
\* receiving, and the log's writer goes on writing.  A select that finds an
\* update and something else ready takes each in the end.
Fairness ==
  /\ WF_vars(Handle) /\ WF_vars(ApplyProgress) /\ WF_vars(RetryLog) /\ WF_vars(Offer)
  /\ WF_vars(Forwarder) /\ SF_vars(SendUpdate) /\ SF_vars(Finish)
  /\ WF_vars(TakeDelivery) /\ WF_vars(Writer)

StatusSpec == Init /\ [][Next]_vars /\ Fairness

(***************************************************************************)
(* Properties.                                                             *)
(***************************************************************************)

Live == watch.registered /\ watch.at # "exited"

\* What a watch has not yet delivered is, in order and without a gap, what
\* follows what it delivered, up to the newest transition while the watch is
\* registered: an update repeats nothing and skips nothing, whatever was
\* conflated, and a watch that overflows ends at a transition it knows of
\* (Subscribe, fanOut, forwarder.run).
Contiguous ==
  LET held == watch.pending \o watch.channel \o fan.events
  IN  /\ \A i \in DOMAIN held : held[i].number = watch.seen + i
      /\ Live => watch.seen + Len(held) = owner.transitions

\* The state of an update includes every transition delivered so far, and none
\* that was not, unless the update holds as many transitions as it may
\* (Subscribe: "the state as of the last of them").
AsOfTheLast ==
  watch.last.state # NoState =>
    /\ watch.last.to <= watch.last.state.transitions
    /\ watch.last.size < Bound => watch.last.to = watch.last.state.transitions

\* The progress shown for a job was sampled under the job's own send, however
\* late the sample was read (applyProgress).
ProgressCurrent ==
  \A j \in Job : owner.jobs[j].shown # 0 =>
    owner.jobs[j].state = "sending" /\ owner.jobs[j].shown = owner.jobs[j].send

Counted(deliveries) == FoldLeft(LAMBDA sum, d : sum + d.count, 0, deliveries)

\* The log writes every entry in order or counts it in the gap that stands in
\* its place, and a flush is closed only after all that was sent before it
\* (deliverLog, runLog, subscribeLog).
LogAccounts ==
  LET all == log.writing \o log.batch \o log.channel \o log.refused \o fan.entries
      before(i) == log.written + Counted(SubSeq(all, 1, i - 1))
  IN  log.registered =>
      /\ log.written + Counted(all) = owner.entries
      /\ \A i \in DOMAIN all :
           /\ all[i].kind = "entry" => all[i].entry = before(i) + 1
           /\ all[i].kind = "flush" => all[i].entry <= before(i)

\* Once nothing more is sent, a watch that is still registered has been given
\* the owner's state and every transition, and the log has accounted for every
\* entry and closed every flush (fanOut, deliverLog, run).
Informed ==
  <>[](/\ Live => watch.last.state = State(owner) /\ watch.seen = owner.transitions
       /\ log.registered => /\ log.written = owner.entries
                            /\ log.refused \o log.channel \o log.batch \o log.writing = <<>>)
=============================================================================
