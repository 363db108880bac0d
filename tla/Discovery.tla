----------------------------- MODULE Discovery ------------------------------
(***************************************************************************)
(* The discovery scanner (internal/discovery), the policy resolution it    *)
(* uses (internal/policy/resolve.go) and what the daemon feeds it: the     *)
(* datasets to retain and the destinations of the configured remotes.      *)
(*                                                                         *)
(* A scan is several zfs commands, and operators edit properties, create   *)
(* and destroy datasets between any two of them.  A generation is          *)
(* published only by a scan that completes.                                *)
(*                                                                         *)
(* A dataset is the sequence of its name's components.  A target is the    *)
(* record of a host and the dataset it receives beneath, which is what a   *)
(* canonical target and a binding's key identify.                          *)
(***************************************************************************)
EXTENDS Integers, SequencesExt

CONSTANTS
  Sorted,        \* every dataset name, in the order the scanner sorts them
  BatchSize,     \* datasets one GetStoredProperties command names
  Environments   \* what a behaviour starts from and what may happen in it

VARIABLES
  tree,      \* what zfs stores: dataset -> its properties
  scan,      \* the scan under way
  current,   \* the last complete generation
  known,     \* Runtime.known, the datasets a scan must retain
  runtime,   \* Runtime.remotes and Runtime.hostLocal
  scanner,   \* Scanner.remotes and Scanner.destinations
  reload,    \* a configuration reload under way
  learning,  \* destinations computed by learnHostLocal and not yet set
  crossed,   \* history: a learning crossed a reload or another learning
  env        \* what may still happen

vars == <<tree, scan, current, known, runtime, scanner, reload, learning, crossed, env>>

Ancestors(d) == {SubSeq(d, 1, i) : i \in 1 .. Len(d)}   \* addAncestors: d included

overlaps(a, b) == IsPrefix(a, b) \/ IsPrefix(b, a)

Bare == [enabled |-> "unset", policy |-> "unset", replicate |-> "unset",
         raw |-> "unset", discard |-> "unset", local |-> {}, remote |-> {},
         owner |-> FALSE, received |-> FALSE, bound |-> {}, encrypted |-> FALSE]

\* What zfs stores: rows with every property, of datasets whose parents exist.
IsRow(row) == row = [key \in DOMAIN Bare |-> row[key]]
IsName(d) == d \in Seq(STRING) /\ d # <<>>
IsTree(t) ==
  /\ t = [d \in DOMAIN t |-> t[d]]
  /\ \A d \in DOMAIN t : IsName(d) /\ Ancestors(d) \subseteq DOMAIN t /\ IsRow(t[d])

ASSUME EnvironmentsAssumption ==
  \A e \in Environments :
    /\ e = [tree |-> e.tree, remotes |-> e.remotes, edits |-> e.edits, settings |-> e.settings,
            creates |-> e.creates, destroys |-> e.destroys, reloads |-> e.reloads]
    /\ IsTree(e.tree)
    /\ \A d \in e.creates \cup e.destroys : IsName(d)

\* The rows the two global queries return for a dataset that is not inspected.
Activation(row) == [Bare EXCEPT !.enabled = row.enabled, !.encrypted = row.encrypted]

Lifecycle(row, stored) ==
  [row EXCEPT !.owner = stored.owner, !.received = stored.received]

(***************************************************************************)
(* Policy.  A view is what a scan has read: the rows of each name, which   *)
(* of them are complete, and the configuration it read them with.          *)
(***************************************************************************)

\* The value of the nearest dataset that sets key locally; defaults and received
\* values are not inherited.
Inherited(v, d, key) ==
  LET setters == {i \in 1 .. Len(d) : v.rows[SubSeq(d, 1, i)][key] # Bare[key]}
  IN  IF setters = {} THEN Bare[key] ELSE v.rows[SubSeq(d, 1, Max(setters))][key]

Or(value, default) == IF value = "unset" THEN default ELSE value

Resolve(v, d) ==
  LET encrypted == v.rows[d].encrypted
      enabled == Or(Inherited(v, d, "enabled"), "off")
      replicate == Inherited(v, d, "replicate") = "on"
      raw == Inherited(v, d, "raw")
      sendsRaw == Or(raw, IF encrypted THEN "on" ELSE "off") = "on"
      remote == Inherited(v, d, "remote")
  IN  [enabled |-> enabled = "on", replicate |-> replicate,
       raw |-> sendsRaw, rawSet |-> raw # "unset",
       discard |-> Or(Inherited(v, d, "discard"), "off"),
       local |-> Inherited(v, d, "local"), remote |-> remote,
       valid |-> /\ enabled \in {"on", "off"}
                 /\ Inherited(v, d, "policy") # "bad"
                 /\ remote \subseteq v.scanner.remotes
                 /\ ~(replicate /\ encrypted /\ ~sendsRaw)]

resolve(v) == [d \in DOMAIN v.rows |-> Resolve(v, d)]

(***************************************************************************)
(* Marking: who acts for a dataset, where its replicas land, which targets *)
(* are blocked, and what is a replica.                                     *)
(***************************************************************************)

Enclosing(p, d) == {a \in Ancestors(d) : p[a].enabled}

\* The topmost enabled dataset owns its subtree, whether it is valid or not.
RootOf(p, d) == CHOOSE a \in Enclosing(p, d) : \A b \in Enclosing(p, d) : IsPrefix(a, b)

Roots(p) == {d \in DOMAIN p : p[d].enabled /\ RootOf(p, d) = d}

Members(v, p, root) ==
  {d \in DOMAIN p :
     /\ IsPrefix(root, d)
     /\ \/ d = root
        \/ p[root].replicate
        \/ p[d].enabled /\ d \in v.fetched /\ p[d].valid}

\* A replication root with an encrypted member is valid only if it may send raw.
ForReplicationScope(v, p, root) ==
  \/ ~p[root].replicate \/ p[root].raw \/ ~p[root].rawSet
  \/ \A d \in Members(v, p, root) \ {root} : ~v.rows[d].encrypted

MapReceiveDataset(source, at, discard) ==
  CASE discard = "off" -> at
    [] discard = "first" -> at \o Tail(source)
    [] discard = "all" -> Append(at, Last(source))

plannedReplicas(v, p) ==
  UNION {
    LET senders == IF p[root].replicate THEN {root} ELSE Members(v, p, root)
        names == UNION {p[d].remote : d \in senders} \cap DOMAIN v.scanner.destinations
        land(name, target, namespace) ==
          [root |-> root, remote |-> name, target |-> target, namespace |-> namespace,
           mapped |-> MapReceiveDataset(root, target.root, p[root].discard),
           established |-> target \in v.rows[root].bound]
    IN  {land("", [host |-> "local", root |-> at], "local")
           : at \in UNION {p[d].local : d \in senders}}
        \cup {LET to == v.scanner.destinations[name]
              IN  land(name, [host |-> to.host, root |-> to.root], to.namespace) : name \in names}
    : root \in Roots(p)}

Collide(a, b) == a # b /\ a.namespace = b.namespace /\ overlaps(a.mapped, b.mapped)

\* Mutant: two established replicas that overlap both keep their targets.
CollisionsBetweenNew(replicas, roots) ==
  {a \in replicas :
     \/ \E b \in replicas : Collide(a, b) /\ ~a.established
     \/ a.namespace = "local" /\ \E root \in roots : overlaps(a.mapped, root)}

markCollisions(replicas, roots) ==
  {a \in replicas :
     \/ \E b \in replicas : Collide(a, b) /\ (~a.established \/ b.established)
     \/ a.namespace = "local" /\ \E root \in roots : overlaps(a.mapped, root)}

\* Where a dataset is the replica of a root here: only a local destination's
\* block is looked up, so a blocked remote that receives here still marks it.
markReplicas(v, replicas, blocked) ==
  LET here == {r \in replicas : r.namespace = "local" /\ (r \in blocked => r.remote # "")}
      received(d) == v.rows[d].received /\ ~v.rows[d].owner
  IN  {d \in DOMAIN v.rows :
         \E a \in Ancestors(d) : received(a) \/ \E r \in here : r.mapped = a}

Generation(v) ==
  LET p == resolve(v)
      replicas == plannedReplicas(v, p)
      blocked == markCollisions(replicas, Roots(p))
  IN  [roots |-> [r \in Roots(p) |->
                    [valid |-> p[r].valid /\ ForReplicationScope(v, p, r),
                     members |-> Members(v, p, r),
                     inspected |-> {d \in v.fetched : IsPrefix(r, d)},
                     invalid |-> {d \in DOMAIN p : IsPrefix(r, d) /\ ~p[d].valid}]],
       owned |-> {d \in DOMAIN v.rows : v.rows[d].owner},
       replicas |-> replicas \ blocked,
       blocked |-> blocked,
       marked |-> markReplicas(v, replicas, blocked)]

NoGeneration == [roots |-> <<>>, owned |-> {}, replicas |-> {}, blocked |-> {}, marked |-> {}]

\* isSchedulable and actionableRoot: ActiveRoot holds of every topmost enabled one.
Active(g) == {r \in DOMAIN g.roots : g.roots[r].valid /\ r \in g.roots[r].inspected}

(***************************************************************************)
(* A scan.                                                                 *)
(***************************************************************************)

Waiting == [at |-> "waiting", view |-> [rows |-> <<>>, fetched |-> {}], activation |-> <<>>,
            retained |-> {}, pending |-> {}]

\* Scanner.mu is held from ListDatasets until the generation is published.
Unlocked == scan.at = "waiting"

Stay == UNCHANGED <<tree, known, runtime, scanner, reload, learning, crossed, env>>

\* The scan returns an error: the current generation stays, and Run waits for
\* its ticker, a request or a change of configuration.
Abandon == scan' = Waiting /\ UNCHANGED current

\* retained() is read, then ListDatasets.
List ==
  /\ Unlocked
  /\ scan' = [Waiting EXCEPT !.at = "listed", !.retained = known,
                             !.view = [rows |-> [d \in DOMAIN tree |->
                                                   [Bare EXCEPT !.encrypted = tree[d].encrypted]],
                                       fetched |-> {}, scanner |-> scanner]]
  /\ UNCHANGED current /\ Stay

Names == DOMAIN scan.view.rows

\* GetActivationProperties; a row for a dataset not listed is refused.
ReadActivation ==
  /\ scan.at = "listed"
  /\ LET set == {d \in DOMAIN tree : tree[d].enabled # "unset"}
         rows == [d \in Names |-> IF d \in set
                                  THEN [Activation(tree[d]) EXCEPT !.encrypted = scan.view.rows[d].encrypted]
                                  ELSE scan.view.rows[d]]
     IN  IF set \subseteq Names
         THEN /\ scan' = [scan EXCEPT !.at = "activation", !.view.rows = rows, !.activation = rows]
              /\ UNCHANGED current
         ELSE Abandon
  /\ Stay

\* GetLifecycleProperties, and the first set to inspect.
ReadLifecycle ==
  /\ scan.at = "activation"
  /\ LET set == {d \in DOMAIN tree : tree[d].owner \/ tree[d].received}
         view == [scan.view EXCEPT !.rows = [d \in Names |-> IF d \in set
                                              THEN Lifecycle(scan.view.rows[d], tree[d])
                                              ELSE scan.view.rows[d]]]
         p == resolve(view)
         inspect == {d \in Names : view.rows[d].owner \/ p[d].enabled \/ ~p[d].valid} \cup scan.retained
     IN  IF set \subseteq Names /\ scan.retained \subseteq Names
         THEN /\ scan' = [scan EXCEPT !.at = "reading", !.view = view,
                                      !.pending = UNION {Ancestors(d) : d \in inspect}]
              /\ UNCHANGED current
         ELSE Abandon
  /\ Stay

\* Mutant: nothing is inspected beyond the first set.
CoverNothing(view) == {}

\* Everything beneath an enabled dataset is inspected, valid or not: excluded
\* datasets are pruned on grids of their own.
Cover(view) ==
  LET p == resolve(view)
  IN  {d \in DOMAIN p : Enclosing(p, d) # {}} \ view.fetched

Batch ==
  LET names == SelectSeq(Sorted, LAMBDA d : d \in scan.pending)
  IN  ToSet(SubSeq(names, 1, Min({BatchSize, Len(names)})))

\* Mutant: the activation read first is not compared with the batch.
SameInventory(batch) == batch \subseteq DOMAIN tree

\* fetch accepts a batch whose activation is what the scan began with.
Unchanged(batch) ==
  /\ batch \subseteq DOMAIN tree
  /\ \A d \in batch : tree[d].enabled = scan.activation[d].enabled

\* One GetStoredProperties command; after the last, the next set to inspect.
Fetch ==
  /\ scan.at = "reading" /\ scan.pending # {}
  /\ LET batch == Batch
         view == [scan.view EXCEPT
                    !.fetched = @ \cup batch,
                    !.rows = [d \in Names |-> IF d \in batch
                                THEN [tree[d] EXCEPT !.encrypted = scan.view.rows[d].encrypted]
                                ELSE scan.view.rows[d]]]
         left == scan.pending \ batch
     IN  IF Unchanged(batch)
         THEN /\ scan' = [scan EXCEPT !.view = view,
                                      !.pending = IF left = {} THEN Cover(view) ELSE left]
              /\ UNCHANGED current
         ELSE Abandon
  /\ Stay

\* The generation is stored, and applyGeneration takes over who is known.
Publish ==
  /\ scan.at = "reading" /\ scan.pending = {}
  /\ current' = Generation(scan.view)
  /\ known' = Active(current') \cup current'.owned
  /\ scan' = Waiting
  /\ UNCHANGED <<tree, runtime, scanner, reload, learning, crossed, env>>

(***************************************************************************)
(* Remotes: a configuration reload, and a transfer that finds out that a   *)
(* remote receives into this host's own pools.                             *)
(***************************************************************************)

remoteDestinations(remotes, hostLocal) ==
  [n \in DOMAIN remotes |->
     [namespace |-> IF n \in hostLocal THEN "local" ELSE remotes[n].host,
      host |-> remotes[n].host, root |-> remotes[n].root]]

NoReload == [at |-> "none", next |-> <<>>, hostLocal |-> {}]

Rest == UNCHANGED <<tree, scan, current, known>>

PrepareConfig ==
  /\ reload.at = "none" /\ env.reloads # {}
  /\ \E next \in env.reloads :
       /\ reload' = [at |-> "prepared", next |-> next, hostLocal |-> {}]
       /\ env' = [env EXCEPT !.reloads = @ \ {next}]
  /\ UNCHANGED <<runtime, scanner, learning, crossed>> /\ Rest

\* Mutant: what was learned of the remotes replaced is kept.
ForgetNothing == runtime.hostLocal

\* A reload that changes a remote drops what was learned of all of them.
Relearn == IF reload.next = runtime.remotes THEN runtime.hostLocal ELSE {}

CommitHostLocal ==
  /\ reload.at = "prepared"
  /\ runtime' = [runtime EXCEPT !.hostLocal = Relearn]
  /\ reload' = [reload EXCEPT !.at = "scanner", !.hostLocal = Relearn]
  /\ crossed' = (crossed /\ reload.next = runtime.remotes)
  /\ UNCHANGED <<scanner, learning, env>> /\ Rest

Reconfigure ==
  /\ reload.at = "scanner" /\ Unlocked
  /\ scanner' = [remotes |-> DOMAIN reload.next,
                 destinations |-> remoteDestinations(reload.next, reload.hostLocal)]
  /\ reload' = [reload EXCEPT !.at = "remotes"]
  /\ crossed' = (crossed \/ learning # {})
  /\ UNCHANGED <<runtime, learning, env>> /\ Rest

CommitRemotes ==
  /\ reload.at = "remotes"
  /\ runtime' = [runtime EXCEPT !.remotes = reload.next]
  /\ reload' = NoReload
  /\ UNCHANGED <<scanner, learning, crossed, env>> /\ Rest

\* learnHostLocal, under Runtime.mu: a client since replaced changes nothing.
\* It crosses a reload that has read what was learned before, and a call that
\* has yet to set what it learned.
LearnHostLocal ==
  /\ \E n \in DOMAIN runtime.remotes \ runtime.hostLocal :
       /\ runtime.remotes[n].here
       /\ runtime' = [runtime EXCEPT !.hostLocal = @ \cup {n}]
       /\ learning' = learning \cup {remoteDestinations(runtime.remotes, runtime.hostLocal \cup {n})}
  /\ crossed' = (crossed \/ learning # {} \/ reload.at \in {"scanner", "remotes"})
  /\ UNCHANGED <<scanner, reload, env>> /\ Rest

\* Its call of SetDestinations, which waits for the scan under way.
SetDestinations ==
  /\ Unlocked
  /\ \E destinations \in learning :
       /\ scanner' = [scanner EXCEPT !.destinations = destinations]
       /\ learning' = learning \ {destinations}
  /\ UNCHANGED <<runtime, reload, crossed, env>> /\ Rest

(***************************************************************************)
(* The operator and the transfers.                                         *)
(***************************************************************************)

Untouched == UNCHANGED <<scan, current, known, runtime, scanner, reload, learning, crossed>>

\* zfs set or zfs inherit of one property.
Configure(key) ==
  /\ env.edits > 0
  /\ \E edit \in env.settings[key] :
       /\ edit[1] \in DOMAIN tree /\ tree[edit[1]][key] # edit[2]
       /\ tree' = [tree EXCEPT ![edit[1]][key] = edit[2]]
  /\ env' = [env EXCEPT !.edits = @ - 1]
  /\ Untouched

Create ==
  /\ env.edits > 0
  /\ \E d \in env.creates \ DOMAIN tree :
       /\ Front(d) \in DOMAIN tree
       /\ tree' = [x \in DOMAIN tree \cup {d} |-> IF x = d THEN Bare ELSE tree[x]]
  /\ env' = [env EXCEPT !.edits = @ - 1]
  /\ Untouched

\* zfs destroy -r
Destroy ==
  /\ env.edits > 0
  /\ \E d \in env.destroys \cap DOMAIN tree :
       tree' = [x \in {y \in DOMAIN tree : ~IsPrefix(d, y)} |-> tree[x]]
  /\ env' = [env EXCEPT !.edits = @ - 1]
  /\ Untouched

\* A transfer the current generation does not block stores its binding.
Establish ==
  /\ \E r \in current.replicas :
       /\ r.root \in Active(current) \cap DOMAIN tree
       /\ r.target \notin tree[r.root].bound
       /\ tree' = [tree EXCEPT ![r.root].owner = TRUE, ![r.root].bound = @ \cup {r.target}]
  /\ UNCHANGED env /\ Untouched

(***************************************************************************)
(* The specification.                                                      *)
(***************************************************************************)

Init ==
  /\ env \in Environments
  /\ tree = env.tree
  /\ scan = Waiting
  /\ current = NoGeneration
  /\ known = {}
  /\ runtime = [remotes |-> env.remotes, hostLocal |-> {}]
  /\ scanner = [remotes |-> DOMAIN env.remotes,
                destinations |-> remoteDestinations(env.remotes, {})]
  /\ reload = NoReload
  /\ learning = {}
  /\ crossed = FALSE

Scan == List \/ ReadActivation \/ ReadLifecycle \/ Fetch \/ Publish
Reload == CommitHostLocal \/ Reconfigure \/ CommitRemotes

Next ==
  \/ Scan
  \/ PrepareConfig \/ Reload \/ LearnHostLocal \/ SetDestinations
  \/ \E key \in DOMAIN env.settings : Configure(key)
  \/ Create \/ Destroy \/ Establish

\* Run scans at every tick of its ticker, so that a step of a scan is always
\* enabled and always taken in the end; a reload and a learned destination wait
\* only for the scan under way, which holds a mutex.
Fairness ==
  /\ []<><<scan' # scan>>_vars
  /\ SF_vars(Reload) /\ SF_vars(SetDestinations) /\ WF_vars(Establish)

DiscoverySpec == Init /\ [][Next]_vars /\ Fairness

(***************************************************************************)
(* Properties.                                                             *)
(***************************************************************************)

\* What a scan that read every property of every dataset at once would publish.
Complete == Generation([rows |-> tree, fetched |-> DOMAIN tree, scanner |-> scanner])

\* A retained dataset that was destroyed.
Vanished == known \ DOMAIN tree # {}

\* How often the daemon "discovers new or changed dataset policy" is bounded:
\* once the edits stop, the generation is what the tree says.  Every scan after
\* the destruction of a dataset in Runtime.known fails (Scan).
Discovers == <>[](current = Complete)

\* Once edits, reloads and bindings stop, the generation of a sparse scan,
\* which inspects only what it finds it needs and fails on any edit it notices,
\* is the one a complete and instantaneous read would give, unless a retained
\* dataset was destroyed (Scan, fetch, markRoots, markCollisions, markReplicas).
Fresh == <>[](current = Complete) \/ <>[]Vanished

\* The targets a generation lets transfers use never overlap one another in a
\* destination's namespace, nor an actor root of this host, whatever became
\* established under earlier generations (markCollisions).
Disjoint ==
  \A a \in current.replicas :
    /\ \A b \in current.replicas \ {a} :
         a.namespace = b.namespace => ~overlaps(a.mapped, b.mapped)
    /\ a.namespace = "local" => \A root \in DOMAIN current.roots : ~overlaps(a.mapped, root)

\* The roots of a generation are those of one instant, when activation was
\* read: no edit between two commands makes a root of a member, or splits a
\* subtree between two roots (Scan, fetch).
OneInstant ==
  [][current' # current =>
       LET then == resolve([scan.view EXCEPT !.rows = scan.activation])
       IN  DOMAIN current'.roots = Roots(then)]_vars

\* With no reload under way and nothing learned left to set, the scanner checks
\* the remotes that are configured, and only remotes that receive into this
\* host's pools are taken to (commitConfig, learnHostLocal).
RemotesAgree ==
  reload.at = "none" /\ learning = {} =>
    /\ scanner.destinations = remoteDestinations(runtime.remotes, runtime.hostLocal)
    /\ \A n \in runtime.hostLocal : n \in DOMAIN runtime.remotes /\ runtime.remotes[n].here

\* They agree unless a remote was found to be local between a reload's two
\* critical sections, or between another such finding and its SetDestinations,
\* or a reload overtook a finding not yet set; and a later reload that changes
\* the remotes, and is not crossed itself, makes them agree again.
RemotesCurrent == ~crossed => RemotesAgree
=============================================================================
