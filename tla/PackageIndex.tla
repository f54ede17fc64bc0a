---------------------------- MODULE PackageIndex ----------------------------
(***************************************************************************)
(* The views of one package in one bucket (src/markers.rs, src/worker.rs): *)
(* writers announce a change of truth with an intent marker and close it   *)
(* with a commit marker; ticks rebuild the views of a marked package and   *)
(* consume the markers they saw; audits rebuild whatever no stored         *)
(* fingerprint vouches for; a leader whose denylist differs from the one   *)
(* the bucket was built under marks the names that it rules differently.   *)
(* Leadership is sloppy, writers and nodes die, and time passes the grace  *)
(* of an intent at any moment.                                             *)
(*                                                                         *)
(* Truth is a version; the sidecars, the status and the artifacts that a   *)
(* rebuild reads one by one are read in one step here.  A put that finds   *)
(* its own bytes already stored acts at the moment of its read, any other  *)
(* at its write, so put_if_changed is one step.  A marker carries, in place *)
(* of a nonce, whose open intent it is and which jobs have listed it: a    *)
(* tick deletes exactly the keys it listed.  A paired intent defers nobody *)
(* and goes with its commit, so the commit takes its place.                *)
(***************************************************************************)
EXTENDS Naturals, FiniteSets

CONSTANTS
    Nodes,
    Writers,
    None,
    Scenarios,    \* what runs: see Scenario
    MaxChanges,   \* bound: changes of truth
    MaxFaults,    \* bound: failed calls, dead writers and dead nodes
    MaxMoves      \* bound: restarts and moves of the lease

VARIABLES
    scn,         \* the scenario of this behaviour
    truth,       \* the package's objects: a version, and whether any can be listed
    views,       \* index.html and index.json: the version each renders
    markers,     \* _dirty/ of this package
    fp,          \* the fingerprint stored in its _state/fp- shard
    stamp,       \* _state/enforced-excludes.json: is the package denied?
    deny,        \* each node's denylist: is the package denied?
    leads,       \* the nodes that believe they hold the lease
    reconciled,  \* per node, whether this process reconciled the denylist
    writer,      \* each writer's open intent
    job,         \* where each tick, audit and reconcile stands
    unfenced,    \* somebody wrote outside the cover of a marker
    changes, faults, moves

bucket == <<truth, views, markers, fp, stamp>>
fleet == <<deny, leads, reconciled>>
bounds == <<changes, faults, moves>>
vars == <<scn, bucket, fleet, writer, job, unfenced, bounds>>

\* Which jobs run, whether the bucket is one of several, and the bounds left:
\* Scenarios is a subset of these.
Scenario ==
    [jobs : SUBSET (Nodes \X {"tick", "audit", "reconcile"}), multi : BOOLEAN,
     changes : 0 .. MaxChanges, faults : 0 .. MaxFaults, moves : 0 .. MaxMoves]

-----------------------------------------------------------------------------
(* Values.                                                                 *)

Absent == 0
Version == 0 .. MaxChanges + 1
Views == [html : Version, json : Version]
Fingerprint == [truth : Version, html : Version, json : Version]
Jobs == UNION {s.jobs : s \in Scenarios}
Ticks == {j \in Jobs : j[2] = "tick"}
Owners == Writers \cup Jobs
Marker ==
    [owner : Owners \cup {None}, commit : BOOLEAN, stale : BOOLEAN, listed : SUBSET Ticks]

Node(j) == j[1]
Kind(j) == j[2]

Idle == [at |-> "idle", stale |-> FALSE, render |-> None, wt |-> None, wv |-> None,
         ct |-> None, cv |-> None, fp |-> None]

Rebuilding == {"fence", "list", "delete", "html", "json", "clear"}
Phases ==
    {"idle", "rearm", "consume", "walk", "gate", "certify", "readback", "store", "tail",
     "drop", "mark", "enforce"} \cup Rebuilding

TypeOK ==
    /\ scn \in Scenarios
    /\ truth.ver \in Version /\ truth.live \in BOOLEAN
    /\ views \in Views
    /\ markers \subseteq Marker
    /\ fp \in Fingerprint \cup {None}
    /\ stamp \in BOOLEAN \cup {None}
    /\ deny \in [Nodes -> BOOLEAN]
    /\ leads \subseteq Nodes
    /\ reconciled \in [Nodes -> {"no", "tried", "yes"}]
    /\ writer \in [Writers -> {"idle", "open", "changed"}]
    /\ \A j \in Jobs :
          /\ job[j].at \in Phases
          /\ Kind(j) = "audit" /\ job[j].at \in Rebuilding => job[j].wt \in Version
    /\ unfenced \in BOOLEAN

\* A bucket that was never used, or one that serves the package when its
\* denylist starts to change.
Init ==
    /\ scn \in Scenarios
    /\ truth = IF scn.moves = 0 THEN [ver |-> 0, live |-> FALSE] ELSE [ver |-> 1, live |-> TRUE]
    /\ views = [html |-> truth.ver, json |-> truth.ver]
    /\ markers = {}
    /\ fp = None
    /\ stamp = None
    /\ deny = [n \in Nodes |-> FALSE]
    /\ leads = IF scn.moves = 0 THEN Nodes ELSE {}
    /\ reconciled = [n \in Nodes |-> "no"]
    /\ writer = [w \in Writers |-> "idle"]
    /\ job = [j \in Jobs |-> Idle]
    /\ unfenced = FALSE
    /\ changes = 0 /\ faults = 0 /\ moves = 0

-----------------------------------------------------------------------------
(* Markers (src/markers.rs).                                               *)

intent(owner) == [owner |-> owner, commit |-> FALSE, stale |-> FALSE, listed |-> {}]
dirty_marker == [owner |-> None, commit |-> TRUE, stale |-> FALSE, listed |-> {}]

Intent(owner) == {m \in markers : m.owner = owner}
mark_intent(owner) == markers \cup {intent(owner)}
mark_commit(owner) == (markers \ Intent(owner)) \cup {dirty_marker}
mark_dirty == markers \cup {dirty_marker}
clear_intent(owner) == markers \ Intent(owner)

\* The owner is gone: nobody will pair or clear its intent.
Orphaned(set, owners) ==
    {IF m.owner \in owners THEN [m EXCEPT !.owner = None] ELSE m : m \in set}

\* The grace of an intent runs out by the storage's clock, whatever its writer
\* is doing.
Age(m) ==
    /\ ~m.commit /\ ~m.stale
    /\ markers' = (markers \ {m}) \cup {[m EXCEPT !.stale = TRUE]}
    /\ UNCHANGED <<scn, truth, views, fp, stamp, fleet, writer, job, unfenced, bounds>>

\* consumable_dirty_work: a fresh unpaired intent defers the whole package.
Consumable == markers # {} /\ \A m \in markers : m.commit \/ m.stale

-----------------------------------------------------------------------------
(* Writers: Intent::open, a change of truth, Intent::commit or its Drop.   *)

Open(w) ==
    /\ changes < scn.changes
    /\ writer[w] = "idle"
    /\ changes' = changes + 1
    /\ writer' = [writer EXCEPT ![w] = "open"]
    /\ markers' = mark_intent(w)
    /\ UNCHANGED <<scn, truth, views, fp, stamp, fleet, job, unfenced, faults, moves>>

\* open_best_effort goes on when its marker cannot be written.
OpenUnmarked(w) ==
    /\ changes < scn.changes /\ faults < scn.faults
    /\ writer[w] = "idle"
    /\ changes' = changes + 1 /\ faults' = faults + 1
    /\ writer' = [writer EXCEPT ![w] = "open"]
    /\ UNCHANGED <<scn, bucket, fleet, job, unfenced, moves>>

Mutate(w) ==
    /\ writer[w] = "open"
    /\ \E live \in BOOLEAN : truth' = [ver |-> truth.ver + 1, live |-> live]
    /\ writer' = [writer EXCEPT ![w] = "changed"]
    /\ unfenced' = (unfenced \/ Intent(w) = {})
    /\ UNCHANGED <<scn, views, markers, fp, stamp, fleet, job, bounds>>

\* The commit pairs the intent, after a change and after a bail-out alike.
Commit(w) ==
    /\ writer[w] # "idle"
    /\ markers' = mark_commit(w)
    /\ writer' = [writer EXCEPT ![w] = "idle"]
    /\ UNCHANGED <<scn, truth, views, fp, stamp, fleet, job, unfenced, bounds>>

\* The writer's process dies, or its commit cannot be written.
Die(w) ==
    /\ faults < scn.faults
    /\ writer[w] # "idle"
    /\ faults' = faults + 1
    /\ markers' = Orphaned(markers, {w})
    /\ writer' = [writer EXCEPT ![w] = "idle"]
    /\ UNCHANGED <<scn, truth, views, fp, stamp, fleet, job, unfenced, changes, moves>>

-----------------------------------------------------------------------------
(* rebuild_package_indexes.                                                *)

Rendered(t, denied) == IF t.live /\ ~denied THEN t.ver ELSE Absent
Rendering(version) == [html |-> version, json |-> version]

Go(j, phase) == job' = [job EXCEPT ![j].at = phase]

\* With several buckets the rebuild itself joins the fence of intents.
FirstPhase == IF scn.multi THEN "fence" ELSE "list"
\* Where the caller of a rebuild goes on.
Returned(j) ==
    IF Kind(j) = "audit" THEN "certify" ELSE IF job[j].stale THEN "rearm" ELSE "consume"
LastPhase(j) == IF scn.multi THEN "clear" ELSE Returned(j)

Fence(j) ==
    /\ job[j].at = "fence"
    /\ markers' = mark_intent(j)
    /\ Go(j, "list")
    /\ UNCHANGED <<scn, truth, views, fp, stamp, fleet, writer, unfenced, bounds>>

ListArtifacts(j) ==
    /\ job[j].at = "list"
    /\ LET render == Rendered(truth, deny[Node(j)]) IN
       job' = [job EXCEPT ![j].render = render,
                          ![j].at = IF render = Absent THEN "delete" ELSE "html"]
    /\ UNCHANGED <<scn, bucket, fleet, writer, unfenced, bounds>>

\* A write that its maintenance intent no longer covers.
Uncovered(j) == scn.multi /\ Intent(j) = {}

PutHtml(j) ==
    /\ job[j].at = "html"
    /\ views' = [views EXCEPT !.html = job[j].render]
    /\ unfenced' = (unfenced \/ Uncovered(j))
    /\ Go(j, "json")
    /\ UNCHANGED <<scn, truth, markers, fp, stamp, fleet, writer, bounds>>

PutJson(j) ==
    /\ job[j].at = "json"
    /\ views' = [views EXCEPT !.json = job[j].render]
    /\ unfenced' = (unfenced \/ Uncovered(j))
    /\ Go(j, LastPhase(j))
    /\ UNCHANGED <<scn, truth, markers, fp, stamp, fleet, writer, bounds>>

DeleteViews(j) ==
    /\ job[j].at = "delete"
    /\ views' = Rendering(Absent)
    /\ unfenced' = (unfenced \/ Uncovered(j))
    /\ Go(j, LastPhase(j))
    /\ UNCHANGED <<scn, truth, markers, fp, stamp, fleet, writer, bounds>>

\* clear_intent, and back to the caller.
Clear(j) ==
    /\ job[j].at = "clear"
    /\ markers' = clear_intent(j)
    /\ Go(j, Returned(j))
    /\ UNCHANGED <<scn, truth, views, fp, stamp, fleet, writer, unfenced, bounds>>

\* A job forgets the keys it listed.
Unlisted(j) == {[m EXCEPT !.listed = @ \ {j}] : m \in markers}

\* A failed rebuild: the tick holds its markers and clears the intent, the
\* audit holds none and pairs it.
RebuildFails(j) ==
    /\ faults < scn.faults
    /\ job[j].at \in Rebuilding \ {"fence"}
    /\ faults' = faults + 1
    /\ markers' = IF ~scn.multi THEN Unlisted(j)
                  ELSE IF Kind(j) = "tick" THEN Unlisted(j) \ Intent(j)
                  ELSE mark_commit(j)
    /\ unfenced' = (unfenced \/ (Kind(j) = "audit" /\ ~scn.multi))
    /\ job' = [job EXCEPT ![j] = IF Kind(j) = "tick" THEN Idle
                                 ELSE [Idle EXCEPT !.at = "store"]]
    /\ UNCHANGED <<scn, truth, views, fp, stamp, fleet, writer, changes, moves>>

\* A change of the selection drops an audit's future: PairIntentOnDrop.
Cancel(j) ==
    /\ faults < scn.faults
    /\ Kind(j) = "audit" /\ job[j].at # "idle"
    /\ faults' = faults + 1
    /\ markers' = IF scn.multi /\ job[j].at \in Rebuilding \ {"fence"} THEN mark_commit(j)
                  ELSE markers
    /\ unfenced' = (unfenced \/ ~scn.multi)
    /\ job' = [job EXCEPT ![j] = Idle]
    /\ UNCHANGED <<scn, truth, views, fp, stamp, fleet, writer, changes, moves>>

-----------------------------------------------------------------------------
(* tick.                                                                   *)

\* The loop reconciles the denylist before its first tick and audit, and goes
\* on when that fails.
Leading(j) == Node(j) \in leads /\ (scn.moves > 0 => reconciled[Node(j)] # "no")

Tick(j) ==
    /\ Kind(j) = "tick" /\ job[j].at = "idle"
    /\ Leading(j)
    /\ Consumable
    /\ job' = [job EXCEPT ![j] = [Idle EXCEPT !.at = FirstPhase,
                                              !.stale = \E m \in markers : ~m.commit]]
    /\ markers' = {[m EXCEPT !.listed = @ \cup {j}] : m \in markers}
    /\ UNCHANGED <<scn, truth, views, fp, stamp, fleet, writer, unfenced, bounds>>

\* A stale intent's writer may only be slow: leave a fresh marker behind.
Rearm(j) ==
    /\ job[j].at = "rearm"
    /\ markers' = mark_dirty
    /\ job' = [job EXCEPT ![j] = [Idle EXCEPT !.at = "consume"]]
    /\ UNCHANGED <<scn, truth, views, fp, stamp, fleet, writer, unfenced, bounds>>

\* Markers go last, and exactly the keys that were listed.
Consume(j) ==
    /\ job[j].at = "consume"
    /\ markers' = {m \in markers : j \notin m.listed}
    /\ job' = [job EXCEPT ![j] = Idle]
    /\ UNCHANGED <<scn, truth, views, fp, stamp, fleet, writer, unfenced, bounds>>

-----------------------------------------------------------------------------
(* audit_shard, for this package.                                          *)

\* Truth and views are listed side by side.
Walk(j) ==
    /\ Kind(j) = "audit"
    /\ job[j].at = "idle" /\ Leading(j)
    /\ \/ job' = [job EXCEPT ![j] = [Idle EXCEPT !.at = "walk", !.wt = truth.ver]]
       \/ job' = [job EXCEPT ![j] = [Idle EXCEPT !.at = "walk", !.wv = views]]
    /\ UNCHANGED <<scn, bucket, fleet, writer, unfenced, bounds>>

WalkOther(j) ==
    /\ job[j].at = "walk"
    /\ job' = [job EXCEPT ![j].at = "gate",
                          ![j].wt = IF @ = None THEN truth.ver ELSE @,
                          ![j].wv = IF @ = None THEN views ELSE @]
    /\ UNCHANGED <<scn, bucket, fleet, writer, unfenced, bounds>>

fingerprint(t, v) == [truth |-> t, html |-> v.html, json |-> v.json]

\* The stored fingerprint proves the views unchanged, or they are rebuilt.
Gate(j) ==
    /\ job[j].at = "gate"
    /\ LET walked == fingerprint(job[j].wt, job[j].wv) IN
       job' = [job EXCEPT ![j] =
                 IF fp = walked THEN [Idle EXCEPT !.at = "store", !.fp = walked]
                 ELSE [Idle EXCEPT !.at = FirstPhase, !.wt = job[j].wt]]
    /\ UNCHANGED <<scn, bucket, fleet, writer, unfenced, bounds>>

\* certify_audit_rebuild lists both again, side by side, ...
Certify(j) ==
    /\ job[j].at = "certify"
    /\ \/ job[j].ct = None /\ job' = [job EXCEPT ![j].ct = truth.ver,
                                ![j].at = IF job[j].cv = None THEN "certify" ELSE "readback"]
       \/ job[j].cv = None /\ job' = [job EXCEPT ![j].cv = views,
                                ![j].at = IF job[j].ct = None THEN "certify" ELSE "readback"]
    /\ UNCHANGED <<scn, bucket, fleet, writer, unfenced, bounds>>

\* Mutant of Certificate: truth is not compared with the walk's.
CertifyListing(j) ==
    LET rendered == Rendering(job[j].render) IN
    IF job[j].cv = rendered /\ views = rendered
    THEN fingerprint(job[j].ct, job[j].cv)
    ELSE None

\* audit_certificate: truth has not moved since the walk, and the views listed
\* (by size) and read back are the ones rendered.  Renders of different
\* versions differ in size.
Certificate(j) ==
    LET rendered == Rendering(job[j].render) IN
    IF job[j].ct = job[j].wt /\ job[j].cv = rendered /\ views = rendered
    THEN fingerprint(job[j].ct, job[j].cv)
    ELSE None

\* ... and reads the rendered views back.
ReadBack(j) ==
    /\ job[j].at = "readback"
    /\ job' = [job EXCEPT ![j] = [Idle EXCEPT !.at = "store", !.fp = Certificate(j),
                                              !.render = job[j].render]]
    /\ UNCHANGED <<scn, bucket, fleet, writer, unfenced, bounds>>

\* The shard is rewritten; a pass that vouches for nothing leaves no entry.
StoreFingerprint(j) ==
    /\ job[j].at = "store"
    /\ fp' = job[j].fp
    /\ job' = [job EXCEPT ![j] =
                  IF job[j].fp = None /\ job[j].render # None
                  THEN [Idle EXCEPT !.at = "tail"] ELSE Idle]
    /\ UNCHANGED <<scn, truth, views, markers, stamp, fleet, writer, unfenced, bounds>>

\* The sweep's tail hands an uncertified package to the ticks.
MarkUncertified(j) ==
    /\ job[j].at = "tail"
    /\ markers' = mark_dirty
    /\ job' = [job EXCEPT ![j] = Idle]
    /\ UNCHANGED <<scn, truth, views, fp, stamp, fleet, writer, unfenced, bounds>>

-----------------------------------------------------------------------------
(* reconcile_excludes, and what makes it run.                              *)

Excluded == IF stamp = None THEN FALSE ELSE stamp

\* Once per process: the leader compares its denylist with the bucket's stamp;
\* a first pass takes every name it denies.
Reconcile(j) ==
    /\ Kind(j) = "reconcile" /\ job[j].at = "idle"
    /\ Node(j) \in leads /\ reconciled[Node(j)] # "yes"
    /\ IF Excluded = deny[Node(j)] /\ ~deny[Node(j)]
       THEN /\ reconciled' = [reconciled EXCEPT ![Node(j)] = "yes"]
            /\ UNCHANGED job
       ELSE Go(j, "drop") /\ UNCHANGED reconciled
    /\ UNCHANGED <<scn, bucket, deny, leads, writer, unfenced, bounds>>

DropFingerprint(j) ==
    /\ job[j].at = "drop"
    /\ fp' = None
    /\ Go(j, "mark")
    /\ UNCHANGED <<scn, truth, views, markers, stamp, fleet, writer, unfenced, bounds>>

MarkDenied(j) ==
    /\ job[j].at = "mark"
    /\ markers' = mark_dirty
    /\ Go(j, "enforce")
    /\ UNCHANGED <<scn, truth, views, fp, stamp, fleet, writer, unfenced, bounds>>

WriteEnforced(j) ==
    /\ job[j].at = "enforce"
    /\ stamp' = deny[Node(j)]
    /\ reconciled' = [reconciled EXCEPT ![Node(j)] = "yes"]
    /\ job' = [job EXCEPT ![j] = Idle]
    /\ UNCHANGED <<scn, truth, views, markers, fp, deny, leads, writer, unfenced, bounds>>

ReconcileFails(j) ==
    /\ faults < scn.faults
    /\ job[j].at \in {"drop", "mark", "enforce"}
    /\ faults' = faults + 1
    /\ reconciled' = [reconciled EXCEPT ![Node(j)] = "tried"]
    /\ job' = [job EXCEPT ![j] = Idle]
    /\ UNCHANGED <<scn, bucket, deny, leads, writer, unfenced, changes, moves>>

JobsOf(n) == {j \in Jobs : Node(j) = n}
\* What the markers of a node's jobs become when it stops.
LeftBehind(n) ==
    Orphaned({[m EXCEPT !.listed = @ \ JobsOf(n)] : m \in markers}, JobsOf(n))
Stopped(n) == [j \in Jobs |-> IF Node(j) = n THEN Idle ELSE job[j]]

\* A node is restarted with the package on its denylist, handing its lease over.
Restart(n) ==
    /\ moves < scn.moves
    /\ moves' = moves + 1
    /\ deny' = [deny EXCEPT ![n] = TRUE]
    /\ reconciled' = [reconciled EXCEPT ![n] = "no"]
    /\ leads' = leads \ {n}
    /\ job' = Stopped(n)
    /\ markers' = LeftBehind(n)
    /\ UNCHANGED <<scn, truth, views, fp, stamp, writer, unfenced, changes, faults>>

\* The lease changes hands: to a node when nobody leads, or away from a slow
\* leader that does not know yet.
Lead(n) ==
    /\ leads = {} \/ moves < scn.moves
    /\ n \notin leads
    /\ moves' = IF leads = {} THEN moves ELSE moves + 1
    /\ leads' \in {{n}, leads \cup {n}}
    /\ UNCHANGED <<scn, bucket, deny, reconciled, writer, job, unfenced, changes, faults>>

\* A node dies where it stands and comes back.
Crash(n) ==
    /\ faults < scn.faults
    /\ \E j \in Jobs : Node(j) = n /\ job[j].at # "idle"
    /\ faults' = faults + 1
    /\ unfenced' = (unfenced \/ \E j \in Jobs :
                       Node(j) = n /\ Kind(j) = "audit" /\ job[j].at # "idle" /\ ~scn.multi)
    /\ reconciled' = [reconciled EXCEPT ![n] = "no"]
    /\ job' = Stopped(n)
    /\ markers' = LeftBehind(n)
    /\ UNCHANGED <<scn, truth, views, fp, stamp, deny, leads, writer, changes, moves>>

-----------------------------------------------------------------------------

Step(j) ==
    \/ Tick(j) \/ Fence(j) \/ ListArtifacts(j) \/ PutHtml(j) \/ PutJson(j)
    \/ DeleteViews(j) \/ Clear(j) \/ Rearm(j) \/ Consume(j)
    \/ Walk(j) \/ WalkOther(j) \/ Gate(j) \/ Certify(j) \/ ReadBack(j)
    \/ StoreFingerprint(j) \/ MarkUncertified(j)
    \/ Reconcile(j) \/ DropFingerprint(j) \/ MarkDenied(j) \/ WriteEnforced(j)

Next ==
    \/ \E w \in Writers : Open(w) \/ OpenUnmarked(w) \/ Mutate(w) \/ Commit(w) \/ Die(w)
    \/ \E m \in markers : Age(m)
    \/ \E j \in scn.jobs : Step(j) \/ RebuildFails(j) \/ Cancel(j) \/ ReconcileFails(j)
    \/ \E n \in Nodes : Restart(n) \/ Lead(n) \/ Crash(n)

Spec == Init /\ [][Next]_vars

\* The worker loop runs its jobs again and again, somebody takes a free lease,
\* a request ends, and the grace of an intent runs out.
Fairness ==
    /\ \A j \in Jobs : WF_vars(j \in scn.jobs /\ Step(j))
    /\ \A w \in Writers : WF_vars(Commit(w))
    /\ WF_vars(\E m \in markers : Age(m))
    /\ WF_vars(leads = {} /\ \E n \in Nodes : Lead(n))

LiveSpec == Spec /\ Fairness

-----------------------------------------------------------------------------
(* Properties.                                                             *)

\* The denylists that a stored view may have been rendered under.
Policies == IF moves = 0 THEN {deny[n] : n \in Nodes} ELSE BOOLEAN
Current(denied) == views = Rendering(Rendered(truth, denied))

\* audit_certificate: "the skip gate trusts a stored fingerprint forever", so
\* one that matches the bucket must vouch for a view that is the render of the
\* stored truth, whichever stale tick or audit wrote last.
CertificateSound ==
    fp # None /\ fp = fingerprint(truth.ver, views) => \E d \in Policies : Current(d)

\* A crash, a failure or a slow writer never strands a change: once no marker,
\* no open write and no job is left, the views render the truth.  Two tickers
\* without the fence of intents, and a write after the grace took its intent
\* away, are left to the audit.
Tickers == {j \in scn.jobs : Kind(j) = "tick"}
NoLostUpdate ==
    /\ markers = {}
    /\ \A w \in Writers : writer[w] = "idle"
    /\ \A j \in Jobs : job[j].at = "idle"
    /\ scn.multi \/ Cardinality(Tickers) = 1
    /\ ~unfenced /\ moves = 0
    => \A n \in Nodes : Current(deny[n])

\* Where somebody audits, the views come to render the truth and stay so,
\* whatever the leaders and the writers did to each other.
Converges ==
    (\E j \in scn.jobs : Kind(j) = "audit") /\ scn.moves = 0
      => <>[](\A n \in Nodes : Current(deny[n]))

\* A denied name ends up delisted, and stays so, once every node has the
\* denylist and has led since its own restart.
AllReconciled == \A n \in Nodes : deny[n] /\ reconciled[n] = "yes"
DelistedOnceLed == [](AllReconciled => <>[](views = Rendering(Absent)))
=============================================================================
