---------------------------- MODULE AdvisoryFeed -----------------------------
(***************************************************************************)
(* The malware block set of each node (advisories.rs): the daily snapshot  *)
(* that a leader polls from OSV, persists and re-seeds and that every node *)
(* reloads from its bucket, and the per-node probe of OSV's modification   *)
(* list that blocks a new MAL advisory, and lifts a withdrawn one, ahead   *)
(* of the snapshot.  A snapshot is known by its number in the order OSV    *)
(* exported them, which stands for its bytes, their sha256 and OSV's ETag. *)
(***************************************************************************)
EXTENDS Naturals, FiniteSets, Sequences

CONSTANTS Nodes, Buckets,
          Mal, Fixes,    \* advisory ids: malware; vulnerabilities that name a fix
          Floor,         \* the MAL ids compiled into the binary
          Stories,       \* [script, nodes, restarts, flips, pushes, faults]
          MaxFixFetches, \* PROBE_MAX_FIX_FETCHES
          Attempts       \* PROBE_MAL_FETCH_ATTEMPTS

Ids == Mal \cup Fixes

VARIABLES story,
          osv,     \* OSV's records: [mod, live]; mod 0 is an id never published
          exports, \* the all.zip exports so far
          shelf,   \* each bucket's FEED_KEY: a snapshot, or 0
          pin,     \* the bucket each node has selected
          holder,  \* the node that leads each bucket
          snap,    \* each node's AdvisoryState: [sha, tag, overlay, fixes, superseded]; back, a
                   \* ghost: this snapshot came back before a probe cycle saw it gone
          memo,    \* RefreshMemo.http_etag
          job,     \* each node's refresh task: [at, on, got, tag, absent]
          probe,   \* ProbeMemo: [aligned, mark, csv, retries]
          cycle,   \* each node's probe task
          skipped  \* ids each node gave up reading until OSV modifies them

feedVars == <<story, osv, exports, shelf, pin, holder, snap, memo, job, probe, cycle, skipped>>

Clock(c) == CHOOSE m \in {c[id].mod : id \in Ids} : \A id \in Ids : c[id].mod <= m
LiveIn(c) == {id \in Ids : c[id].live}
Nothing == [id \in Ids |-> [mod |-> 0, live |-> FALSE]]
Content(sha) == IF sha = 0 THEN Nothing ELSE exports[sha]
Latest == Len(exports)

\* A start without an explicit feed setting: nothing loaded, the embedded floor armed.
embedded_floor == [sha |-> 0, tag |-> <<0, 0>>, overlay |-> Floor, fixes |-> {}, superseded |-> {},
                   back |-> FALSE]
NoJob == [at |-> "idle", on |-> 1, got |-> 0, tag |-> <<0, 0>>, absent |-> {}]
NoMemo == [aligned |-> 0, mark |-> 0, csv |-> 0, retries |-> <<>>]
NoCycle == [at |-> "idle", base |-> 0, fresh |-> {}, max |-> 0, etag |-> 0, added |-> {}, withdrawn |-> {}, seen |-> {}, fixed |-> {}]
NoRetries == [id \in {} |-> 0]

AdvisoryInit ==
    /\ story \in Stories
    /\ osv = [id \in Ids |-> IF id \in Floor THEN [mod |-> 1, live |-> TRUE] ELSE [mod |-> 0, live |-> FALSE]]
    /\ exports = <<osv>>
    /\ shelf = [b \in Buckets |-> 0]
    /\ pin = [n \in Nodes |-> 1]
    /\ holder = [b \in Buckets |-> CHOOSE n \in story.nodes : TRUE]
    /\ snap = [n \in Nodes |-> embedded_floor]
    /\ memo = [n \in Nodes |-> 0]
    /\ job = [n \in Nodes |-> NoJob]
    /\ probe = [n \in Nodes |-> [NoMemo EXCEPT !.retries = NoRetries]]
    /\ cycle = [n \in Nodes |-> NoCycle]
    /\ skipped = [n \in Nodes |-> {}]

Budgeted(what) == story[what] > 0 /\ story' = [story EXCEPT ![what] = @ - 1]
UnProbe == UNCHANGED <<probe, cycle, skipped>>
UnRefresh == UNCHANGED <<shelf, memo, job>>
UnWorld == UNCHANGED <<osv, exports, pin, holder>>

\* AdvisoryState::blocking and security_fix: what the byte gate blocks, and the releases
\* that may skip the cooldown.
Blocks(n) == (LiveIn(Content(snap[n].sha)) \cap Mal) \cup snap[n].overlay
Exempts(n) == ((LiveIn(Content(snap[n].sha)) \cap Fixes) \ snap[n].superseded) \cup snap[n].fixes

-----------------------------------------------------------------------------
(* The world: OSV publishes, edits and exports; a bucket is switched; a    *)
(* node restarts; an administrator pushes a snapshot.                      *)

Publish ==
    /\ story.script # <<>>
    /\ LET s == Head(story.script) IN osv' = [osv EXCEPT ![s.id] = [mod |-> Clock(osv) + 1, live |-> s.live]]
    /\ story' = [story EXCEPT !.script = Tail(@)]
    /\ UNCHANGED <<exports, pin, holder, snap>> /\ UnProbe /\ UnRefresh

Export ==
    /\ osv # exports[Latest]
    /\ exports' = Append(exports, osv)
    /\ UNCHANGED <<story, osv, pin, holder, snap>> /\ UnProbe /\ UnRefresh

SwitchPin(n) ==
    /\ n \in story.nodes /\ Budgeted("flips")
    /\ \E b \in Buckets \ {pin[n]} : pin' = [pin EXCEPT ![n] = b]
    /\ UNCHANGED <<osv, exports, holder, snap>> /\ UnProbe /\ UnRefresh

\* The lease of a bucket whose holder has gone elsewhere.
TakeLease(n) ==
    /\ n \in story.nodes /\ holder[pin[n]] # n /\ pin[holder[pin[n]]] # pin[n]
    /\ holder' = [holder EXCEPT ![pin[n]] = n]
    /\ UNCHANGED <<story, osv, exports, pin, snap>> /\ UnProbe /\ UnRefresh

\* A restart; the lease goes to another node of the bucket where there is one.
Heir(n, b) == IF \E m \in story.nodes \ {n} : pin[m] = b
              THEN CHOOSE m \in story.nodes \ {n} : pin[m] = b ELSE n
Forgotten(n) ==
    /\ holder' = [b \in Buckets |-> IF holder[b] = n THEN Heir(n, b) ELSE holder[b]]
    /\ memo' = [memo EXCEPT ![n] = 0]
    /\ probe' = [probe EXCEPT ![n] = [NoMemo EXCEPT !.retries = NoRetries]]
    /\ cycle' = [cycle EXCEPT ![n] = NoCycle]
    /\ skipped' = [skipped EXCEPT ![n] = {}]

Restart(n) ==
    /\ n \in story.nodes /\ Budgeted("restarts")
    /\ Forgotten(n)
    /\ snap' = [snap EXCEPT ![n] = embedded_floor]
    /\ job' = [job EXCEPT ![n] = NoJob]
    /\ UNCHANGED <<osv, exports, shelf, pin>>

\* obtain_at_startup of an explicit feed: the source's bytes are put whatever stands there;
\* with no source the stored copy is loaded, and without either the node does not start.
RestartExplicit(n) ==
    /\ n \in story.nodes /\ Budgeted("restarts")
    /\ Forgotten(n)
    /\ \/ /\ job' = [job EXCEPT ![n] = [NoJob EXCEPT !.at = "seed_start", !.on = pin[n], !.got = Latest]]
          /\ snap' = [snap EXCEPT ![n] = embedded_floor]
       \/ /\ shelf[pin[n]] # 0
          /\ snap' = [snap EXCEPT ![n] = [embedded_floor EXCEPT !.sha = shelf[pin[n]],
                                             !.tag = <<pin[n], shelf[pin[n]]>>, !.overlay = {}]]
          /\ job' = [job EXCEPT ![n] = NoJob]
    /\ UNCHANGED <<osv, exports, shelf, pin>>

SeedAtStart(n) ==
    /\ job[n].at = "seed_start"
    /\ shelf' = [shelf EXCEPT ![job[n].on] = job[n].got]
    /\ snap' = [snap EXCEPT ![n] = [@ EXCEPT !.sha = job[n].got, !.tag = <<job[n].on, job[n].got>>, !.overlay = {}]]
    /\ job' = [job EXCEPT ![n] = NoJob]
    /\ UNCHANGED <<story, memo>> /\ UnWorld /\ UnProbe

\* advisories_feed_put: any snapshot that parses is written through.
AdminPut(n) ==
    /\ n \in story.nodes /\ Budgeted("pushes")
    /\ \E sha \in 1..Latest : shelf' = [b \in Buckets |-> sha]
   
    /\ UNCHANGED <<memo, job, snap>> /\ UnWorld /\ UnProbe

-----------------------------------------------------------------------------
(* refresh: the leader polls, persists and re-seeds; every node reloads.   *)

JobGoes(n, where) == job' = [job EXCEPT ![n].at = where]
UnNode == UNCHANGED <<snap>>

StartRefresh(n) ==
    /\ n \in story.nodes /\ job[n].at = "idle"
    /\ job' = [job EXCEPT ![n] = [NoJob EXCEPT !.on = pin[n], !.at = IF holder[pin[n]] = n THEN "poll" ELSE "reload"]]
    /\ UNCHANGED <<story, shelf, memo>> /\ UnNode /\ UnWorld /\ UnProbe

\* The ETag goes out only while the bytes it names are the loaded ones.
if_none_match(n) == IF memo[n] = snap[n].sha THEN memo[n] ELSE 0

\* poll_and_persist, the poll: not modified, the loaded bytes, or new ones to persist.
Poll(n) ==
    /\ job[n].at = "poll"
    /\ CASE if_none_match(n) = Latest -> JobGoes(n, "reseed") /\ UNCHANGED memo
         [] if_none_match(n) # Latest /\ Latest = snap[n].sha ->
               memo' = [memo EXCEPT ![n] = Latest] /\ JobGoes(n, "reseed")
         [] OTHER -> job' = [job EXCEPT ![n].at = "persist", ![n].got = Latest] /\ UNCHANGED memo
    /\ UNCHANGED <<story, shelf>> /\ UnNode /\ UnWorld /\ UnProbe

PollFails(n) ==
    /\ job[n].at = "poll" /\ Budgeted("faults")
    /\ JobGoes(n, "reseed")
    /\ UNCHANGED <<shelf, memo>> /\ UnNode /\ UnWorld /\ UnProbe

\* write_singleton: the selected bucket must take it, the peers are best effort; only
\* then is the source's ETag remembered.
Persist(n) ==
    /\ job[n].at = "persist"
    /\ \E to \in {s \in SUBSET Buckets : job[n].on \in s} :
          /\ shelf' = [b \in Buckets |-> IF b \in to THEN job[n].got ELSE shelf[b]]
          /\ IF to = Buckets THEN UNCHANGED story ELSE Budgeted("faults")
    /\ memo' = [memo EXCEPT ![n] = job[n].got]
    /\ JobGoes(n, "reseed")
    /\ UnNode /\ UnWorld /\ UnProbe

PersistFails(n) ==
    /\ job[n].at = "persist" /\ Budgeted("faults")
    /\ JobGoes(n, "reseed")
    /\ UNCHANGED <<shelf, memo>> /\ UnNode /\ UnWorld /\ UnProbe

\* reseed_key_if_absent: the buckets found without the key ...
Reseed(n) ==
    /\ job[n].at = "reseed"
    /\ job' = [job EXCEPT ![n].at = "seed", ![n].got = snap[n].sha,
                          ![n].absent = IF snap[n].sha = 0 THEN {} ELSE {b \in Buckets : shelf[b] = 0}]
    /\ UNCHANGED <<story, shelf, memo>> /\ UnNode /\ UnWorld /\ UnProbe

\* ... get the node's bytes, whatever has arrived there since.
Seed(n) ==
    /\ job[n].at = "seed"
    /\ shelf' = [b \in Buckets |-> IF b \in job[n].absent THEN job[n].got ELSE shelf[b]]
    /\ JobGoes(n, "reload")
    /\ UNCHANGED <<story, memo>> /\ UnNode /\ UnWorld /\ UnProbe

\* reload: one listing decides whether the bytes are read ...
Reload(n) ==
    /\ job[n].at = "reload"
    /\ LET tag == <<job[n].on, shelf[job[n].on]>>
       IN job' = [job EXCEPT ![n].tag = tag, ![n].at = IF tag[2] = 0 \/ tag = snap[n].tag THEN "idle" ELSE "get"]
    /\ UNCHANGED <<story, shelf, memo>> /\ UnNode /\ UnWorld /\ UnProbe

\* ... and the same bytes under a new etag adopt it and nothing else.
SameBytes(n, sha) == snap[n].sha = sha

Swap(n) ==
    /\ job[n].at = "get"
    /\ LET sha == shelf[job[n].on]
       IN IF SameBytes(n, sha)
          THEN snap' = [snap EXCEPT ![n].tag = job[n].tag]
          ELSE snap' = [snap EXCEPT ![n] = [embedded_floor EXCEPT !.sha = sha, !.tag = job[n].tag, !.overlay = {},
                                               !.back = sha = probe[n].aligned]]
    /\ job' = [job EXCEPT ![n] = NoJob]
    /\ UNCHANGED <<story, shelf, memo>> /\ UnWorld /\ UnProbe

-----------------------------------------------------------------------------
(* probe: one cycle of the per-node malware probe.                         *)

\* A swapped snapshot re-baselines the floor and drops the list's etag.
BeginProbe(n) ==
    /\ n \in story.nodes /\ cycle[n].at = "idle" /\ snap[n].sha # 0
    /\ cycle' = [cycle EXCEPT ![n] = [NoCycle EXCEPT !.at = "walk", !.base = snap[n].sha]]
    /\ probe' = [probe EXCEPT ![n] = IF @.aligned = snap[n].sha THEN @
                   ELSE [@ EXCEPT !.aligned = snap[n].sha, !.mark = Clock(Content(snap[n].sha)), !.csv = 0]]
    /\ UNCHANGED <<story, snap, skipped>> /\ UnRefresh /\ UnWorld

\* parse_csv_head: the ids strictly above the floor, and the new floor.
Fresh(n) == {id \in Ids : osv[id].mod > probe[n].mark}

\* walk_csv, a conditional read of the modification list; a failure leaves the cycle undone.
WalkCsv(n) ==
    /\ cycle[n].at = "walk"
    /\ IF probe[n].csv = Clock(osv)
       THEN cycle' = [cycle EXCEPT ![n].at = IF probe[n].retries = NoRetries THEN "idle" ELSE "fetch",
                                   ![n].etag = probe[n].csv]
       ELSE cycle' = [cycle EXCEPT ![n].at = "fetch", ![n].etag = Clock(osv), ![n].fresh = Fresh(n),
                                   ![n].max = IF Fresh(n) = {} THEN 0 ELSE Clock(osv)]
    /\ UNCHANGED <<story, snap, probe, skipped>> /\ UnRefresh /\ UnWorld

WalkFails(n) ==
    /\ cycle[n].at = "walk" /\ Budgeted("faults")
    /\ cycle' = [cycle EXCEPT ![n].at = "idle"]
    /\ UNCHANGED <<snap, probe, skipped>> /\ UnRefresh /\ UnWorld

\* A read that failed: an outage costs the id no attempt, an unreadable record costs one
\* of its own budget, and a spent budget lets it go.
KeepOnOutage(retries, outage) ==
    [id \in DOMAIN retries \cup outage |-> IF id \in DOMAIN retries THEN retries[id] ELSE 0]
NeverSpent(retries, id) == FALSE
Spent(retries, id) == (IF id \in DOMAIN retries THEN retries[id] ELSE 0) + 1 >= Attempts
note_mal_failure(retries, bad) ==
    [id \in {i \in DOMAIN retries \cup bad : i \in bad => ~Spent(retries, i)} |->
        (IF id \in DOMAIN retries THEN retries[id] ELSE 0) + (IF id \in bad THEN 1 ELSE 0)]
Without(retries, ids) == [id \in DOMAIN retries \ ids |-> retries[id]]

FetchAdvisories(n) ==
    LET mals == (cycle[n].fresh \cap Mal) \cup DOMAIN probe[n].retries
        others == cycle[n].fresh \cap Fixes
        wanted == IF Cardinality(others) > MaxFixFetches THEN {} ELSE others
    IN /\ cycle[n].at = "fetch"
       /\ \E outage \in SUBSET mals, bad \in SUBSET mals, missed \in SUBSET wanted :
             LET read == mals \ (outage \cup bad)
                 seen == wanted \ missed
             IN /\ outage \cap bad = {}
                /\ IF outage \cup bad \cup missed = {} THEN UNCHANGED story ELSE Budgeted("faults")
                /\ cycle' = [cycle EXCEPT ![n].at = "apply", ![n].added = read \cap LiveIn(osv),
                               ![n].withdrawn = read \ LiveIn(osv), ![n].seen = seen,
                               ![n].fixed = seen \cap LiveIn(osv)]
                /\ probe' = [probe EXCEPT ![n].retries =
                               note_mal_failure(KeepOnOutage(Without(@, read), outage), bad)]
                /\ skipped' = [skipped EXCEPT ![n] = (@ \ (read \cup seen)) \cup (others \ seen)
                                  \cup {id \in bad : Spent(probe[n].retries, id)}]
       /\ UNCHANGED snap /\ UnRefresh /\ UnWorld

\* merge_overlay, for rules keyed by the advisory that brought them.
merge_overlay(overlay, added, stale) == (overlay \ (stale \cup added)) \cup added

\* A fix rule of the baseline that the probe has read again no longer counts.
ForgetSuperseded(old, seen) == old
Supersede(old, seen) == old \cup seen

\* apply_probe_overlay only onto the snapshot the cycle began with; the floor and the
\* list's etag move on either way.
Aligned(n) == snap[n].sha = cycle[n].base

Apply(n) ==
    /\ cycle[n].at = "apply"
    /\ IF Aligned(n)
       THEN snap' = [snap EXCEPT ![n].overlay = merge_overlay(@, cycle[n].added, cycle[n].withdrawn),
                                 ![n].fixes = merge_overlay(@, cycle[n].fixed, cycle[n].seen),
                                 ![n].superseded = Supersede(@, cycle[n].seen)]
       ELSE UNCHANGED snap
    /\ probe' = [probe EXCEPT ![n].mark = IF cycle[n].max = 0 THEN @ ELSE cycle[n].max, ![n].csv = cycle[n].etag]
    /\ cycle' = [cycle EXCEPT ![n] = NoCycle]
    /\ UNCHANGED <<story, skipped>> /\ UnRefresh /\ UnWorld

RefreshStep(n) ==
    \/ StartRefresh(n) \/ Poll(n) \/ PollFails(n) \/ Persist(n) \/ PersistFails(n)
    \/ Reseed(n) \/ Seed(n) \/ Reload(n) \/ Swap(n) \/ SeedAtStart(n)
ProbeStep(n) == BeginProbe(n) \/ WalkCsv(n) \/ WalkFails(n) \/ FetchAdvisories(n) \/ Apply(n)

AdvisoryNext ==
    \/ Publish \/ Export
    \/ \E n \in Nodes :
          \/ SwitchPin(n) \/ TakeLease(n) \/ Restart(n) \/ RestartExplicit(n) \/ AdminPut(n)
          \/ RefreshStep(n) \/ ProbeStep(n)

\* Both ticks of a node come round for ever, a lease is taken, and OSV exports what it has.
AdvisorySpec ==
    /\ AdvisoryInit /\ [][AdvisoryNext]_feedVars
    /\ WF_feedVars(Export)
    /\ \A n \in Nodes : WF_feedVars(TakeLease(n)) /\ WF_feedVars(RefreshStep(n)) /\ WF_feedVars(ProbeStep(n))

-----------------------------------------------------------------------------
\* The types of the state; an unread advisory has failed fewer times than its budget.
AdvisoryTypeOK ==
    /\ \A b \in Buckets : shelf[b] \in 0..Latest
    /\ \A n \in Nodes : /\ snap[n].sha \in 0..Latest /\ memo[n] \in 0..Latest
                        /\ snap[n].overlay \subseteq Mal
                        /\ \A id \in DOMAIN probe[n].retries : probe[n].retries[id] < Attempts

\* A snapshot that was replaced and came back between two cycles has lost its overlay and
\* keeps the floor the probe had reached: the probe tells snapshots apart by their sha.
Settled(n) ==
    cycle[n].at = "idle" /\ probe[n].aligned = snap[n].sha /\ snap[n].sha # 0 /\ ~snap[n].back

\* Between two probe cycles of the loaded snapshot, everything OSV lists at or below the
\* probe's floor is in force, is owed a retry, or was reported skipped: nothing falls
\* between the snapshot and the probe (advisories.rs probe_once, apply_probe_overlay) - but
\* for a snapshot that came back, which stays behind until the next one (see Settled).
NothingMissed ==
    \A n \in Nodes : Settled(n) =>
        \A id \in Mal \ (DOMAIN probe[n].retries \cup skipped[n]) :
            osv[id].mod \in 1..probe[n].mark =>
                IF osv[id].live THEN id \in Blocks(n) ELSE id \notin snap[n].overlay

\* The same of the fix exemptions: a fix that OSV withdrew at or below the floor no longer
\* lets a release skip its cooldown, unless the probe could not read it.
FixesCurrent ==
    \A n \in Nodes : Settled(n) =>
        \A id \in Fixes \ skipped[n] :
            osv[id].mod \in 1..probe[n].mark => (id \in Exempts(n) <=> osv[id].live)
=============================================================================
