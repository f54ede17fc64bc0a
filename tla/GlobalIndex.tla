---------------------------- MODULE GlobalIndex ----------------------------
(***************************************************************************)
(* The global index of one bucket (src/worker.rs): the canonical           *)
(* simple/index.json, the derived simple/index.html and the stamp that     *)
(* proves which names the HTML renders.  Every node that ticks, audits or  *)
(* drains the bucket derives a delta of package names from the package     *)
(* views and applies it under conditional writes, through a cache of the   *)
(* name set that it keeps in memory.  The lease is sloppy, so several      *)
(* nodes do so at once; a node may die between any two storage calls, and  *)
(* a call may fail.                                                        *)
(*                                                                         *)
(* A step is one storage call.  The rebuild of the packages of a job is    *)
(* one step here (PackageIndex takes it apart), as is the proof of all of  *)
(* an audit's dead observations.  Backends without conditional writes have *)
(* one writer and are left out, as is a change of the read pin, which drops *)
(* a tick and an audit where they stand.                                   *)
(***************************************************************************)
EXTENDS Naturals, FiniteSets

CONSTANTS
    Packages,
    Nodes,
    Fleets,        \* what may run: sets of pairs of a node and its job, a "tick",
                   \* an "audit" or a "drain", each with the changes and the faults
                   \* already spent
    Tags,          \* ETags; a write takes one that nobody remembers
    None,          \* an absent object, an empty cache
    Attempts,      \* conditional-write attempts per job
    MaxChanges,    \* bound: publishes and deletes of packages
    MaxFaults      \* bound: failed calls and dead nodes

VARIABLES
    fleet,    \* the jobs that run
    truth,    \* per package: nothing stored, only its claim, or artifacts
    views,    \* packages with a rendered simple/<pkg>/index.json
    dirty,    \* the _dirty/ markers of committed changes
    json,     \* simple/index.json
    html,     \* simple/index.html
    stamp,    \* _state/global-html.json
    cache,    \* GlobalNames per node, and what a drain loaded
    job,      \* where each job stands
    changes, faults

vars == <<fleet, truth, views, dirty, json, html, stamp, cache, job, changes, faults>>
store == <<json, html, stamp>>
bounds == <<fleet, changes, faults>>

-----------------------------------------------------------------------------
(* Values.                                                                 *)

Jobs == UNION {f[1] : f \in Fleets}
Node(j) == j[1]
Kind(j) == j[2]

\* A drain never touches the node's cache: it loads into a slot of its own.
Slot(j) == IF Kind(j) = "drain" THEN j ELSE Node(j)
Slots == Nodes \cup {j \in Jobs : Kind(j) = "drain"}

Object == [tag : Tags, names : SUBSET Packages]

\* GlobalNames: the name set, the ETags it is pinned to, and what is known of
\* the HTML.
CachedNames ==
    [etag : Tags \cup {None}, names : SUBSET Packages, html_etag : Tags \cup {None},
     html_current : BOOLEAN, stranded : BOOLEAN]

\* What a listing of a package shows; its absence everywhere is the empty
\* fingerprint.
Fingerprint == [truth : {"absent", "claimed", "live"}, view : BOOLEAN]
fingerprint(p) == [truth |-> truth[p], view |-> p \in views]
EmptyFingerprint == [truth |-> "absent", view |-> FALSE]

Marker == Packages \X Nat

\* Nobody is at once a node and a job, absence is no value, and there are more tags
\* than the objects, the caches and the jobs can remember.
ASSUME GlobalAssumption ==
    /\ \A f \in Fleets :
          /\ f[1] \subseteq Nodes \X {"tick", "audit", "drain"} /\ f[1] \cap Nodes = {}
          /\ f[2] \in 0 .. MaxChanges /\ f[3] \in 0 .. MaxFaults
    /\ IsFiniteSet(Nodes) /\ IsFiniteSet(Packages)
    /\ None \notin Tags /\ None \notin Object /\ None \notin CachedNames
    /\ \A S \in SUBSET Packages : S # None
    /\ IsFiniteSet(Tags) /\ Cardinality(Tags) > 3 + 2 * Cardinality(Slots) + 4 * Cardinality(Jobs)
    /\ Attempts \in Nat \ {0}

Idle ==
    [at |-> "idle", keys |-> {}, adds |-> {}, removes |-> {}, dead |-> {},
     tries |-> 0, base |-> None, first |-> "none", want |-> None, tag |-> None, jtag |-> None]

Phases ==
    {"idle", "ghosts", "lock", "load", "html", "derive", "apply", "probe", "compare",
     "rewrite", "stamp", "publish", "canonical", "done"}

Job ==
    [at : Phases, keys : SUBSET Marker, adds : SUBSET Packages, removes : SUBSET Packages,
     dead : SUBSET (Packages \X Fingerprint), tries : 0 .. Attempts, base : Object \cup {None},
     first : {"none", "json", "html"}, want : Tags \cup {None}, tag : Tags \cup {None},
     jtag : Tags \cup {None}]

Names(object) == IF object = None THEN {} ELSE object.names
Etag(object) == IF object = None THEN None ELSE object.tag

TypeOK ==
    /\ \E f \in Fleets : fleet = f[1]
    /\ truth \in [Packages -> {"absent", "claimed", "live"}]
    /\ views \subseteq Packages
    /\ dirty \subseteq Marker
    /\ json \in Object \cup {None}
    /\ html \in Object \cup {None}
    /\ stamp \in Object \cup {None}
    /\ cache \in [Slots -> CachedNames \cup {None}]
    /\ job \in [Jobs -> Job]

Init ==
    /\ truth = [p \in Packages |-> "absent"]
    /\ views = {}
    /\ dirty = {}
    /\ json = None /\ html = None /\ stamp = None
    /\ cache = [s \in Slots |-> None]
    /\ job = [j \in Jobs |-> Idle]
    /\ \E f \in Fleets : fleet = f[1] /\ changes = f[2] /\ faults = f[3]

-----------------------------------------------------------------------------
(* Markers and tags.                                                       *)

\* A nonce that no marker of the package carries, in the bucket or in the
\* hands of a job.
Markers == dirty \cup (UNION {job[j].keys : j \in Jobs})
Nonce(p) == CHOOSE n \in 0 .. Cardinality(Markers) : <<p, n>> \notin Markers

MarkDirty(P) == {<<p, Nonce(p)>> : p \in P}

CacheTags(c) == IF c = None THEN {} ELSE {c.etag, c.html_etag}

JobTags(j) == {Etag(job[j].base), job[j].want, job[j].tag, job[j].jtag}

InUse ==
    {Etag(json), Etag(html), Etag(stamp)}
      \cup (UNION {CacheTags(cache[s]) : s \in Slots})
      \cup (UNION {JobTags(j) : j \in Jobs})

FreshTag == CHOOSE t \in Tags : t \notin InUse

-----------------------------------------------------------------------------
(* Truth changes under the index.                                          *)

\* A publish claims the name before its artifact lands.
Claim(p) ==
    /\ truth[p] = "absent"
    /\ truth' = [truth EXCEPT ![p] = "claimed"]
    /\ UNCHANGED <<views, dirty, store, cache, job, bounds>>

\* Artifacts appear or the last one goes, and the change is committed.
Change(p) ==
    /\ changes < MaxChanges
    /\ truth[p] # "absent"
    /\ changes' = changes + 1
    /\ truth' = [truth EXCEPT ![p] = IF @ = "live" THEN "claimed" ELSE "live"]
    /\ dirty' = dirty \cup MarkDirty({p})
    /\ UNCHANGED <<fleet, views, store, cache, job, faults>>

\* An operator removes the objects of a package out of band: no marker tells.
Vanish(p) ==
    /\ changes < MaxChanges
    /\ fingerprint(p) # EmptyFingerprint
    /\ changes' = changes + 1
    /\ truth' = [truth EXCEPT ![p] = "absent"]
    /\ views' = views \ {p}
    /\ UNCHANGED <<fleet, dirty, store, cache, job, faults>>

-----------------------------------------------------------------------------
(* A job gathers its delta.                                                *)

Rebuild(P) == views' = (views \ P) \cup {p \in P : truth[p] = "live"}

\* tick and drain_dirty_uncached rebuild the packages whose markers they see;
\* a package whose rebuild fails keeps its markers.
Drain(j) ==
    /\ Kind(j) \in {"tick", "drain"}
    /\ job[j].at = "idle"
    /\ dirty # {}
    /\ LET seen == {m[1] : m \in dirty} IN
       \E P \in SUBSET seen :
          /\ P = seen \/ faults < MaxFaults
          /\ faults' = IF P = seen THEN faults ELSE faults + 1
          /\ Rebuild(P)
          /\ LET live == {p \in P : truth[p] = "live"} IN
             job' = [job EXCEPT ![j] =
                       [Idle EXCEPT !.at = IF Kind(j) = "drain" /\ P = {} THEN "done" ELSE "lock",
                                    !.keys = {m \in dirty : m[1] \in P},
                                    !.adds = live, !.removes = P \ live]]
    /\ UNCHANGED <<fleet, truth, dirty, store, cache, changes>>

\* The audit walks every package with truth or a view, rebuilds it, and pins
\* each dead observation to the fingerprint it was made under.
Walk(j) ==
    /\ Kind(j) = "audit"
    /\ job[j].at = "idle"
    /\ LET walked == {p \in Packages : fingerprint(p) # EmptyFingerprint}
           live == {p \in walked : truth[p] = "live"} IN
       /\ Rebuild(walked)
       /\ job' = [job EXCEPT ![j] =
                    [Idle EXCEPT !.at = "ghosts", !.adds = live,
                                 !.dead = {<<p, [fingerprint(p) EXCEPT !.view = FALSE]>> :
                                             p \in walked \ live}]]
    /\ UNCHANGED <<truth, dirty, store, cache, bounds>>

\* A globally listed name that the walk found nowhere is a dead observation if
\* it is still nowhere.
FindGhosts(j) ==
    /\ job[j].at = "ghosts"
    /\ LET listed == IF json = None /\ html # None THEN views ELSE Names(json)
           walked == job[j].adds \cup {d[1] : d \in job[j].dead}
           ghosts == {p \in listed \ walked : fingerprint(p) = EmptyFingerprint} IN
       job' = [job EXCEPT ![j].at = "lock",
                          ![j].dead = @ \cup {<<p, EmptyFingerprint>> : p \in ghosts}]
    /\ UNCHANGED <<truth, views, dirty, store, cache, bounds>>

-----------------------------------------------------------------------------
(* update_global_index_locked, and its uncached sibling for a drain.       *)

Updating == Phases \ {"idle", "ghosts", "lock", "done"}

\* The name cache is a mutex that a node's tick and audit share.
Enter(j) ==
    /\ job[j].at = "lock"
    /\ \A k \in Jobs : Slot(k) = Slot(j) => job[k].at \notin Updating
    /\ job' = [job EXCEPT ![j].at = IF cache[Slot(j)] = None THEN "load" ELSE "apply"]
    /\ UNCHANGED <<truth, views, dirty, store, cache, bounds>>

\* Reload and try again, or give up with the markers kept.
Retry(j) ==
    IF job[j].tries + 1 < Attempts
    THEN [job[j] EXCEPT !.at = "load", !.tries = @ + 1, !.first = "none",
                        !.want = None, !.tag = None, !.jtag = None]
    ELSE Idle

Forget(j) == [cache EXCEPT ![Slot(j)] = None]

LoadJson(j) ==
    /\ job[j].at = "load"
    /\ job' = [job EXCEPT ![j].at = "html", ![j].base = json]
    /\ UNCHANGED <<truth, views, dirty, store, cache, bounds>>

\* An absent JSON under a published HTML is a torn pair, not an empty index.
LoadHtml(j) ==
    /\ job[j].at = "html"
    /\ LET stranded == job[j].base = None /\ html # None IN
       /\ cache' = [cache EXCEPT ![Slot(j)] =
                      [etag |-> Etag(job[j].base), names |-> Names(job[j].base),
                       html_etag |-> Etag(html), html_current |-> FALSE,
                       stranded |-> stranded]]
       /\ job' = [job EXCEPT ![j].at = IF stranded THEN "derive" ELSE "apply",
                             ![j].base = None]
    /\ UNCHANGED <<truth, views, dirty, store, bounds>>

\* derive_global_names: a package is listed exactly when its view exists.
DeriveNames(j) ==
    /\ job[j].at = "derive"
    /\ cache' = [cache EXCEPT ![Slot(j)].names = views]
    /\ job' = [job EXCEPT ![j].at = "apply"]
    /\ UNCHANGED <<truth, views, dirty, store, bounds>>

\* The dead observations that the listings still bear out.
Confirmed(j) == {d \in job[j].dead : fingerprint(d[1]) = d[2]}

\* Apply the delta to the cached names.  A dead observation is proved again
\* first; one that no longer holds earns a marker and is never tried again.
ApplyDelta(j) ==
    /\ job[j].at = "apply"
    /\ LET c == cache[Slot(j)]
           confirmed == Confirmed(j)
           names == (c.names \cup job[j].adds)
                      \ (job[j].removes \cup {d[1] : d \in confirmed})
           changed == names # c.names IN
       /\ dirty' = dirty \cup MarkDirty({d[1] : d \in job[j].dead \ confirmed})
       /\ cache' = [cache EXCEPT ![Slot(j)].names = names]
       /\ job' = [job EXCEPT ![j].dead = confirmed,
                             ![j].at = IF changed \/ c.stranded THEN "publish"
                                       ELSE IF Kind(j) = "drain" THEN "compare"
                                       ELSE "probe"]
    /\ UNCHANGED <<truth, views, store, bounds>>

\* Nothing changed against the cache: is the cache still the stored pair?  The
\* two HEADs run side by side; whichever is answered first is remembered.
ProbeFirst(j) ==
    /\ job[j].at = "probe"
    /\ job[j].first = "none"
    /\ \E which \in {"json", "html"} :
          job' = [job EXCEPT ![j].first = which,
                             ![j].tag = IF which = "json" THEN Etag(json) ELSE Etag(html)]
    /\ UNCHANGED <<truth, views, dirty, store, cache, bounds>>

ProbeSecond(j) ==
    /\ job[j].at = "probe"
    /\ job[j].first # "none"
    /\ LET json_etag == IF job[j].first = "json" THEN job[j].tag ELSE Etag(json)
           html_etag == IF job[j].first = "html" THEN job[j].tag ELSE Etag(html)
           c == cache[Slot(j)]
           moved == html_etag # c.html_etag
           stale == json_etag # c.etag \/ (json_etag = None /\ html_etag # None) IN
       /\ cache' = IF stale THEN Forget(j)
                   ELSE [cache EXCEPT ![Slot(j)].html_etag = html_etag,
                                      ![Slot(j)].html_current = @ /\ ~moved]
       /\ job' = [job EXCEPT ![j] =
                    IF stale THEN Retry(j)
                    ELSE [@ EXCEPT !.at = IF c.html_current /\ ~moved THEN "done" ELSE "compare",
                                   !.first = "none", !.tag = None]]
    /\ UNCHANGED <<truth, views, dirty, store, bounds>>

\* global_html_proved_current: the stamp names this very object and this very
\* name set.
Proved(c) == c.html_etag # None /\ stamp = [tag |-> c.html_etag, names |-> c.names]

\* Is the HTML a render of the names?  The stamp proves it, or the body does.
CompareHtml(j) ==
    /\ job[j].at = "compare"
    /\ LET c == cache[Slot(j)]
           current == Proved(c) \/ (IF html = None THEN c.names = {} ELSE html.names = c.names) IN
       /\ cache' = [cache EXCEPT ![Slot(j)].html_current = current]
       /\ job' = [job EXCEPT ![j].at = IF current THEN "done" ELSE "rewrite",
                             ![j].want = IF html = None THEN None ELSE c.html_etag]
    /\ UNCHANGED <<truth, views, dirty, store, bounds>>

\* Mutant of PutIfMatch: write blind.
PutBlind(object, expected) == TRUE

\* A conditional put: it lands only over the object the caller expects.
PutIfMatch(object, expected) == Etag(object) = expected

\* reconcile_global_html rewrites an HTML that renders other names.
RewriteHtml(j) ==
    /\ job[j].at = "rewrite"
    /\ IF PutIfMatch(html, job[j].want)
       THEN /\ html' = [tag |-> FreshTag, names |-> cache[Slot(j)].names]
            /\ job' = [job EXCEPT ![j].at = "stamp", ![j].tag = FreshTag, ![j].want = None]
            /\ UNCHANGED cache
       ELSE /\ cache' = Forget(j)
            /\ job' = [job EXCEPT ![j] = Retry(j)]
            /\ UNCHANGED html
    /\ UNCHANGED <<truth, views, dirty, json, stamp, bounds>>

\* write_global_indexes_cas: the derived HTML first, conditionally ...
PublishHtml(j) ==
    /\ job[j].at = "publish"
    /\ IF PutIfMatch(html, cache[Slot(j)].html_etag)
       THEN /\ html' = [tag |-> FreshTag, names |-> cache[Slot(j)].names]
            /\ job' = [job EXCEPT ![j].at = "canonical", ![j].tag = FreshTag]
            /\ UNCHANGED cache
       ELSE /\ cache' = Forget(j)
            /\ job' = [job EXCEPT ![j] = Retry(j)]
            /\ UNCHANGED html
    /\ UNCHANGED <<truth, views, dirty, json, stamp, bounds>>

\* ... then the canonical JSON, whose success is what counts.
PublishJson(j) ==
    /\ job[j].at = "canonical"
    /\ IF PutIfMatch(json, cache[Slot(j)].etag)
       THEN /\ json' = [tag |-> FreshTag, names |-> cache[Slot(j)].names]
            /\ job' = [job EXCEPT ![j].at = "stamp", ![j].jtag = FreshTag]
            /\ UNCHANGED cache
       ELSE /\ cache' = Forget(j)
            /\ job' = [job EXCEPT ![j] = Retry(j)]
            /\ UNCHANGED json
    /\ UNCHANGED <<truth, views, dirty, html, stamp, bounds>>

\* Mutant of StampedTag: probe the stored HTML again.
StampProbed(j) == Etag(html)

\* The tag that goes into the stamp: the one the job's own HTML write returned.
StampedTag(j) == job[j].tag

\* Record which object renders which names, and pin the cache to the tags that
\* the job's own writes returned.
WriteStamp(j) ==
    /\ job[j].at = "stamp"
    /\ stamp' = [tag |-> StampedTag(j), names |-> cache[Slot(j)].names]
    /\ LET c == cache[Slot(j)] IN
       cache' = [cache EXCEPT ![Slot(j)] =
                   [c EXCEPT !.etag = IF job[j].jtag = None THEN c.etag ELSE job[j].jtag,
                             !.html_etag = job[j].tag,
                             !.html_current = TRUE,
                             !.stranded = IF job[j].jtag = None THEN c.stranded ELSE FALSE]]
    /\ job' = [job EXCEPT ![j].at = "done", ![j].tag = None, ![j].jtag = None]
    /\ UNCHANGED <<truth, views, dirty, json, html, bounds>>

\* Markers go last, and only the keys that the job saw.
Consume(j) ==
    /\ job[j].at = "done"
    /\ dirty' = dirty \ job[j].keys
    /\ job' = [job EXCEPT ![j] = Idle]
    /\ cache' = IF Kind(j) = "drain" THEN Forget(j) ELSE cache
    /\ UNCHANGED <<truth, views, store, bounds>>

-----------------------------------------------------------------------------
(* Faults.                                                                 *)

\* A put that is in flight when its caller fails, dies or is cancelled may
\* still land.
InFlight(j) ==
    \/ UNCHANGED store
    \/ /\ job[j].at = "publish" \/ job[j].at = "rewrite"
       /\ PutIfMatch(html, IF job[j].at = "rewrite" THEN job[j].want
                           ELSE cache[Slot(j)].html_etag)
       /\ html' = [tag |-> FreshTag, names |-> cache[Slot(j)].names]
       /\ UNCHANGED <<json, stamp>>
    \/ /\ job[j].at = "canonical"
       /\ PutIfMatch(json, cache[Slot(j)].etag)
       /\ json' = [tag |-> FreshTag, names |-> cache[Slot(j)].names]
       /\ UNCHANGED <<html, stamp>>

\* A storage call fails: the job ends, its markers stay, and update_global_index_inner
\* drops the cache.
CallFails(j) ==
    /\ faults < MaxFaults
    /\ job[j].at \in Updating
    /\ faults' = faults + 1
    /\ InFlight(j)
    /\ cache' = Forget(j)
    /\ job' = [job EXCEPT ![j] = Idle]
    /\ UNCHANGED <<fleet, truth, views, dirty, changes>>

\* A node dies with its caches; one of its puts may land afterwards.
Crash(n) ==
    /\ faults < MaxFaults
    /\ \E j \in Jobs : Node(j) = n /\ job[j].at # "idle" /\ InFlight(j)
    /\ faults' = faults + 1
    /\ job' = [j \in Jobs |-> IF Node(j) = n THEN Idle ELSE job[j]]
    /\ cache' = [s \in Slots |->
                   IF s = n \/ (s \in Jobs /\ Node(s) = n) THEN None ELSE cache[s]]
    /\ UNCHANGED <<fleet, truth, views, dirty, changes>>

-----------------------------------------------------------------------------

Step(j) ==
    \/ Drain(j) \/ Walk(j) \/ FindGhosts(j) \/ Enter(j)
    \/ LoadJson(j) \/ LoadHtml(j) \/ DeriveNames(j) \/ ApplyDelta(j)
    \/ ProbeFirst(j) \/ ProbeSecond(j) \/ CompareHtml(j) \/ RewriteHtml(j)
    \/ PublishHtml(j) \/ PublishJson(j) \/ WriteStamp(j) \/ Consume(j)

Next ==
    \/ \E p \in Packages : Claim(p) \/ Change(p) \/ Vanish(p)
    \/ \E j \in fleet : Step(j) \/ CallFails(j)
    \/ \E n \in Nodes : Crash(n)

Spec == Init /\ [][Next]_vars

\* The worker loop ticks again and again and audits on its interval; the name
\* lock is handed out in the order of arrival.
Fairness ==
    \A j \in Jobs : WF_vars(j \in fleet /\ Step(j)) /\ SF_vars(j \in fleet /\ Enter(j))

LiveSpec == Spec /\ Fairness

-----------------------------------------------------------------------------
(* Properties.                                                             *)

\* "A durable false proof" never stands (global_html_proved_current, the stamp
\* of write_global_html_stamp): whenever the stamp names the stored HTML object,
\* that object renders exactly the names of the stamp.  Two publishers, a lost
\* JSON write and a crash between the writes of the pair all try to break it.
StampSound ==
    stamp # None /\ html # None /\ stamp.tag = html.tag => stamp.names = html.names

\* The invariant of update_global_index_inner: "the cached name set must never
\* outlive a write we could not prove landed".  Outside an update, a cache that
\* is pinned to the stored JSON holds the names of that JSON, so that a delta
\* that the cache swallows is one that the index already shows.
CacheSound ==
    \A n \in Nodes :
       /\ cache[n] # None
       /\ \A j \in Jobs : Node(j) = n /\ Kind(j) # "drain" => job[j].at \notin Updating
       /\ cache[n].etag = Etag(json)
       /\ ~(json = None /\ html # None)
       => cache[n].names = Names(json)

\* What the index is at any moment, for every writer of update_global_index: well
\* typed, with no false proof and no cache that hides a delta.
IndexSound == TypeOK /\ StampSound /\ CacheSound

\* Nobody's change is lost to a concurrent writer: every write of the canonical
\* JSON is one job's delta applied to the names that are stored at that moment,
\* or, where the JSON was absent under an HTML, to names derived from views.
Register == INSTANCE NameRegister WITH
    Members <- Packages, Writers <- Jobs,
    listed <- IF json = None THEN None ELSE json.names,
    delta <- [j \in Jobs |-> [adds |-> job[j].adds, removes |-> job[j].removes,
                              dead |-> {d[1] : d \in job[j].dead}]]
MergesOnly == Register!Spec

\* Once packages stop changing, the JSON and the HTML come to list exactly the
\* packages with artifacts and stay so, whatever crashed before, as long as
\* somebody audits: two leaders may leave a stale assertion that no marker heals.
Audited == \E j \in fleet : Kind(j) = "audit"
Live == {p \in Packages : truth[p] = "live"}
Settles == Audited => <>[](Names(json) = Live /\ Names(html) = Live /\ views = Live)
=============================================================================
