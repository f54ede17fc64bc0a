------------------------------- MODULE Sync -------------------------------
(***************************************************************************)
(* `pypiron sync` (src/src/sync.rs): runs that copy projects from an       *)
(* upstream index to a destination server over HTTP.  A run replays the    *)
(* listing ETag it finds in the destination's cursor memo, and skips the   *)
(* whole project on a 304; so the memo decides what is never looked at     *)
(* again.  Modelled: the memo and its conditional save, the conditional    *)
(* fetch and its gates, selection and the cooldown watermark, uploads,     *)
(* yank reconciliation and status relay against the destination's          *)
(* materialised index, the failures of each call, and --full.              *)
(***************************************************************************)
EXTENDS Naturals, FiniteSets, TLC, Functions, FiniteSetsExt

CONSTANTS
    Clients,     \* sync runs that may overlap
    Mirrored,    \* projects
    Dists,       \* a project's file names
    Filters,     \* the run configurations, as the files each may select
    Cooldown,    \* --exclude-newer, in days
    LastDay,     \* bound: the clock
    Chapters     \* bounds: the histories considered, each [lists: Clients ->
                 \* projects, filters used, days, changes, advisories, drifts, faults,
                 \* fulls: bounds on the events, endpoint: does the destination serve /sync/local-index]

ASSUME SyncAssumption ==
    /\ Cooldown \in Nat /\ LastDay \in Nat
    /\ \A k \in Filters : k \subseteq Dists
    /\ \A c \in Chapters :
          /\ c.lists \in [Clients -> SUBSET Mirrored] /\ c.days <= LastDay /\ Dists \in c.filters /\ c.filters \subseteq Filters
          /\ \A d, e \in Clients : d # e => c.lists[d] \cap c.lists[e] = {}

VARIABLES
    chapter, spare,  \* the bounds of this history and what is left of them
    wall,           \* the wall clock
    upstream,        \* project -> [rev, files: name -> [yanked, on], status]
    fixes,           \* project -> file -> day an advisory named its release as a fix
    held,            \* project -> name -> yank state, the destination's sidecars
    frozen,          \* project -> does the destination's status block downloads
    index,           \* project -> [files, frozen], as last materialised
    memo,            \* the stored cursors: project -> entry [etag, config, next]; lag (a
                     \* ghost) tells that its run read an index the worker had yet to rebuild
    sync,            \* per client: its run
    drifted          \* projects edited by hand at the destination since

syncVars == <<chapter, spare, wall, upstream, fixes, held, frozen, index, memo, sync, drifted>>
destVars == <<held, frozen, index>>
worldVars == <<chapter, wall, upstream, fixes>>

Idling == [at |-> "idle"]
NoFiles == [f \in {} |-> TRUE]
NoUpdate == [p \in {} |-> {}]
Tracked == UNION {chapter.lists[c] : c \in Clients}
Spend(what) == spare[what] > 0 /\ spare' = [spare EXCEPT ![what] = @ - 1]

(* What the listing shows: a quarantined project offers no files. *)
Offered(p) == IF upstream[p].status = "quarantined" THEN NoFiles ELSE upstream[p].files
Rendered(p) == [files |-> IF frozen[p] THEN NoFiles ELSE held[p], frozen |-> frozen[p]]

SyncInit ==
    /\ chapter \in Chapters
    /\ spare = [changes |-> chapter.changes, advisories |-> chapter.advisories,
                drifts |-> chapter.drifts, faults |-> chapter.faults, fulls |-> chapter.fulls]
    /\ wall = 0
    /\ upstream = [p \in Mirrored |-> [rev |-> 0, files |-> NoFiles, status |-> "active"]]
    /\ fixes = [p \in Mirrored |-> NoFiles]
    /\ held = [p \in Mirrored |-> NoFiles]
    /\ frozen = [p \in Mirrored |-> FALSE]
    /\ index = [p \in Mirrored |-> [files |-> NoFiles, frozen |-> FALSE]]
    /\ memo = [p \in {} |-> TRUE]
    /\ sync = [c \in Clients |-> Idling]
    /\ drifted = {}

----------------------------------------------------------------------------
(* The world: upstream publishes, yanks, removes and freezes; the clock and *)
(* the advisory feed move; the destination's worker materialises; an admin  *)
(* edits the destination by hand.                                           *)
Edited(p) ==
    {[upstream[p] EXCEPT !.files = (f :> [yanked |-> FALSE, on |-> wall]) @@ @]
        : f \in Dists \ DOMAIN upstream[p].files}
    \cup {[upstream[p] EXCEPT !.files[f].yanked = ~ @] : f \in DOMAIN upstream[p].files}
    \cup {[upstream[p] EXCEPT !.files = Restrict(@, DOMAIN @ \ {f})] : f \in DOMAIN upstream[p].files}
    \cup {[upstream[p] EXCEPT !.status = s] : s \in {"active", "quarantined", "unreadable"} \ {upstream[p].status}}
ChangeUpstream(p) ==
    /\ Spend("changes")
    /\ \E u \in Edited(p) : upstream' = [upstream EXCEPT ![p] = [u EXCEPT !.rev = @ + 1]]
    /\ UNCHANGED <<chapter, wall, fixes, held, frozen, index, memo, sync, drifted>>
DayPasses ==
    /\ wall < chapter.days /\ wall' = wall + 1
    /\ UNCHANGED <<chapter, spare, upstream, fixes, held, frozen, index, memo, sync, drifted>>
PublishFix(p) ==
    /\ Spend("advisories")
    /\ \E f \in Dists : fixes' = [fixes EXCEPT ![p] = (f :> wall) @@ @]   \* perhaps not out yet
    /\ UNCHANGED <<chapter, wall, upstream, held, frozen, index, memo, sync, drifted>>
Materialise(p) ==
    /\ index[p] # Rendered(p)
    /\ index' = [index EXCEPT ![p] = Rendered(p)]
    /\ UNCHANGED <<chapter, spare, wall, upstream, fixes, held, frozen, memo, sync, drifted>>
EditByHand(p) ==
    /\ Spend("drifts")
    /\ \A c \in Clients : p \in chapter.lists[c] => sync[c] = Idling   \* not under a run
    /\ drifted' = drifted \cup {p}
    /\ \/ frozen' = [frozen EXCEPT ![p] = ~ @] /\ UNCHANGED held
       \/ /\ \E f \in DOMAIN held[p] :
                held' = [held EXCEPT ![p][f] = IF @ = "no" THEN "yes" ELSE "no"]
          /\ UNCHANGED frozen
    /\ UNCHANGED <<chapter, wall, upstream, fixes, index, memo, sync>>

----------------------------------------------------------------------------
(* Selection: the filters and, unless a fix advisory lifts it, the cooldown. *)
InCooldown(p, f) == upstream[p].files[f].on + Cooldown >= wall
Admitted(p, k, feed) ==
    {f \in DOMAIN Offered(p) : f \in k /\ (InCooldown(p, f) => feed /\ f \in DOMAIN fixes[p])}
Watermark(p, k, feed) ==
    LET waiting == {f \in DOMAIN Offered(p) : f \in k /\ f \notin Admitted(p, k, feed)}
    IN  IF waiting = {} THEN LastDay + 1
        ELSE Min({upstream[p].files[f].on : f \in waiting})

(* The ETag is replayed only for the configuration that stored it, while no *)
(* held-back file can have aged in and no young fix advisory names the      *)
(* project.                                                                 *)
recent_fix(p, feed) == feed /\ \E f \in DOMAIN fixes[p] : fixes[p][f] + Cooldown >= wall
Replayed(p, k, feed, e) ==
    /\ e.config = k
    /\ e.next = LastDay + 1 \/ wall < e.next + Cooldown
    /\ ~ recent_fix(p, feed)

----------------------------------------------------------------------------
(* run_sync: preflight, the feed, the memo, then the projects. *)
BeginRun(c, k, full) ==
    /\ sync[c] = Idling /\ chapter.lists[c] # {}
    /\ \/ ~ full /\ UNCHANGED spare
       \/ full /\ Spend("fulls")
    /\ sync' = [sync EXCEPT ![c] =
           [at |-> "pick", filter |-> k, full |-> full, feed |-> TRUE,
            loaded |-> IF full THEN [p \in {} |-> TRUE] ELSE memo,
            todo |-> chapter.lists[c], on |-> "none", updates |-> NoUpdate]]
    /\ UNCHANGED <<chapter, wall, upstream, fixes, destVars, memo, drifted>>
(* Neither the advisory feed nor the memo fails a run. *)
LoseFeedOrMemo(c) ==
    /\ sync[c].at = "pick" /\ sync[c].todo = chapter.lists[c] /\ Spend("faults")
    /\ sync' = [sync EXCEPT ![c].feed = FALSE, ![c].loaded = [p \in {} |-> TRUE]]
    /\ UNCHANGED <<chapter, wall, upstream, fixes, destVars, memo, drifted>>

Fetched(c, p) ==
    LET s == sync[c]
    IN  [s EXCEPT !.at = "local", !.on = p] @@
        [rev |-> upstream[p].rev, listing |-> Offered(p), verdict |-> upstream[p].status,
         chosen |-> Admitted(p, s.filter, s.feed), next |-> Watermark(p, s.filter, s.feed),
         local |-> [files |-> NoFiles, frozen |-> FALSE], known |-> FALSE, errors |-> FALSE,
         lag |-> FALSE]

(* What a project leaves behind: nothing, or an update of its cursor - the  *)
(* set of the entry to store, empty to drop the stored one.                 *)
Leave(s, p, update) ==
    [at |-> "pick", filter |-> s.filter, full |-> s.full, feed |-> s.feed, loaded |-> s.loaded,
     todo |-> s.todo \ {p}, on |-> "none",
     updates |-> update @@ s.updates]
Failed(s) == Leave(s, s.on, IF s.full THEN s.on :> {} ELSE NoUpdate)

(* sync_one_package: the conditional fetch.  A 304 ends it. *)
FetchListing(c) ==
    /\ sync[c].at = "pick"
    /\ \E p \in sync[c].todo :
          LET s == sync[c]
              replay == p \in DOMAIN s.loaded /\ Replayed(p, s.filter, s.feed, s.loaded[p])
          IN  \/ /\ replay /\ s.loaded[p].etag = upstream[p].rev
                 /\ sync' = [sync EXCEPT ![c] = Leave(s, p, IF s.full THEN p :> {} ELSE NoUpdate)]
                 /\ UNCHANGED spare
              \/ /\ ~ (replay /\ s.loaded[p].etag = upstream[p].rev)
                 /\ sync' = [sync EXCEPT ![c] = Fetched(c, p)]
                 /\ UNCHANGED spare
              \/ /\ Spend("faults")
                 /\ sync' = [sync EXCEPT ![c] = Failed([s EXCEPT !.on = p])]
    /\ UNCHANGED <<worldVars, destVars, memo, drifted>>

(* The destination's own index: the worker may not have rebuilt it yet. *)
ReadLocalIndex(c) ==
    /\ sync[c].at = "local"
    /\ \/ /\ sync' = [sync EXCEPT ![c].at = "upload", ![c].known = chapter.endpoint,
                          ![c].local = IF chapter.endpoint THEN index[sync[c].on] ELSE @,
                          ![c].lag = index[sync[c].on] # Rendered(sync[c].on)]
          /\ UNCHANGED spare
       \/ /\ Spend("faults")
          /\ sync' = [sync EXCEPT ![c].at = "upload", ![c].errors = TRUE]
    /\ UNCHANGED <<worldVars, destVars, memo, drifted>>

(* Files the index lists are skipped; one the destination holds anyway is   *)
(* a 409 that counts as present; a new one brings its yank with it.         *)
Yank(listing, f) == IF f \notin DOMAIN listing THEN "removed"
                    ELSE IF listing[f].yanked THEN "yes" ELSE "no"
UploadFiles(c) ==
    /\ sync[c].at = "upload"
    /\ LET s == sync[c]
           new == (s.chosen \ DOMAIN s.local.files) \ DOMAIN held[s.on]
       IN  \E lost \in SUBSET new :
              /\ IF lost = {} THEN UNCHANGED spare ELSE Cardinality(lost) = 1 /\ Spend("faults")
              /\ held' = [held EXCEPT ![s.on] = [f \in new \ lost |-> Yank(s.listing, f)] @@ @]
              /\ sync' = [sync EXCEPT ![c].at = "reconcile", ![c].errors = @ \/ lost # {}]
    /\ UNCHANGED <<worldVars, frozen, index, memo, drifted>>

(* reconcile_yanks, against the index read: skipped while either side is    *)
(* quarantined.  It stops at the first call that fails.                     *)
Drift(s) ==
    IF s.known /\ s.verdict # "quarantined" /\ ~ s.local.frozen
    THEN {f \in DOMAIN s.local.files : s.local.files[f] # Yank(s.listing, f)} ELSE {}
ReconcileYanks(c) ==
    /\ sync[c].at = "reconcile"
    /\ LET s == sync[c]
       IN  \E done \in SUBSET Drift(s) :
              /\ IF done = Drift(s) THEN UNCHANGED spare ELSE Spend("faults")
              /\ held' = [held EXCEPT ![s.on] =
                     [f \in done \cap DOMAIN @ |-> Yank(s.listing, f)] @@ @]
              /\ sync' = [sync EXCEPT ![c].at = "relay", ![c].errors = @ \/ done # Drift(s)]
    /\ UNCHANGED <<worldVars, frozen, index, memo, drifted>>

(* relay_status: what the listing says, if the index read says otherwise;   *)
(* an unreadable verdict changes nothing.                                   *)
Relayable(s) == s.known /\ s.verdict # "unreadable"
(* The cursor waits when the run could not reconcile all it should have.    *)
HeldNow(s) ==
    \/ s.verdict = "unreadable"
    \/ s.known /\ s.verdict # "quarantined" /\ s.local.frozen
NewCursor(s) ==
    IF HeldNow(s) THEN (IF s.full THEN s.on :> {} ELSE NoUpdate)
    ELSE s.on :> {[etag |-> s.rev, config |-> s.filter, next |-> s.next, lag |-> s.lag]}
Unclean(s, refused) ==
    s.errors \/ refused \/ (~ s.known /\ s.verdict = "quarantined")
RelayStatus(c) ==
    /\ sync[c].at = "relay"
    /\ LET s == sync[c]
           wanted == s.verdict = "quarantined"
           writes == Relayable(s) /\ s.local.frozen # wanted
       IN  \E refused \in BOOLEAN :
              /\ IF refused THEN writes /\ Spend("faults") ELSE UNCHANGED spare
              /\ frozen' = IF writes /\ ~ refused THEN [frozen EXCEPT ![s.on] = wanted] ELSE frozen
              /\ sync' = [sync EXCEPT ![c] = IF Unclean(s, refused) THEN Failed(s)
                                            ELSE Leave(s, s.on, NewCursor(s))]
    /\ UNCHANGED <<worldVars, held, index, memo, drifted>>

(* save_cursors: a fresh read, this run's updates merged in, an If-Match    *)
(* write; a lost race reads again, a failed call gives up.                  *)
merge_cursors(stored, updates) ==
    LET kept == {p \in DOMAIN stored \cup DOMAIN updates :
                    p \in DOMAIN updates => updates[p] # {}}
    IN  [p \in kept |-> IF p \in DOMAIN updates THEN CHOOSE e \in updates[p] : TRUE ELSE stored[p]]
ReadMemo(c) ==
    /\ sync[c].at = "pick" /\ sync[c].todo = {}
    /\ IF sync[c].updates = NoUpdate
       THEN sync' = [sync EXCEPT ![c] = Idling]
       ELSE sync' = [sync EXCEPT ![c] = [at |-> "save", stored |-> memo, full |-> @.full,
                                         updates |-> @.updates]]
    /\ UNCHANGED <<worldVars, spare, destVars, memo, drifted>>
IfMatch(c) == memo = sync[c].stored
SaveMemo(c) ==
    /\ sync[c].at = "save"
    /\ \/ /\ IfMatch(c)
          /\ memo' = merge_cursors(sync[c].stored, sync[c].updates)
          /\ drifted' = IF sync[c].full THEN drifted \ DOMAIN sync[c].updates ELSE drifted
          /\ sync' = [sync EXCEPT ![c] = Idling]
          /\ UNCHANGED spare
       \/ /\ ~ IfMatch(c)
          /\ sync' = [sync EXCEPT ![c].stored = memo]
          /\ UNCHANGED <<memo, drifted, spare>>
       \/ /\ Spend("faults")
          /\ sync' = [sync EXCEPT ![c] = Idling]
          /\ UNCHANGED <<memo, drifted>>
    /\ UNCHANGED <<worldVars, destVars>>

(* The client dies; what it sent stays. *)
KillRun(c) ==
    /\ sync[c] # Idling /\ Spend("faults")
    /\ sync' = [sync EXCEPT ![c] = Idling]
    /\ UNCHANGED <<worldVars, destVars, memo, drifted>>

RunStep(c) ==
    \/ FetchListing(c) \/ ReadLocalIndex(c) \/ UploadFiles(c)
    \/ ReconcileYanks(c) \/ RelayStatus(c) \/ ReadMemo(c) \/ SaveMemo(c)
SyncNext ==
    \/ \E p \in Tracked : ChangeUpstream(p) \/ PublishFix(p) \/ Materialise(p) \/ EditByHand(p)
    \/ DayPasses
    \/ \E c \in Clients :
          \/ \E k \in chapter.filters, full \in BOOLEAN : BeginRun(c, k, full)
          \/ LoseFeedOrMemo(c) \/ KillRun(c) \/ RunStep(c)

(* The widest run is made again and again (a cron job, between whatever     *)
(* other runs are made), a run ends, the worker keeps the index, the clock  *)
(* goes on.                                                                 *)
SyncFairness ==
    /\ \A c \in Clients : WF_syncVars(RunStep(c)) /\ SF_syncVars(BeginRun(c, Dists, FALSE))
    /\ \A p \in Mirrored : WF_syncVars(Materialise(p))
    /\ WF_syncVars(DayPasses)
SyncSpec == SyncInit /\ [][SyncNext]_syncVars /\ SyncFairness

----------------------------------------------------------------------------
(* Types: the destination's files have a yank state of the three, and every *)
(* stored cursor names a listing upstream has served.                       *)
SyncTypeOK ==
    /\ \A p \in Mirrored :
          /\ DOMAIN held[p] \subseteq Dists
          /\ \A f \in DOMAIN held[p] : held[p][f] \in {"no", "yes", "removed"}
    /\ DOMAIN memo \subseteq Mirrored
    /\ \A p \in DOMAIN memo : memo[p].etag \in 0 .. upstream[p].rev /\ memo[p].config \in Filters

(* Files inside the cooldown that only an advisory older than it lets in:   *)
(* a run without the feed passes them by, and fix_since then looks only at  *)
(* young advisories, so they wait for the cooldown like any other.          *)
OldFixes(p) == {f \in DOMAIN Offered(p) \cap DOMAIN fixes[p] :
                   InCooldown(p, f) /\ fixes[p][f] + Cooldown < wall}
(* Nothing is left to do for project p under configuration k. *)
UpToDate(p, k) ==
    /\ Admitted(p, k, TRUE) \ OldFixes(p) \subseteq DOMAIN held[p]
    /\ upstream[p].status = "quarantined" => frozen[p]
    /\ chapter.endpoint /\ upstream[p].status = "active" =>
          /\ ~ frozen[p]
          /\ \A f \in DOMAIN held[p] : held[p][f] = Yank(Offered(p), f)

(* "The memo only ever speeds a run up, never changes its result": whenever *)
(* a run could be answered 304 for a project, an unconditional run would    *)
(* find nothing to do there - through filter changes, files ageing out of   *)
(* the cooldown, fix advisories, failed calls, killed runs, lost saves and  *)
(* overlapping runs.  The code keeps that promise with three exceptions,    *)
(* which the formula names: a project edited by hand, until a --full run    *)
(* has been saved; a cursor whose run read an index behind the files (a     *)
(* file the index does not list yet is a 409, and its yank goes unseen);    *)
(* and the files of OldFixes.                                               *)
SkipIsSafe ==
    \A p \in DOMAIN memo, k \in Filters :
        /\ memo[p].etag = upstream[p].rev /\ p \notin drifted /\ ~ memo[p].lag
        /\ memo[p].config = k
        /\ memo[p].next = LastDay + 1 \/ wall < memo[p].next + Cooldown
        /\ ~ recent_fix(p, TRUE)
        => UpToDate(p, k)

(* An unreadable upstream verdict never lifts a freeze, and no run lifts    *)
(* one on an empty quarantined listing: a freeze at the destination ends    *)
(* only by hand or on an upstream listing served as active.                 *)
FreezeLiftedOnlyOnVerdict ==
    [][\A p \in Mirrored :
          frozen[p] /\ ~ frozen'[p] =>
              \/ drifted' # drifted \/ spare'.drifts < spare.drifts
              \/ \E c \in Clients : sync[c].at = "relay" /\ sync[c].on = p /\ sync[c].verdict = "active"
      ]_syncVars

=============================================================================
