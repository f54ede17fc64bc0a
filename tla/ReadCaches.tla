----------------------------- MODULE ReadCaches -----------------------------
(***************************************************************************)
(* The in-memory caches of the read path, one key of one cache at a time:  *)
(*   "index"    IndexCache (cache.rs): stale-while-revalidate, one refill  *)
(*              claim per key, a hard drop on invalidation;                *)
(*   "page"     ProjectCache (project_cache.rs): render tokens that an     *)
(*              invalidation or a bucket switch revokes;                   *)
(*   "verdict"  PresignCache (cache.rs): signed URLs and marker verdicts,  *)
(*              no claims;                                                 *)
(*   "browser"  the /projects/ slot (app.rs, pages.rs): stamped with its   *)
(*              generation, cold renders queue on one permit;              *)
(*   "stats"    the counter caches (admin.rs): no generation at all, so a *)
(*              cached answer outlives a switch until its TTL.             *)
(* Generation g of the bucket selection reads bucket g.  Requests pin a    *)
(* generation when they arrive and keep it across every await, so requests *)
(* of several generations meet in one cache.  The bytes of a bucket are a  *)
(* version number: a rewrite by this node is followed by an invalidation,  *)
(* a rewrite by a peer is not.  Time appears as Expire.                    *)
(***************************************************************************)
EXTENDS Naturals, FiniteSets

CONSTANTS Readers,      \* concurrent requests for the key
          CacheKinds,   \* the caches a behaviour may be about
          Generations,  \* an initial segment of Nat: the selections of a run
          MaxVersions,  \* bound: rewrites of a bucket
          MaxFaults,    \* bound: failed loads and abandoned requests
          Empty         \* no entry, no claim

VARIABLES kind,      \* the cache this behaviour is about
          selection, \* the published selection generation
          stored,    \* stored[g]: the version bucket g holds
          rewriting, \* this node's rewrite whose invalidation is due, or Empty
          dropped,   \* dropped[g]: newest version this node wrote and invalidated
          slot,      \* the cached entry, or Empty
          adopted,   \* Entries.generation
          claims,    \* refilling: the current claim or token, or Empty
          reqs,      \* the requests
          faults

cacheVars == <<kind, selection, stored, rewriting, dropped, slot, adopted,
               claims, reqs, faults>>

Tokens == 1..(Cardinality(Readers) + 1)

Entry(v, g) == [version |-> v, from |-> g, fresh |-> TRUE]

Idle == [at |-> "idle", gen |-> 0, claim |-> Empty, saw |-> Empty]

CachesTypeOK ==
  /\ kind \in CacheKinds /\ selection \in Generations
  /\ stored \in [Generations -> 0..MaxVersions]
  /\ dropped \in [Generations -> 0..MaxVersions]
  /\ rewriting = Empty \/ rewriting \in [gen: Generations, version: 0..MaxVersions]
  /\ slot = Empty \/ slot \in [version: 0..MaxVersions, from: Generations,
                               fresh: BOOLEAN]
  /\ adopted \in Generations
  /\ claims = Empty \/ claims \in Tokens
  \* Every claim and every token has a request behind it: none is stranded.
  /\ claims # Empty => \E r \in Readers : reqs[r].claim = claims
  /\ \A r \in Readers : /\ reqs[r].at \in {"idle", "pinned", "load", "loaded",
                                           "inserted", "done"}
                        /\ reqs[r].at = "done" =>
                             reqs[r].saw \in [version: 0..MaxVersions,
                                              from: Generations]

CachesInit ==
  /\ kind \in CacheKinds
  /\ selection = 0 /\ adopted = 0
  /\ stored = [g \in Generations |-> 0]
  /\ dropped = [g \in Generations |-> 0]
  /\ rewriting = Empty /\ slot = Empty /\ claims = Empty
  /\ reqs = [r \in Readers |-> Idle]
  /\ faults = 0

-----------------------------------------------------------------------------
(* The caches' own steps, each under one lock.                             *)

\* Does this cache clear itself for a request of generation g?  The index and
\* verdict caches adopt any other generation, the page cache only a newer one.
Reconciles(g) ==
  CASE kind \in {"index", "verdict"} -> g # adopted
    [] kind = "page"                 -> g > adopted
    [] OTHER                         -> FALSE

\* What a lookup of generation g finds, after the reconciliation.
Found(g) == IF Reconciles(g) THEN Empty ELSE slot
Adopted(g) == IF Reconciles(g) THEN g ELSE adopted
ClaimAfter(g) == IF Reconciles(g) THEN Empty ELSE claims

\* (A read that serves whatever is there.)
\* An entry the request of generation g may be answered with as it stands:
\* a fresh one, or a lapsed one that somebody is refilling already.
IndexWarm(g, e) == e.fresh \/ ClaimAfter(g) # Empty
PageWarm(g, e) == g >= adopted /\ (e.fresh \/ ClaimAfter(g) # Empty)
VerdictWarm(e) == e.fresh
BrowserWarm(g, e) == e.from = g /\ e.fresh
StatsWarm(e) == e.fresh

Warm(g, e) ==
  /\ e # Empty
  /\ CASE kind = "index"   -> IndexWarm(g, e)
       [] kind = "page"    -> PageWarm(g, e)
       [] kind = "verdict" -> VerdictWarm(e)
       [] kind = "browser" -> BrowserWarm(g, e)
       [] OTHER            -> StatsWarm(e)

\* A miss that claims: the index cache only for an expired entry nobody is
\* refilling, the page cache also for a cold key, the browser slot always (its
\* permit), the rest never.
Claims(g, e) ==
  CASE kind = "index"   -> e # Empty
    [] kind = "page"    -> g >= adopted
    [] kind = "browser" -> TRUE
    [] OTHER            -> FALSE

\* A token (an Arc of its own) that no live request holds.
NewToken == CHOOSE n \in Tokens : \A r \in Readers : reqs[r].claim # n

\* Cold readers of a page share the token that stands.
SharedToken(g) == kind = "page" /\ ClaimAfter(g) # Empty

Set(r, rec) == reqs' = [reqs EXCEPT ![r] = rec]

\* A request pins the selection it will use throughout.
Arrive(r) ==
  /\ reqs[r].at = "idle"
  /\ Set(r, [Idle EXCEPT !.at = "pinned", !.gen = selection])
  /\ UNCHANGED <<kind, selection, stored, rewriting, dropped, slot, adopted,
                 claims, faults>>

\* The lookup under the lock answers, ...
Hit(r) ==
  LET g == reqs[r].gen IN
  /\ reqs[r].at = "pinned" /\ Warm(g, Found(g))
  /\ slot' = Found(g) /\ adopted' = Adopted(g) /\ claims' = ClaimAfter(g)
  /\ Set(r, [reqs[r] EXCEPT !.at = "done",
                            !.saw = [version |-> slot.version, from |-> slot.from]])
  /\ UNCHANGED <<kind, selection, stored, rewriting, dropped, faults>>

\* ... or sends the request to storage, with a claim where the cache gives one.
\* The browser's permit is waited for, and the slot looked at again.
Miss(r) ==
  LET g == reqs[r].gen  e == Found(g)
      claiming == Claims(g, e)
      token == IF SharedToken(g) THEN claims ELSE NewToken IN
  /\ reqs[r].at = "pinned" /\ ~ Warm(g, e)
  /\ kind = "browser" => claims = Empty
  /\ slot' = e /\ adopted' = Adopted(g)
  /\ claims' = IF claiming THEN token ELSE ClaimAfter(g)
  /\ Set(r, [reqs[r] EXCEPT !.at = "load",
                            !.claim = IF claiming THEN token ELSE Empty])
  /\ UNCHANGED <<kind, selection, stored, rewriting, dropped, faults>>

\* The storage read, or the render, from the pinned bucket; the counters' query
\* pins the selection of its own time.
Load(r) ==
  LET g == IF kind = "stats" THEN selection ELSE reqs[r].gen IN
  /\ reqs[r].at = "load"
  /\ Set(r, [reqs[r] EXCEPT !.at = "loaded", !.saw = [version |-> stored[g], from |-> g]])
  /\ UNCHANGED <<kind, selection, stored, rewriting, dropped, slot, adopted,
                 claims, faults>>

\* May the loaded bytes enter the cache?  A page only under a token that still
\* stands.
Puts(r) == kind = "page" => reqs[r].claim # Empty /\ reqs[r].claim = claims

\* The insertion.  A page's token is consumed by the same lock.
Insert(r) ==
  LET g == reqs[r].gen IN
  /\ reqs[r].at = "loaded"
  /\ IF Puts(r)
     THEN /\ slot' = Entry(reqs[r].saw.version, reqs[r].saw.from)
          /\ adopted' = Adopted(g)
          /\ claims' = IF kind = "page" THEN Empty ELSE ClaimAfter(g)
     ELSE UNCHANGED <<slot, adopted, claims>>
  /\ Set(r, [reqs[r] EXCEPT !.at = "inserted"])
  /\ UNCHANGED <<kind, selection, stored, rewriting, dropped, faults>>

\* What dropping a request's guard leaves of the claims: the index's guard
\* removes whatever claim stands, the page's only its own token when no other
\* reader shares it, the browser's permit is given back.
Abandoned(r) == claims
Released(r) ==
  IF reqs[r].claim = Empty THEN claims
  ELSE IF kind # "page" THEN Empty
  ELSE IF /\ claims = reqs[r].claim
          /\ \A q \in Readers \ {r} : reqs[q].claim # claims
       THEN Empty ELSE claims

\* The guard drops once the request has its answer, ...
Release(r) ==
  /\ reqs[r].at = "inserted"
  /\ claims' = Released(r)
  /\ Set(r, [reqs[r] EXCEPT !.at = "done", !.claim = Empty])
  /\ UNCHANGED <<kind, selection, stored, rewriting, dropped, slot, adopted,
                 faults>>

\* ... and when the load fails or the client goes away before the insertion.
Abort(r) ==
  /\ reqs[r].at \in {"load", "loaded"} /\ faults < MaxFaults
  /\ claims' = Released(r)
  /\ Set(r, Idle)
  /\ faults' = faults + 1
  /\ UNCHANGED <<kind, selection, stored, rewriting, dropped, slot, adopted>>

Finish(r) ==
  /\ reqs[r].at = "done" /\ Set(r, Idle)
  /\ UNCHANGED <<kind, selection, stored, rewriting, dropped, slot, adopted,
                 claims, faults>>

\* The entry outlives its TTL.
Expire ==
  /\ slot # Empty /\ slot.fresh
  /\ slot' = [slot EXCEPT !.fresh = FALSE]
  /\ UNCHANGED <<kind, selection, stored, rewriting, dropped, adopted, claims,
                 reqs, faults>>

\* Another key's insertion passed the ceiling and cleared the map; the claims
\* are kept.
Evict ==
  /\ slot # Empty /\ kind # "browser"
  /\ slot' = Empty
  /\ UNCHANGED <<kind, selection, stored, rewriting, dropped, adopted, claims,
                 reqs, faults>>

-----------------------------------------------------------------------------
(* The writers and the selection.                                          *)

\* This node rewrites bucket g (the pin of its own pass, perhaps not the newest).
RewriteHere(g) ==
  /\ rewriting = Empty /\ stored[g] < MaxVersions /\ g <= selection
  /\ stored' = [stored EXCEPT ![g] = @ + 1]
  /\ rewriting' = [gen |-> g, version |-> stored[g] + 1]
  /\ UNCHANGED <<kind, selection, dropped, slot, adopted, claims, reqs,
                 faults>>

\* What an invalidation leaves of the claims: the page cache revokes the token.
KeepToken == claims
Revoked == IF kind = "page" THEN Empty ELSE claims

\* The invalidation that follows: a hard drop.
Invalidate ==
  /\ rewriting # Empty
  /\ slot' = Empty
  /\ claims' = Revoked
  /\ dropped' = [dropped EXCEPT ![rewriting.gen] = rewriting.version]
  /\ rewriting' = Empty
  /\ UNCHANGED <<kind, selection, stored, adopted, reqs, faults>>

\* A peer's rewrite; only the TTL bounds how long it goes unseen.
RewriteElsewhere(g) ==
  /\ stored[g] < MaxVersions
  /\ stored' = [stored EXCEPT ![g] = @ + 1]
  /\ UNCHANGED <<kind, selection, rewriting, dropped, slot, adopted, claims,
                 reqs, faults>>

Switch ==
  /\ selection + 1 \in Generations
  /\ selection' = selection + 1
  /\ UNCHANGED <<kind, stored, rewriting, dropped, slot, adopted, claims,
                 reqs, faults>>

-----------------------------------------------------------------------------

ReaderStep(r) == \/ Hit(r) \/ Miss(r) \/ Load(r) \/ Insert(r) \/ Release(r)
                 \/ Finish(r)

CachesNext ==
  \/ \E r \in Readers : Arrive(r) \/ ReaderStep(r) \/ Abort(r)
  \/ Expire \/ Evict \/ Invalidate \/ Switch
  \/ \E g \in Generations : RewriteHere(g) \/ RewriteElsewhere(g)

\* Requests keep arriving and every request runs to its end (the runtime polls
\* it until it is done), time passes, and an invalidation follows its rewrite
\* in the same task.
CachesFairness ==
  /\ \A r \in Readers : WF_cacheVars(Arrive(r)) /\ WF_cacheVars(ReaderStep(r))
  /\ WF_cacheVars(Expire) /\ WF_cacheVars(Invalidate)

CachesSpec == CachesInit /\ [][CachesNext]_cacheVars /\ CachesFairness

-----------------------------------------------------------------------------

\* A request pinned to one bucket is answered with that bucket's bytes and no
\* other's, whatever requests of older and newer selections do to the same
\* cache meanwhile (design section 3: entries never leak across a switch).  The
\* counter caches keep no generation and are no part of this.
ServedFromPin ==
  kind # "stats" =>
    \A r \in Readers : reqs[r].at = "done" => reqs[r].saw.from = reqs[r].gen

\* A page this node dropped stays dropped: no render that began before the
\* invalidation puts the older page back (project_cache.rs, "no stale page
\* survives them, even with a re-render in flight").  Only pages have this: a fill of
\* the index cache in flight at the drop puts its older bytes back until they expire
\* (cache.rs, "The honest bound"), and so do the caches without claims.
PageDropStands ==
  kind = "page" /\ slot # Empty => slot.version >= dropped[slot.from]
=============================================================================
