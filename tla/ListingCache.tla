---------------------------- MODULE ListingCache ----------------------------
(***************************************************************************)
(* The proxy's cache of upstream listings (proxy.rs listing, cached_listing, *)
(* stale_listing, after_error, evict_listings): how a page is answered when  *)
(* upstream changes, fails, recovers or hangs, and when requests for one     *)
(* page arrive together or are dropped half way.                             *)
(*                                                                         *)
(* Upstream's answer for a package is a version of its listing, or absence.  *)
(* Time passes in ticks; an entry carries the ticks since upstream last      *)
(* answered and the ticks it is still served for.  The storage write between *)
(* the answer and the insert is short: no tick falls into it.                *)
(***************************************************************************)
EXTENDS Naturals, FiniteSets, FiniteSetsExt

CONSTANTS
    Readers,        \* requests under way
    Packages,
    Pages,          \* listings upstream may have for a package
    Absent,         \* upstream's 404
    Unreachable,    \* what an outage leaves
    Ttl, ErrorTtl, MaxStale,
    MaxListings,    \* the cache's ceiling
    MaxChanges,     \* bound on upstream changes and outages
    None

VARIABLES
    upstream,       \* upstream[p]: its listing, or Absent
    since,          \* since[p][w]: ticks since upstream last had w, MaxStale at most
    ever,           \* ever[p]: all it has been
    up,             \* does upstream answer?
    cache,          \* cache[p]: None or an entry
    slot,           \* slot[p]: the request fetching p, or None
    reader,
    changes

lcVars == <<upstream, since, ever, up, cache, slot, reader, changes>>

Gone == [phase |-> "idle", pkg |-> None, took |-> 0, got |-> None, lag |-> 0]

Tick(n, cap) == IF n < cap THEN n + 1 ELSE n

(* An entry is served while it is not expired. *)
Live(e) == e # None /\ e.left > 0
(* What a waiter may have: anything but a listing past its bound. *)
Servable(e) == e # None /\ (e.what \in Pages => e.age < MaxStale)

Entry(what, left) == [what |-> what, age |-> 0, left |-> left]

(* A failed refresh keeps the last good listing while it is young enough. *)
KeepGood(prev, took) ==
    IF prev # None /\ prev.what \in Pages
    THEN [prev EXCEPT !.left = Ttl]
    ELSE Entry(Unreachable, Max({ErrorTtl, took}))
after_error(prev, took) ==
    IF prev # None /\ prev.what \in Pages /\ prev.age < MaxStale
    THEN [prev EXCEPT !.left = Min({Ttl, MaxStale - prev.age})]
    ELSE Entry(Unreachable, Max({ErrorTtl, took}))

(* Room is made for a new package: the expired first, then the soonest. *)
Expired == {p \in Packages : cache[p] # None /\ cache[p].left = 0}
Cached == {p \in Packages : cache[p] # None}
Evicted(p) ==
    IF Cardinality(Cached) < MaxListings \/ p \in Cached THEN {{}}
    ELSE LET kept == Cached \ Expired IN
         IF Cardinality(kept) < MaxListings THEN {Expired}
         ELSE {Expired \cup s : s \in
                {s \in kSubset(MaxListings \div 2, kept) :
                    \A a \in s, b \in kept \ s : cache[a].left <= cache[b].left}}

Insert(p, entry) ==
    \E out \in Evicted(p) :
        cache' = [q \in Packages |-> IF q = p THEN entry ELSE IF q \in out THEN None ELSE cache[q]]

-----------------------------------------------------------------------------
(* A request for a page, until it has an answer for the listing. *)
Lag(p, what) == IF what = Unreachable THEN 0 ELSE since[p][what]
Answer(r, e) == [reader[r] EXCEPT !.phase = "done", !.got = e.what, !.lag = Lag(reader[r].pkg, e.what)]

Request(r, p) ==
    /\ reader[r].phase = "idle"
    /\ reader' = [reader EXCEPT ![r] = IF Live(cache[p])
            THEN [Gone EXCEPT !.pkg = p, !.phase = "done", !.got = cache[p].what,
                              !.lag = Lag(p, cache[p].what)]
            ELSE [Gone EXCEPT !.pkg = p, !.phase = "enter"]]
    /\ UNCHANGED <<upstream, since, ever, up, cache, slot, changes>>

(* The slot is taken, or a stale answer, or the request waits. *)
Free(p) == slot[p] = None
Enter(r) ==
    /\ reader[r].phase = "enter"
    /\ LET p == reader[r].pkg IN
       \/ /\ Free(p)
          /\ slot' = [slot EXCEPT ![p] = r]
          /\ reader' = [reader EXCEPT ![r].phase = "recheck"]
       \/ /\ ~Free(p) /\ Servable(cache[p])
          /\ reader' = [reader EXCEPT ![r] = Answer(r, cache[p])]
          /\ UNCHANGED slot
       \/ /\ ~Free(p) /\ ~Servable(cache[p])
          /\ reader' = [reader EXCEPT ![r].phase = "wait"]
          /\ UNCHANGED slot
    /\ UNCHANGED <<upstream, since, ever, up, cache, changes>>

Granted(r) ==
    /\ reader[r].phase = "wait" /\ slot[reader[r].pkg] = None
    /\ slot' = [slot EXCEPT ![reader[r].pkg] = r]
    /\ reader' = [reader EXCEPT ![r].phase = "recheck"]
    /\ UNCHANGED <<upstream, since, ever, up, cache, changes>>

Recheck(r) ==
    /\ reader[r].phase = "recheck"
    /\ LET p == reader[r].pkg IN
       \/ /\ Live(cache[p])
          /\ reader' = [reader EXCEPT ![r] = Answer(r, cache[p])]
          /\ slot' = [slot EXCEPT ![p] = None]
       \/ /\ ~Live(cache[p])
          /\ reader' = [reader EXCEPT ![r].phase = "fetch"]
          /\ UNCHANGED slot
    /\ UNCHANGED <<upstream, since, ever, up, cache, changes>>

(* Upstream answers, or fails after some time. *)
Fetched(r) ==
    /\ reader[r].phase = "fetch" /\ up
    /\ reader' = [reader EXCEPT ![r].phase = "insert", ![r].got = upstream[reader[r].pkg]]
    /\ UNCHANGED <<upstream, since, ever, up, cache, slot, changes>>

FetchFailed(r) ==
    /\ reader[r].phase = "fetch" /\ ~up
    /\ reader' = [reader EXCEPT ![r].phase = "insert", ![r].got = None]
    /\ UNCHANGED <<upstream, since, ever, up, cache, slot, changes>>

InsertListing(r) ==
    /\ reader[r].phase = "insert"
    /\ LET p == reader[r].pkg
           entry == IF reader[r].got = None THEN after_error(cache[p], reader[r].took)
                    ELSE Entry(reader[r].got, Ttl)
       IN  /\ Insert(p, entry)
           /\ slot' = [slot EXCEPT ![p] = None]
           /\ reader' = [reader EXCEPT ![r] = Answer(r, entry)]
    /\ UNCHANGED <<upstream, since, ever, up, changes>>

(* The response goes out, or the client hangs up: a dropped fetch frees its slot. *)
Freed(r) == [p \in Packages |-> IF slot[p] = r THEN None ELSE slot[p]]

Leave(r) ==
    /\ reader[r].phase # "idle"
    /\ slot' = Freed(r)
    /\ reader' = [reader EXCEPT ![r] = Gone]
    /\ UNCHANGED <<upstream, since, ever, up, cache, changes>>

-----------------------------------------------------------------------------
Pass ==
    /\ \A r \in Readers : reader[r].phase # "insert"
    /\ cache' = [p \in Packages |-> IF cache[p] = None THEN None
                    ELSE [cache[p] EXCEPT !.age = Tick(@, MaxStale),
                                          !.left = IF @ > 0 THEN @ - 1 ELSE 0]]
    /\ since' = [p \in Packages |-> [w \in Pages \cup {Absent} |->
                    IF w = upstream[p] THEN 0 ELSE Tick(since[p][w], MaxStale)]]
    /\ reader' = [r \in Readers |-> IF reader[r].phase = "fetch"
                        THEN [reader[r] EXCEPT !.took = Tick(@, ErrorTtl + 1)] ELSE reader[r]]
    /\ UNCHANGED <<upstream, ever, up, slot, changes>>

Change(p) ==
    /\ changes < MaxChanges
    /\ changes' = changes + 1
    /\ \E new \in (Pages \cup {Absent}) \ {upstream[p]} :
        /\ upstream' = [upstream EXCEPT ![p] = new]
        /\ since' = [since EXCEPT ![p][new] = 0]
        /\ ever' = [ever EXCEPT ![p] = @ \cup {new}]
    /\ UNCHANGED <<up, cache, slot, reader>>

Outage ==
    /\ changes < MaxChanges
    /\ changes' = changes + 1
    /\ up' = ~up
    /\ UNCHANGED <<upstream, since, ever, cache, slot, reader>>

Recover ==
    /\ ~up /\ up' = TRUE
    /\ UNCHANGED <<upstream, since, ever, cache, slot, reader, changes>>

ListingInit ==
    /\ upstream \in [Packages -> Pages \cup {Absent}]
    /\ since = [p \in Packages |-> [w \in Pages \cup {Absent} |->
                    IF w = upstream[p] THEN 0 ELSE MaxStale]]
    /\ ever = [p \in Packages |-> {upstream[p]}]
    /\ up = TRUE
    /\ cache = [p \in Packages |-> None]
    /\ slot = [p \in Packages |-> None]
    /\ reader = [r \in Readers |-> Gone]
    /\ changes = 0

Serve(r) == Enter(r) \/ Granted(r) \/ Recheck(r) \/ Fetched(r) \/ FetchFailed(r) \/ InsertListing(r)

ListingNext ==
    \/ \E r \in Readers : (\E p \in Packages : Request(r, p)) \/ Serve(r) \/ Leave(r)
    \/ Pass \/ Outage \/ Recover
    \/ \E p \in Packages : Change(p)

(* Requests make progress and a fetch times out; nobody has to come back. *)
ListingSpec ==
    /\ ListingInit /\ [][ListingNext]_lcVars
    /\ \A r \in Readers : SF_lcVars(Granted(r)) /\ WF_lcVars(Serve(r))

-----------------------------------------------------------------------------
ListingTypeOK ==
    /\ upstream \in [Packages -> Pages \cup {Absent}]
    /\ \A p \in Packages : cache[p] # None =>
            /\ cache[p].what \in Pages \cup {Absent, Unreachable}
            /\ cache[p].what \in Pages => cache[p].age + cache[p].left <= MaxStale
    /\ slot \in [Packages -> Readers \cup {None}]
    /\ Cardinality(Cached) <= MaxListings

(* "an upstream yank or quarantine can't go unseen for longer than"
   LISTING_MAX_STALE: a listing served while upstream fails, or while another
   request refreshes it, is what upstream held at most that long ago. *)
StaleBounded == \A r \in Readers : reader[r].got \in Pages => reader[r].lag < MaxStale

(* "an upstream blip must not read as no such package": a request is told that a
   package does not exist only if upstream said so. *)
NoFalseAbsence == \A r \in Readers : reader[r].got = Absent => Absent \in ever[reader[r].pkg]

(* At most one fetch of a page is under way, and those waiting behind it wait for
   a request that is still there: the slot of one whose client hung up is free. *)
OneFetch == \A p \in Packages :
    /\ Cardinality({r \in Readers : reader[r].pkg = p /\ reader[r].phase \in {"fetch", "insert"}}) <= 1
    /\ slot[p] # None => /\ reader[slot[p]].pkg = p
                         /\ reader[slot[p]].phase \in {"recheck", "fetch", "insert"}
=============================================================================
