------------------------------ MODULE MCReads ------------------------------
(***************************************************************************)
(* Bounded instances of what a read request meets: the claim that says who *)
(* owns the name, the fill of a mirrored file, the read caches, the        *)
(* visibility checks of the two pins, the followed scope and the listing   *)
(* cache.  A behaviour is one part's; the others rest in an initial state. *)
(***************************************************************************)
EXTENDS Origin, ProxyFill, Serving, TLC

CONSTANTS Parts, Empty, None, Gap,
          f1, f2, u, v, dm, a, o, r1, r2, r3, c1

VARIABLES part,
          kind, selection, stored, rewriting, dropped, slot, adopted, claims, reqs, strikes,
          book, published, memo, failed, saved, unsaved, scope, listing, asked, answered, loop,
          installer, fetches, losses, restarts, lost,
          remote, since, ever, up, cache, fetching, reader, changes

\* Claims: a fill, an upload or a demotion, two at a time, around the audit's release; the
\* operator's release; a sync beside an upload and beside a fill.
Roles == [w \in Writers |-> CASE w \in {f1, f2} -> "fill" [] w = u -> "private" [] w = v -> "mirror"
                              [] w = dm -> "demote" [] w = a -> "audit" [] w = o -> "operator"]
Played == {{f1, u, a}, {f1, dm, a}, {u, dm, a}, {f1, f2, a}, {f1, a, o}, {v, a, u}, {v, f1, a}, {f1, dm, o}}

\* Fills: three requests; a switch of the selection; a fault and a refusal that lands.
Run(rs, f, g, b) == [requests |-> rs, faults |-> f, generations |-> g, refuse |-> b]
Runs == {Run({r1, r2, r3}, 0, 1, FALSE), Run({r1, r2}, 0, 2, FALSE), Run({r1, r2}, 1, 1, TRUE)}

\* Serving: the read pin lags the home by whole records and by single objects.
Script(n, h, p, up_, w) ==
    [near |-> n, home |-> h, nearPin |-> p, upstream |-> up_, writes |-> w]
Demoted == [Whole("private") EXCEPT !.body = "mirror", !.sidecar = "mirror",
                                    !.companion = "mirror", !.index = "mirror"]
Lagging == {
    \* A publish on the home, then its replication to the region bucket.
    Script(Nothing, Nothing, "near", "found", PublishAt("home", "private") \o PublishAt("near", "private")),
    Script(Nothing, Nothing, "near", "missing", PublishAt("home", "private") \o PublishAt("near", "private")),
    Script(Nothing, Nothing, "near", "unreachable", PublishAt("home", "mirror") \o PublishAt("near", "mirror")),
    Script(Nothing, Whole("private"), "near", "found", PublishAt("near", "private")),
    \* A released name taken by a private publish.
    Script([Nothing EXCEPT !.claim = "unclaimed"], [Nothing EXCEPT !.claim = "unclaimed"],
           "near", "found", PublishAt("home", "private")),
    \* Deletes and freezes that reach one bucket before the other.
    Script(Whole("private"), Whole("private"), "near", "found", Delete("home") \o Delete("near")),
    Script(Whole("private"), Whole("private"), "near", "missing", Delete("near") \o Delete("home")),
    Script(Whole("private"), Whole("private"), "near", "found", Freeze("near") \o Freeze("home")),
    \* The region bucket has the claim and not yet the record.
    Script([Nothing EXCEPT !.claim = "private"], Whole("private"), "near", "missing", Delete("home")),
    Script([Nothing EXCEPT !.claim = "private"], Whole("private"), "near", "missing", Freeze("home")),
    \* Demotions of the region bucket's copy and of the home's.
    Script(Demoted, Whole("private"), "near", "found", Tail(DemoteAt("near"))),
    Script(Whole("mirror"), Whole("mirror"), "near", "missing", DemoteAt("home") \o DemoteAt("near"))}

\* One pin: a demotion on the bucket that serves.
OnePin == {
    Script(Nothing, Whole("mirror"), "home", "found", DemoteAt("home")),
    Script(Nothing, Demoted, "home", "found", Tail(DemoteAt("home"))),
    Script(Nothing, Nothing, "home", "found", PublishAt("home", "mirror"))}
Shown == Lagging \cup OnePin

\* Affinity, and a demotion of the region bucket's copy.
DemotedNear == {Script(Demoted, Whole("private"), "near", "found", Tail(DemoteAt("near")))}

\* The caches: two readers of one key, in each of the five caches.
R == INSTANCE ReadCaches WITH faults <- strikes, Readers <- {r1, r2}, Generations <- {0, 1},
        CacheKinds <- {"index", "page", "verdict", "browser", "stats"}, MaxVersions <- 1, MaxFaults <- 1

\* Followed scope: a's second release needs c, and the release of b that asks for an
\* extra of c; only that extra leads to d.
Needs(n, s, asks, only) == [name |-> n, spec |-> s, asks |-> asks, only |-> only]
Chain == [requires |-> ("a" :> (1 :> {Needs("b", {2}, {}, {})}
                             @@ 2 :> {Needs("b", {1}, {}, {}), Needs("c", {1}, {}, {})}))
                    @@ ("b" :> (1 :> {Needs("c", {1}, {"x"}, {})} @@ 2 :> {}))
                    @@ ("c" :> (1 :> {Needs("d", {1, 2}, {}, {"x"})}
                             @@ 2 :> {Needs("a", {1}, {}, {})}))
                    @@ ("d" :> (1 :> {} @@ 2 :> {})),
          first |-> ("a" :> {1}) @@ ("b" :> {1, 2}) @@ ("c" :> {1, 2}) @@ ("d" :> {1, 2}),
          later |-> {<<"a", 2>>},
          taken |-> {}, fetches |-> 1, faults |-> 0, restarts |-> 0]
Histories == {[Chain EXCEPT !.faults = 1], [Chain EXCEPT !.restarts = 1],
              [Chain EXCEPT !.fetches = 0, !.taken = {<<"a", 1>>}]}
F == INSTANCE FollowScope WITH upstream <- published, faults <- losses, Books <- Histories,
        Projects <- {"a", "b", "c", "d"}, Versions <- {1, 2}, Listed <- {"a"}, Private <- {}

\* The listing cache: two readers of one page, through an outage and a change.
L == INSTANCE ListingCache WITH upstream <- remote, slot <- fetching, Readers <- {r1, r2},
        Packages <- {"p"}, Pages <- {"v", "w"}, Absent <- Gap, Unreachable <- Empty,
        Ttl <- 1, ErrorTtl <- 1, MaxStale <- 3, MaxListings <- 2, MaxChanges <- 2

-----------------------------------------------------------------------------
readCaches == <<kind, selection, stored, rewriting, dropped, slot, adopted, claims, reqs, strikes>>
follower == <<book, published, memo, failed, saved, unsaved, scope, listing, asked, answered, loop,
              installer, fetches, losses, restarts, lost>>
listings == <<remote, since, ever, up, cache, fetching, reader, changes>>

First(S) == CHOOSE x \in S : TRUE
Init ==
    /\ part \in Parts
    /\ OriginInit /\ (part # "origin" => cast = First(Casts) /\ claim = NoClaim)
    /\ ProxyInit /\ (part # "fill" => scene = First(Scenes) /\ ~cached[1])
    /\ ServingInit /\ (part # "serve" => nearPin = "home" /\ script = PublishAt("home", "mirror"))
    /\ R!CachesInit /\ (part # "caches" => kind = "index")
    /\ F!FollowInit /\ (part # "follow" => book = First(Histories))
    /\ L!ListingInit /\ (part # "listing" => remote["p"] = Gap)
Crowded == {f1, f2} \subseteq cast \/ {a, o} \subseteq cast \/ {v, f1} \subseteq cast
Next ==
    \* Where two of a kind meet only the first fill dies.
    \/ /\ part = "origin" /\ OriginNext
       /\ Crowded => deaths' = 0 \/ step'[f1] = "dead"
       /\ UNCHANGED <<part, proxyVars, servingVars, readCaches, follower, listings>>
    \/ /\ part = "fill" /\ ProxyNext
       /\ UNCHANGED <<part, originVars, servingVars, readCaches, follower, listings>>
    \/ /\ part = "serve" /\ ServingNext
       /\ UNCHANGED <<part, originVars, proxyVars, readCaches, follower, listings>>
    \/ /\ part = "caches" /\ R!CachesNext
       /\ UNCHANGED <<part, originVars, proxyVars, servingVars, follower, listings>>
    \/ /\ part = "follow" /\ F!FollowNext
       /\ UNCHANGED <<part, originVars, proxyVars, servingVars, readCaches, listings>>
    \/ /\ part = "listing" /\ L!ListingNext
       /\ UNCHANGED <<part, originVars, proxyVars, servingVars, readCaches, follower>>
readVars == <<part, originVars, proxyVars, servingVars, readCaches, follower, listings>>
Spec == Init /\ [][Next]_readVars

-----------------------------------------------------------------------------
(* cache.rs and project_cache.rs: what a request is served comes from the selection it
   pinned, counters apart, and a project page that a node invalidated is not put back
   by a render that began before. *)
CachesSafe == R!CachesTypeOK /\ R!ServedFromPin /\ R!PageDropStands

(* What a node knows of its upstream, proxy.rs.  A served listing is never older than
   LISTING_MAX_STALE, an outage never reads as absence, and one request at a time
   fetches a page.  The followed scope is exactly the closure of the requirements read,
   in whatever order, and an installer finds in scope what a page revealed to it,
   unless the follower read an older page while that one was being inserted. *)
UpstreamSafe ==
    /\ L!ListingTypeOK /\ L!StaleBounded /\ L!NoFalseAbsence /\ L!OneFetch
    /\ F!FollowTypeOK /\ F!ClosureExact /\ F!RevealedInScope

(* No step takes a name out of private but the operator's release; none sends
   upstream bytes for a private name; none answers 404 for a file the home serves
   (origin.rs release_observed_for_repurpose, serve.rs proxy_package_index,
   file_visible_read_through). *)
ReadSteps == PrivateTerminal /\ NoUpstreamForPrivate /\ AckedReachable
=============================================================================
