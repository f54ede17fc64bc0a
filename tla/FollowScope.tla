---------------------------- MODULE FollowScope ----------------------------
(***************************************************************************)
(* `include-dependencies` on the proxy: the background follower that widens  *)
(* the scope to the dependency closure of the included packages             *)
(* (proxy.rs follow_loop, refresh_dependencies, follow_project,             *)
(* publish_scope, notice_releases, load/save_followed; deps.rs closure), and *)
(* an installer that reads a page and then asks for a dependency it saw.     *)
(*                                                                         *)
(* A release is a project and a version; the requirements of a release never *)
(* change.  A specifier is the set of versions it admits; a want is a set of *)
(* specifiers.  The projects of one round are visited one at a time, in a     *)
(* fixed order: their visits touch disjoint entries.  One node is modelled.  *)
(***************************************************************************)
EXTENDS Naturals, FiniteSets

CONSTANTS
    Projects, Versions,
    Listed,         \* the included packages
    Private,        \* reserved names, never followed
    Books,          \* what upstream publishes first and later, what requires what, and the
                    \* bounds on page fetches, failed fetches and restarts
    None

VARIABLES
    book,           \* requirements of every release, and the releases still to come
    upstream,       \* versions of each project on the upstream index
    memo,           \* memo[p]: versions whose requirements were read
    failed,         \* releases whose metadata could not be read
    saved,          \* the memo in storage, or None
    unsaved,        \* the memo changed since it was saved
    scope,          \* the published scope: a want for each name in it
    listing,        \* cached listing of each project: versions, or None
    asked, answered,
    loop,           \* the follower
    installer,
    fetches, faults, restarts,
    lost            \* ghost: a fault, withdrawal or restart happened, or the follower was
                    \* handed a listing that a fetch under way was about to replace

followVars == <<book, upstream, memo, failed, saved, unsaved, scope, listing, asked, answered,
                loop, installer, fetches, faults, restarts, lost>>

-----------------------------------------------------------------------------
Requires(p, want) ==
    UNION {book.requires[p][v] : v \in {w \in memo[p] : \E s \in want : w \in s}}

Roots == [p \in Projects |-> IF p \in Listed THEN {Versions} ELSE {}]
NoExtras == [p \in Projects |-> {}]

Active(c, p, r) == p \in Listed \/ r.only = {} \/ r.only \cap c.extras[p] # {}
Followed(c, p) == {r \in Requires(p, c.wants[p]) :
                        Active(c, p, r) /\ r.name \notin Listed \cup Private}

(* A name is queued again when its wanted versions or its extras grew. *)
Grown(c, d, n) == d.wants[n] # c.wants[n] \/ d.extras[n] # c.extras[n]

Popped(c, p) ==
    LET reqs == Followed(c, p)
        Specs(n) == {r.spec : r \in {q \in reqs : q.name = n}}
        d == [c EXCEPT
                !.wants = [n \in Projects |->
                    IF Specs(n) = {} THEN c.wants[n]
                    ELSE IF Versions \in Specs(n) \cup c.wants[n] THEN {Versions}
                    ELSE c.wants[n] \cup Specs(n)],
                !.extras = [n \in Projects |->
                    c.extras[n] \cup UNION {r.asks : r \in {q \in reqs : q.name = n}}]]
    IN  [d EXCEPT !.queue = (c.queue \ {p}) \cup {n \in Projects : Grown(c, d, n)}]

(* The reference: the least set of facts the requirements read so far derive. *)
Admitted(F, p) == IF p \in Listed THEN Versions
                  ELSE UNION {f[3] : f \in {g \in F : g[1] = "want" /\ g[2] = p}}
Derived(F) ==
    LET active(p) == {r \in UNION {book.requires[p][v] : v \in memo[p] \cap Admitted(F, p)} :
                        /\ r.name \notin Listed \cup Private
                        /\ p \in Listed \/ r.only = {} \/ \E e \in r.only : <<"extra", p, e>> \in F}
        all == UNION {active(p) : p \in Projects}
    IN  F \cup {<<"want", r.name, r.spec>> : r \in all}
          \cup UNION {{<<"extra", r.name, e>> : e \in r.asks} : r \in all}
Stage[n \in Nat] == IF n = 0 THEN {} ELSE Derived(Stage[n - 1])
Least == Stage[2 * Cardinality(Projects)]

-----------------------------------------------------------------------------
Ask == asked' = asked + 1

(* What a fetch keeps: the versions in scope. *)
Kept(p) == {v \in upstream[p] : \E s \in scope[p] : v \in s}

(* notice_releases: a release neither read nor failed asks for a refresh. *)
Unread(p, files) == \E v \in files : v \notin memo[p] /\ <<p, v>> \notin failed
Notice(p, files) == IF Unread(p, files) THEN Ask ELSE UNCHANGED asked

Idle == [phase |-> "idle", upto |-> 0, done |-> {}, todo |-> {}, at |-> None, unread |-> {},
         wants |-> Roots, extras |-> NoExtras, queue |-> {}]

(* follow_loop: what an earlier run read answers startup's ask at once. *)
Load ==
    /\ loop.phase = "load"
    /\ \/ /\ saved # None /\ memo' = saved
          /\ loop' = [Idle EXCEPT !.phase = "boot", !.upto = 1, !.queue = Listed]
       \/ /\ saved = None /\ memo' = memo
          /\ loop' = Idle
    /\ UNCHANGED <<book, upstream, failed, saved, unsaved, scope, listing, asked, answered,
                   installer, fetches, faults, restarts, lost>>

(* A refresh begins, at once if one was asked for and else at the interval,
   which also forgets the failures; `upto` is taken before anything is read. *)
Begin ==
    /\ loop.phase = "idle"
    /\ loop' = [loop EXCEPT !.phase = "close", !.upto = asked, !.done = {}, !.wants = Roots,
                            !.extras = NoExtras, !.queue = Listed]
    /\ \/ asked > answered /\ UNCHANGED failed
       \/ failed' = {}
    /\ UNCHANGED <<book, upstream, memo, saved, unsaved, scope, listing, asked, answered,
                   installer, fetches, faults, restarts, lost>>

Pop ==
    /\ loop.phase \in {"boot", "close"}
    /\ \E p \in loop.queue : loop' = Popped(loop, p)
    /\ UNCHANGED <<book, upstream, memo, failed, saved, unsaved, scope, listing, asked, answered,
                   installer, fetches, faults, restarts, lost>>

(* publish_scope: a project whose want changed loses its cached listing. *)
Visits(w) == {<<p, w[p]>> : p \in {q \in Projects : w[q] # {}}}
Refiltered(w) == [p \in Projects |-> IF w[p] # scope[p] /\ w[p] # {} THEN None ELSE listing[p]]

PublishScope ==
    /\ loop.phase \in {"boot", "close"} /\ loop.queue = {}
    /\ scope' = loop.wants
    /\ listing' = Refiltered(loop.wants)
    /\ LET round == Visits(loop.wants) \ loop.done IN
       IF loop.phase = "boot"
       THEN loop' = Idle /\ answered' = 1
       ELSE /\ loop' = [loop EXCEPT !.phase = IF round = {} THEN "save" ELSE "visit",
                                    !.todo = round, !.done = @ \cup round]
            /\ UNCHANGED answered
    /\ UNCHANGED <<book, upstream, memo, failed, saved, unsaved, asked, installer, fetches,
                   faults, restarts, lost>>

(* The next project of the round, or the next closure once all are visited. *)
VisitNext ==
    /\ loop.phase = "visit" /\ loop.at = None
    /\ \/ /\ loop.todo # {}
          /\ LET visit == CHOOSE t \in loop.todo : TRUE IN
             loop' = [loop EXCEPT !.at = visit[1], !.todo = @ \ {visit}]
       \/ /\ loop.todo = {}
          /\ loop' = [loop EXCEPT !.phase = "close", !.wants = Roots, !.extras = NoExtras,
                                  !.queue = Listed]
    /\ UNCHANGED <<book, upstream, memo, failed, saved, unsaved, scope, listing, asked, answered,
                   installer, fetches, faults, restarts, lost>>

Fetching(p) == installer.phase = "insert" /\ installer.page = p

(* keep_only and unread, over a listing the proxy would serve. *)
Consider(p, files) ==
    /\ memo' = [memo EXCEPT ![p] = @ \cap files]
    /\ unsaved' = (unsaved \/ ~(memo[p] \subseteq files))
    /\ loop' = [loop EXCEPT !.phase = "read", !.unread = files \ memo[p]]

(* follow_project's listing: the cached one unless it ran out - but while another
   fetch of the page is between its filter and its insert, stale_listing hands
   out the cached one even so. *)
FollowCached ==
    /\ loop.phase = "visit" /\ loop.at # None
    /\ listing[loop.at] # None
    /\ Consider(loop.at, listing[loop.at])
    /\ lost' = (lost \/ Fetching(loop.at))
    /\ UNCHANGED <<book, upstream, failed, saved, scope, listing, asked, answered, installer,
                   fetches, faults, restarts>>

FollowFetch ==
    /\ loop.phase = "visit" /\ loop.at # None /\ ~Fetching(loop.at)
    /\ LET p == loop.at IN
        /\ Notice(p, Kept(p))
        /\ listing' = [listing EXCEPT ![p] = Kept(p)]
        /\ Consider(p, Kept(p))
    /\ UNCHANGED <<book, upstream, failed, saved, scope, answered, installer, fetches, faults,
                   restarts, lost>>

(* Its origin cannot be read, or a fetch fails with nothing cached: the project is
   skipped this pass. *)
FollowSkip ==
    /\ loop.phase = "visit" /\ loop.at # None
    /\ faults < book.faults
    /\ faults' = faults + 1 /\ lost' = TRUE
    /\ loop' = [loop EXCEPT !.at = None]
    /\ UNCHANGED <<book, upstream, memo, failed, saved, unsaved, scope, listing, asked, answered,
                   installer, fetches, restarts>>

(* The unread releases' metadata: each is recorded or remembered as failed. *)
ReadMetadata ==
    /\ loop.phase = "read"
    /\ \E bad \in SUBSET loop.unread :
        /\ faults + Cardinality(bad) <= book.faults
        /\ faults' = faults + Cardinality(bad)
        /\ lost' = (lost \/ bad # {})
        /\ memo' = [memo EXCEPT ![loop.at] = @ \cup (loop.unread \ bad)]
        /\ failed' = failed \cup {<<loop.at, v>> : v \in bad}
        /\ unsaved' = (unsaved \/ loop.unread # bad)
    /\ loop' = [loop EXCEPT !.phase = "visit", !.at = None, !.unread = {}]
    /\ UNCHANGED <<book, upstream, saved, scope, listing, asked, answered, installer, fetches,
                   restarts>>

(* The refresh is saved, and every ask up to `upto` is answered. *)
AnswerAll(upto) == asked
AnswerUpto(upto) == IF upto > answered THEN upto ELSE answered

Finish ==
    /\ loop.phase = "save"
    /\ saved' = IF unsaved THEN memo ELSE saved
    /\ unsaved' = FALSE
    /\ answered' = AnswerUpto(loop.upto)
    /\ loop' = Idle
    /\ UNCHANGED <<book, upstream, memo, failed, scope, listing, asked, installer, fetches,
                   faults, restarts, lost>>

-----------------------------------------------------------------------------
(* An installer reads a page: from the cache, or fetched - filtered now and
   inserted a write later - and then asks for something it requires. *)
Away == [phase |-> "away", page |-> None, files |-> {}, name |-> None, target |-> 0]

ReadPage ==
    /\ installer.phase \in {"away", "answered"}
    /\ \E p \in Projects :
        /\ scope[p] # {}
        /\ \/ /\ listing[p] # None
              /\ installer' = [Away EXCEPT !.phase = "read", !.page = p, !.files = listing[p]]
              /\ UNCHANGED <<asked, fetches>>
           \/ /\ fetches < book.fetches
              /\ fetches' = fetches + 1
              /\ Notice(p, Kept(p))
              /\ installer' = [Away EXCEPT !.phase = "insert", !.page = p, !.files = Kept(p)]
    /\ UNCHANGED <<book, upstream, memo, failed, saved, unsaved, scope, listing, answered, loop,
                   faults, restarts, lost>>

InsertPage ==
    /\ installer.phase = "insert"
    /\ listing' = [listing EXCEPT ![installer.page] = installer.files]
    /\ installer' = [installer EXCEPT !.phase = "read"]
    /\ UNCHANGED <<book, upstream, memo, failed, saved, unsaved, scope, asked, answered, loop,
                   fetches, faults, restarts, lost>>

(* in_scope: wait for every refresh asked for so far; a wait that times out is
   a retryable 503. *)
AskName ==
    /\ installer.phase = "read"
    /\ \E v \in installer.files : \E r \in book.requires[installer.page][v] :
        /\ r.only = {} /\ r.name \notin Listed \cup Private
        /\ installer' = [installer EXCEPT !.phase = "wait", !.name = r.name, !.target = asked]
    /\ UNCHANGED <<book, upstream, memo, failed, saved, unsaved, scope, listing, asked, answered,
                   loop, fetches, faults, restarts, lost>>

Settled == answered >= installer.target

Verdict ==
    /\ installer.phase = "wait" /\ Settled
    /\ installer' = [installer EXCEPT !.phase = IF scope[installer.name] = {} THEN "unknown"
                                                ELSE "answered"]
    /\ UNCHANGED <<book, upstream, memo, failed, saved, unsaved, scope, listing, asked, answered,
                   loop, fetches, faults, restarts, lost>>

GiveUp ==
    /\ installer.phase \in {"wait", "read", "unknown"}
    /\ installer' = Away
    /\ UNCHANGED <<book, upstream, memo, failed, saved, unsaved, scope, listing, asked, answered,
                   loop, fetches, faults, restarts, lost>>

-----------------------------------------------------------------------------
(* Upstream publishes a release, or takes one away. *)
Publish ==
    /\ \E rel \in book.later :
        /\ upstream' = [upstream EXCEPT ![rel[1]] = @ \cup {rel[2]}]
        /\ book' = [book EXCEPT !.later = @ \ {rel}]
    /\ UNCHANGED <<memo, failed, saved, unsaved, scope, listing, asked, answered, loop, installer,
                   fetches, faults, restarts, lost>>

Withdraw ==
    /\ \E rel \in book.taken :
        /\ rel[2] \in upstream[rel[1]]
        /\ upstream' = [upstream EXCEPT ![rel[1]] = @ \ {rel[2]}]
        /\ book' = [book EXCEPT !.taken = @ \ {rel}]
    /\ lost' = TRUE
    /\ UNCHANGED <<memo, failed, saved, unsaved, scope, listing, asked, answered, loop, installer,
                   fetches, faults, restarts>>

Fresh ==
    /\ memo' = [p \in Projects |-> {}] /\ failed' = {} /\ unsaved' = FALSE
    /\ scope' = Roots
    /\ listing' = [p \in Projects |-> None]
    /\ asked' = 1 /\ answered' = 0
    /\ loop' = [Idle EXCEPT !.phase = "load"]

Restart ==
    /\ restarts < book.restarts
    /\ restarts' = restarts + 1 /\ lost' = TRUE
    /\ Fresh
    /\ installer' = Away
    /\ UNCHANGED <<book, upstream, saved, fetches, faults>>

FollowInit ==
    /\ book \in Books
    /\ upstream = book.first
    /\ memo = [p \in Projects |-> {}] /\ failed = {} /\ unsaved = FALSE
    /\ saved = None
    /\ scope = Roots
    /\ listing = [p \in Projects |-> None]
    /\ asked = 1 /\ answered = 0
    /\ loop = [Idle EXCEPT !.phase = "load"]
    /\ installer = Away
    /\ fetches = 0 /\ faults = 0 /\ restarts = 0 /\ lost = FALSE

Follower == Load \/ Begin \/ Pop \/ PublishScope \/ VisitNext \/ FollowCached \/ FollowFetch
                \/ FollowSkip \/ ReadMetadata \/ Finish
FollowNext ==
    \/ Follower
    \/ ReadPage \/ InsertPage \/ AskName \/ Verdict \/ GiveUp
    \/ Publish \/ Withdraw \/ Restart

(* The loop never stops, pages are inserted and no cached listing lasts. *)
FollowSpec ==
    /\ FollowInit /\ [][FollowNext]_followVars
    /\ WF_followVars(Follower) /\ WF_followVars(InsertPage)
    /\ \A p \in Projects : SF_followVars(loop.at = p /\ FollowFetch)

-----------------------------------------------------------------------------
FollowTypeOK ==
    /\ upstream \in [Projects -> SUBSET Versions]
    /\ memo \in [Projects -> SUBSET Versions]
    /\ failed \subseteq Projects \X Versions
    /\ scope \in [Projects -> SUBSET SUBSET Versions]
    /\ \A p \in Projects : listing[p] = None \/ listing[p] \subseteq Versions
    /\ answered <= asked

(* The scope is exactly what the requirements read so far reach, whatever order
   the work list was popped in: the listed packages, and each dependency at the
   versions some active requirement admits - an extra's requirements only once
   something asks for the extra, even if it does so after the project was
   already visited. *)
ClosureExact ==
    (loop.phase \in {"boot", "close"} /\ loop.queue = {}) =>
        \A p \in Projects \ Listed : UNION loop.wants[p] = Admitted(Least, p)

(* "An installer asks for a new dependency right after the listing that revealed
   it": once the wait is over, a name required by a release on a page the
   installer read is in scope, unless a read failed, upstream withdrew a release,
   the node restarted - or the refresh that the page asked for visited the project
   between that ask and the page's insert, found the older page (stale_listing) and
   answered the ask without the new release. *)
RevealedInScope == installer.phase = "unknown" => lost
=============================================================================
