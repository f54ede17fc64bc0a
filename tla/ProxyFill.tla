---------------------------- MODULE ProxyFill ----------------------------
(***************************************************************************)
(* The pull-through proxy's cold miss of one artifact on one node          *)
(* (src/src/proxy.rs and the artifact route of src/src/serve.rs): the      *)
(* presence cache, the single-flight slot, fills that outlive the request   *)
(* that started them under a bounded number of permits, download attempts   *)
(* checked against the declared digest, and the tee that streams a running  *)
(* attempt to its client while holding the tail back.  Bodies are counted   *)
(* in chunks.  The origin claim a fill works under is Origin's subject:     *)
(* here its re-check only passes or fails.                                  *)
(***************************************************************************)
EXTENDS Naturals, FiniteSets

CONSTANTS
    Requests,          \* the requests for the artifact
    DeclaredSize,      \* the size upstream's listing declares, in chunks
    TEE_HOLDBACK,      \* the tail withheld until the body is verified
    DOWNLOAD_ATTEMPTS,
    MAX_DETACHED_FILLS,
    Scenes             \* bounds: the runs considered, each [requests, faults of
                       \* upstream and storage, generations of the selection,
                       \* refuse: whether a refusal may land]

ASSUME ProxyFillAssumption ==
    /\ IsFiniteSet(Requests)
    /\ DeclaredSize \in Nat /\ TEE_HOLDBACK \in 1..DeclaredSize
    /\ DOWNLOAD_ATTEMPTS \in Nat \ {0} /\ MAX_DETACHED_FILLS \in Nat
    /\ \A s \in Scenes : /\ s.requests \subseteq Requests /\ s.faults \in Nat
                         /\ s.generations \in Nat \ {0} /\ s.refuse \in BOOLEAN

VARIABLES
    scene,      \* the bounds of this run
    cached,     \* cached[g]: the artifact is in the bucket generation g selects
    current,    \* the current generation
    presence,   \* PresenceCache: [gen, has]
    refusal,    \* has a refusal (advisory, quarantine, freeze) landed
    req,        \* req[r]: [at, gen, entry, late]
    fill,       \* fill[r]: the fill r started
    channel,    \* channel[r]: its FillProgress, the watch channel
    tee,        \* tee[r]: the tee following it
    inflight,   \* the slot map's entry for the key, 0 when none
    permits,    \* DETACHED_FILLS still free
    faultsLeft

proxyVars == <<scene, cached, current, presence, refusal, req, fill, channel, tee, inflight, permits, faultsLeft>>

NoFill == [at |-> "none", attempt |-> 0, good |-> FALSE, detached |-> FALSE, teed |-> FALSE, done |-> FALSE]
NoChannel == [attempt |-> 0, open |-> FALSE, written |-> 0, state |-> "Running", dropped |-> FALSE]
NoTee == [attempt |-> 0, sent |-> 0, available |-> 0, verified |-> FALSE, late |-> FALSE]
Final == {"blocked", "served", "missing", "failed", "delivered", "aborted", "gone"}

ProxyInit ==
    /\ scene \in Scenes
    /\ cached \in {[g \in 1..scene.generations |-> FALSE], [g \in 1..scene.generations |-> g = 1]}
    /\ current = 1
    /\ presence = [gen |-> 1, has |-> FALSE]
    /\ refusal = FALSE
    /\ req = [r \in Requests |-> [at |-> IF r \in scene.requests THEN "new" ELSE "gone", gen |-> 0, entry |-> 0, late |-> FALSE]]
    /\ fill = [r \in Requests |-> NoFill]
    /\ channel = [r \in Requests |-> NoChannel]
    /\ tee = [r \in Requests |-> NoTee]
    /\ inflight = 0
    /\ permits = MAX_DETACHED_FILLS
    /\ faultsLeft = scene.faults

ReqAt(r, s) == req[r].at = s
ReqGo(r, s) == req' = [req EXCEPT ![r].at = s]
Fault == faultsLeft > 0 /\ faultsLeft' = faultsLeft - 1
Env == UNCHANGED <<scene, current, refusal>>
Unfilled == UNCHANGED <<fill, channel, permits>>

----------------------------------------------------------------------------
(* files_get up to the fill.                                                *)
\* advisory_byte_gate, above every exit, on the pins taken for the request.
ByteGate(r) ==
    /\ ReqAt(r, "new")
    /\ req' = [req EXCEPT ![r] = [@ EXCEPT !.at = IF refusal THEN "blocked" ELSE "lookup", !.gen = current]]
    /\ Env /\ Unfilled /\ UNCHANGED <<cached, presence, tee, inflight, faultsLeft>>

\* PresenceCache::reconcile: a verdict is good for its own generation only.
Reconciled(g) == IF presence.gen = g THEN presence ELSE [gen |-> g, has |-> FALSE]

\* artifact_cached_locally: the presence cache answers, or a HEAD is sent...
Lookup(r) ==
    /\ ReqAt(r, "lookup")
    /\ presence' = Reconciled(req[r].gen)
    /\ ReqGo(r, IF presence'.has THEN "serve" ELSE "head")
    /\ Env /\ Unfilled /\ UNCHANGED <<cached, tee, inflight, faultsLeft>>

Recorded(g) == [Reconciled(g) EXCEPT !.has = TRUE]

\* ...and what it found is remembered after the await.
HeadObject(r) ==
    /\ ReqAt(r, "head")
    /\ ReqGo(r, IF cached[req[r].gen] THEN "record" ELSE "ensure")
    /\ Env /\ Unfilled /\ UNCHANGED <<cached, presence, tee, inflight, faultsLeft>>
Record(r) ==
    /\ ReqAt(r, "record")
    /\ presence' = Recorded(req[r].gen)
    /\ ReqGo(r, "serve")
    /\ Env /\ Unfilled /\ UNCHANGED <<cached, tee, inflight, faultsLeft>>

----------------------------------------------------------------------------
(* The single-flight slot: a mutex per key, in a map that prunes itself.    *)
Holder(e) == {r \in Requests : fill[r].at # "none" /\ ~fill[r].done /\ req[r].entry = e}
Locked(e) == Holder(e) # {}
Queued(e) == {r \in Requests : ReqAt(r, "queued") /\ req[r].entry = e}
\* A fresh Arc for the key when the map has none.
Entry == IF inflight # 0 THEN inflight
         ELSE CHOOSE e \in 1..(Cardinality(Requests) + 1) : \A r \in Requests : req[r].entry # e

\* DownloadSlot::drop: forget the mutex when only the map and this guard hold it.
Pruned(e) == IF inflight = e /\ Queued(e) # {} THEN inflight ELSE 0

\* How the fill runs: in a task of its own with a permit, or inline; teed only
\* for the uncontended leader of a detached one.
Spawn(r, e, leader) ==
    LET detached == permits > 0
    IN /\ fill' = [fill EXCEPT ![r] = [NoFill EXCEPT !.at = "start", !.detached = detached, !.teed = detached /\ leader]]
       /\ permits' = IF detached THEN permits - 1 ELSE permits
       /\ req' = [req EXCEPT ![r] = [@ EXCEPT !.at = IF detached /\ leader THEN "anchor" ELSE "await", !.entry = e]]

\* ensure_artifact_cached: HEAD, then the slot if it is free, else the queue.
Ensure(r) ==
    /\ ReqAt(r, "ensure")
    /\ \/ cached[req[r].gen] /\ ReqGo(r, "serve") /\ Unfilled /\ UNCHANGED inflight
       \/ /\ ~cached[req[r].gen] /\ ~Locked(Entry)
          /\ inflight' = Entry /\ Spawn(r, Entry, TRUE) /\ UNCHANGED channel
       \/ /\ ~cached[req[r].gen] /\ Locked(Entry)
          /\ inflight' = Entry
          /\ req' = [req EXCEPT ![r] = [@ EXCEPT !.at = "queued", !.entry = Entry]]
          /\ Unfilled
    /\ Env /\ UNCHANGED <<cached, presence, tee, faultsLeft>>

\* The waiter gets the mutex: cached by now, or it inherits the slot.
Inherit(r) ==
    /\ ReqAt(r, "queued") /\ ~Locked(req[r].entry)
    /\ \/ /\ cached[req[r].gen]
          /\ ReqGo(r, "serve") /\ Unfilled
          /\ inflight' = (IF inflight = req[r].entry /\ Queued(req[r].entry) # {r} THEN inflight ELSE 0)
       \/ ~cached[req[r].gen] /\ Spawn(r, req[r].entry, FALSE) /\ UNCHANGED <<channel, inflight>>
    /\ Env /\ UNCHANGED <<cached, presence, tee, faultsLeft>>

----------------------------------------------------------------------------
(* fill_artifact: the fill task.                                            *)
FillAt(r, s) == fill[r].at = s
FillGo(r, s) == fill' = [fill EXCEPT ![r].at = s]
Publish(r, p) == channel' = IF fill[r].teed THEN [channel EXCEPT ![r] = p] ELSE channel

\* The fill is over: whoever tees hears of a failure unless the tail is out,
\* the slot is dropped, the permit returned with the task.
Ended(r) == IF fill[r].teed
            THEN [channel EXCEPT ![r] = [@ EXCEPT !.dropped = TRUE,
                     !.state = IF channel[r].state = "Verified" THEN "Verified" ELSE "Failed"]]
            ELSE channel
Returned(r) == IF fill[r].detached THEN permits + 1 ELSE permits
EndFill(r, outcome) ==
    /\ fill' = [fill EXCEPT ![r] = [@ EXCEPT !.at = outcome, !.done = TRUE]]
    /\ channel' = Ended(r)
    /\ inflight' = Pruned(req[r].entry)
    /\ permits' = Returned(r)
Running(r) == UNCHANGED <<inflight, permits>>

\* HEAD, the listing, the yank and malware refusals, the claim.
FillStart(r) ==
    /\ FillAt(r, "start")
    /\ \/ (cached[req[r].gen] \/ refusal) /\ EndFill(r, "nothing") /\ UNCHANGED faultsLeft
       \/ ~cached[req[r].gen] /\ ~refusal /\ FillGo(r, "attempt") /\ Running(r) /\ UNCHANGED <<channel, faultsLeft>>
       \/ Fault /\ EndFill(r, "error")
    /\ Env /\ UNCHANGED <<cached, presence, tee, req>>

\* download_once: upstream answers and there is a spool to follow; its bytes
\* will turn out to be the declared ones or not.
Attempt(r) ==
    /\ FillAt(r, "attempt")
    /\ \E good \in BOOLEAN :
          /\ good \/ faultsLeft > 0
          /\ fill' = [fill EXCEPT ![r] = [@ EXCEPT !.at = "body", !.attempt = fill[r].attempt + 1, !.good = good]]
          /\ faultsLeft' = IF good THEN faultsLeft ELSE faultsLeft - 1
    /\ Publish(r, [attempt |-> fill[r].attempt + 1, open |-> TRUE, written |-> 0, state |-> "Running", dropped |-> FALSE])
    /\ Running(r) /\ Env /\ UNCHANGED <<cached, presence, tee, req>>

\* Chunks are announced to a tee once they are flushed.
Chunk(r) ==
    /\ FillAt(r, "body") /\ fill[r].teed /\ channel[r].written < DeclaredSize
    /\ channel' = [channel EXCEPT ![r].written = @ + 1]
    /\ Running(r) /\ Env /\ UNCHANGED <<cached, presence, tee, req, fill, faultsLeft>>

\* The body ends (short of the declared size, perhaps): verified, or dead.  A
\* tee of a dead attempt is told at once; the retry is for the cache.
EndBody(r) ==
    /\ FillAt(r, "body")
    /\ \/ fill[r].good /\ FillGo(r, "check") /\ Running(r) /\ UNCHANGED channel
       \/ /\ ~fill[r].good /\ fill[r].attempt < DOWNLOAD_ATTEMPTS
          /\ Publish(r, [channel[r] EXCEPT !.state = "Failed"]) /\ FillGo(r, "attempt") /\ Running(r)
       \/ ~fill[r].good /\ fill[r].attempt = DOWNLOAD_ATTEMPTS /\ EndFill(r, "error")
    /\ Env /\ UNCHANGED <<cached, presence, tee, req, faultsLeft>>

\* Intent, sidecar, claim re-check; a teed fill also asks release_refused, and
\* then lets the withheld tail go.
\* mutant: a refusal that landed during the download is not looked for
ReleaseAnyway(r) == TRUE
Releasable(r) == ~(fill[r].teed /\ refusal)

Check(r) ==
    /\ FillAt(r, "check")
    /\ \/ /\ Releasable(r) /\ FillGo(r, "put")
          /\ Publish(r, [channel[r] EXCEPT !.state = "Verified"])
          /\ tee' = [tee EXCEPT ![r].late = refusal]
          /\ Running(r) /\ UNCHANGED faultsLeft
       \/ ~Releasable(r) /\ EndFill(r, "nothing") /\ UNCHANGED <<tee, faultsLeft>>
       \/ Fault /\ (\E o \in {"nothing", "error"} : EndFill(r, o)) /\ UNCHANGED tee
    /\ Env /\ UNCHANGED <<cached, presence, req>>

\* put_file_if_absent and the commit.
Put(r) ==
    /\ FillAt(r, "put")
    /\ \/ /\ cached' = [cached EXCEPT ![req[r].gen] = TRUE]
          /\ EndFill(r, IF cached[req[r].gen] THEN "nothing" ELSE "filled") /\ UNCHANGED faultsLeft
       \/ Fault /\ EndFill(r, "error") /\ UNCHANGED cached
    /\ Env /\ UNCHANGED <<presence, tee, req>>

----------------------------------------------------------------------------
(* The request behind the fill: buffered, or teed.                          *)
\* The joined fill answers; the file is then served from storage.
AwaitFill(r) ==
    /\ ReqAt(r, "await") /\ fill[r].done
    /\ req' = [req EXCEPT ![r] = [@ EXCEPT !.at = IF FillAt(r, "error") THEN "failed" ELSE "serve", !.late = refusal]]
    /\ Env /\ Unfilled /\ UNCHANGED <<cached, presence, tee, inflight, faultsLeft>>

\* serve_artifact on the pinned bucket: a 200 or the local 404.
Serve(r) ==
    /\ ReqAt(r, "serve")
    /\ ReqGo(r, IF cached[req[r].gen] THEN "served" ELSE "missing")
    /\ Env /\ Unfilled /\ UNCHANGED <<cached, presence, tee, inflight, faultsLeft>>

\* tee_anchor: bind to the attempt that runs, or fall back to the buffered path.
Anchor(r) ==
    /\ ReqAt(r, "anchor")
    /\ \/ /\ channel[r].state = "Running" /\ channel[r].open
          /\ ReqGo(r, "teeing") /\ tee' = [tee EXCEPT ![r].attempt = channel[r].attempt]
       \/ /\ channel[r].state # "Running" \/ channel[r].dropped
          /\ ReqGo(r, "await") /\ UNCHANGED tee
    /\ Env /\ Unfilled /\ UNCHANGED <<cached, presence, inflight, faultsLeft>>

\* observe: what the channel says of the attempt this tee is bound to.
observe(r) ==
    IF channel[r].attempt # tee[r].attempt \/ channel[r].state = "Failed" THEN "Lost"
    ELSE IF channel[r].state = "Verified" THEN "Verified" ELSE "Live"

HeldBack(available) ==
    IF available < DeclaredSize - TEE_HOLDBACK THEN available ELSE DeclaredSize - TEE_HOLDBACK

\* Tee::next: look, abort on a lost attempt or a wrong length, else send what
\* may go out; the last chunk of a verified body completes the response.
TeeNext(r) ==
    /\ ReqAt(r, "teeing")
    /\ LET seen == IF tee[r].verified THEN "Verified" ELSE observe(r)
           available == IF tee[r].verified THEN tee[r].available ELSE channel[r].written
           limit == IF seen = "Verified" THEN DeclaredSize ELSE HeldBack(available)
       IN \/ /\ seen = "Lost" \/ (seen = "Verified" /\ available # DeclaredSize)
             /\ ReqGo(r, "aborted") /\ UNCHANGED tee
          \/ /\ seen # "Lost" /\ (seen = "Verified" => available = DeclaredSize)
             /\ tee[r].sent < limit
             /\ tee' = [tee EXCEPT ![r] = [@ EXCEPT !.sent = tee[r].sent + 1, !.available = available, !.verified = (seen = "Verified")]]
             /\ ReqGo(r, IF seen = "Verified" /\ tee[r].sent + 1 = DeclaredSize THEN "delivered" ELSE "teeing")
    /\ Env /\ Unfilled /\ UNCHANGED <<cached, presence, inflight, faultsLeft>>

----------------------------------------------------------------------------
(* The environment.                                                         *)
\* The client hangs up.  A detached fill goes on; an inline one dies with the
\* request, and so does a place in the queue.
DiesWithRequest(r) == fill[r].at # "none" /\ ~fill[r].done /\ ~fill[r].detached
Disconnect(r) ==
    /\ req[r].at \notin Final \cup {"new"}
    /\ ReqGo(r, "gone")
    /\ IF DiesWithRequest(r)
       THEN EndFill(r, "cancelled") ELSE Unfilled /\ UNCHANGED inflight
    /\ Env /\ UNCHANGED <<cached, presence, tee, faultsLeft>>

Refuse ==
    /\ scene.refuse /\ ~refusal /\ refusal' = TRUE
    /\ UNCHANGED <<scene, cached, current, presence, req, fill, channel, tee, inflight, permits, faultsLeft>>

SwitchGeneration ==
    /\ current < scene.generations /\ current' = current + 1
    /\ UNCHANGED <<scene, cached, presence, refusal, req, fill, channel, tee, inflight, permits, faultsLeft>>

RequestStep(r) ==
    \/ ByteGate(r) \/ Lookup(r) \/ HeadObject(r) \/ Record(r) \/ Ensure(r) \/ Inherit(r)
    \/ AwaitFill(r) \/ Serve(r) \/ Anchor(r) \/ TeeNext(r)
FillStep(r) == FillStart(r) \/ Attempt(r) \/ Chunk(r) \/ EndBody(r) \/ Check(r) \/ Put(r)

ProxyNext ==
    \/ \E r \in Requests : RequestStep(r) \/ FillStep(r) \/ Disconnect(r)
    \/ Refuse \/ SwitchGeneration

\* Tasks are scheduled; every download attempt has a deadline.
ProxySpec ==
    /\ ProxyInit /\ [][ProxyNext]_proxyVars
    /\ \A r \in Requests : WF_proxyVars(RequestStep(r)) /\ WF_proxyVars(FillStep(r))

----------------------------------------------------------------------------
\* Type, and the permit account: every permit is free or with a running fill.
ProxyTypeOK ==
    /\ inflight \in 0..(Cardinality(Requests) + 1)
    /\ presence.gen \in 1..scene.generations
    /\ \A r \in Requests : fill[r].attempt \in 0..DOWNLOAD_ATTEMPTS /\ tee[r].sent \in 0..DeclaredSize
    /\ permits + Cardinality({r \in Requests : fill[r].at # "none" /\ ~fill[r].done /\ fill[r].detached})
         = MAX_DETACHED_FILLS

\* One fill of a key at a time, through failures, hang-ups and the pruning of
\* the slot map (acquire_download_slot).
OneFillAtATime == Cardinality({r \in Requests : fill[r].at # "none" /\ ~fill[r].done}) <= 1

\* A complete teed body is one attempt's, and that attempt's bytes are the ones
\* upstream's digest names, however many attempts the fill made for the cache.
TeedBodyVerified ==
    \A r \in Requests : tee[r].sent = DeclaredSize =>
        fill[r].good /\ fill[r].attempt = tee[r].attempt /\ channel[r].state = "Verified"

\* A body streamed while it downloads stops short when a refusal lands before
\* its tail is released (release_refused).
TeedPassesGate == \A r \in Requests : ReqAt(r, "delivered") => ~tee[r].late

\* The presence cache never answers for a bucket it did not ask: a switch of
\* the selection between the HEAD and its recording included.
PresenceHonest == presence.has => cached[presence.gen]

(* proxy.rs: one fill of a file at a time; a body teed to a client is complete only
   with the bytes upstream's digest names and no refusal landed before its tail; the
   presence cache answers only for the bucket it asked. *)
FillSafe ==
    ProxyTypeOK /\ OneFillAtATime /\ TeedBodyVerified /\ TeedPassesGate /\ PresenceHonest
=============================================================================
