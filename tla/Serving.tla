------------------------------- MODULE Serving -------------------------------
(***************************************************************************)
(* The multi-bucket read path of serve.rs and app.rs for one filename of   *)
(* one package: a download, its companion and the package index, read from *)
(* the region-local pin ("near") with read-through to the write home       *)
(* ("home"), while uploads, deletes, freezes, cache fills and replication  *)
(* change both buckets one object at a time under the request.  Each await *)
(* on storage is a step of its own.  What changes the buckets is a script: *)
(* the object writes of publish.rs, proxy.rs and replicate.rs in the order *)
(* that code makes them.                                                   *)
(***************************************************************************)
EXTENDS Naturals, Sequences, FiniteSets

CONSTANTS Clients,        \* concurrent requests
          Scripts,        \* what the buckets hold and what happens to them
          MaxReadFaults,  \* bound: failed storage reads
          Absent          \* no such object

VARIABLES shelf,     \* shelf[b]: the objects of bucket b
          script,    \* the object writes still to come
          nearPin,   \* the read pin: "near", or "home" without affinity
          upstream,  \* the upstream answers a listing or companion request
          gets,      \* the requests
          signed,    \* the presign cache: the bucket a cached URL names, or Absent
          readFaults

servingVars == <<shelf, script, nearPin, upstream, gets, signed, readFaults>>

Worlds == {"mirror", "private"}
Sides == {"near", "home"}

\* One bucket's objects: the origin claim, the body and its sidecar (both by
\* the world that wrote them), companion, materialized index, and the fences.
Shelf == [claim: {Absent, "unclaimed"} \cup Worlds,
          body: {Absent} \cup Worlds, sidecar: {Absent} \cup Worlds,
          companion: {Absent} \cup Worlds, index: {Absent} \cup Worlds,
          tombstone: BOOLEAN, frozen: BOOLEAN, mirror_quarantined: BOOLEAN]

Nothing == [claim |-> Absent, body |-> Absent, sidecar |-> Absent,
            companion |-> Absent, index |-> Absent, tombstone |-> FALSE,
            frozen |-> FALSE, mirror_quarantined |-> FALSE]

\* A package as one world's writer leaves it.
Whole(w) == [Nothing EXCEPT !.claim = w, !.body = w, !.sidecar = w,
                            !.companion = w, !.index = w]

Write(b, k, v) == [at |-> b, key |-> k, value |-> v]

\* A publish, in publish.rs's order; the worker's index comes last.
PublishAt(b, w) == <<Write(b, "claim", w), Write(b, "body", w),
                   Write(b, "sidecar", w), Write(b, "companion", w),
                   Write(b, "index", w)>>

\* The objects of a record leave together (one multi-object delete each).
Dropped(b) == <<Write(b, "body", Absent), Write(b, "sidecar", Absent),
                Write(b, "companion", Absent)>>

\* A delete: the index first, the tombstone before the bytes.
Delete(b) == <<Write(b, "index", Absent), Write(b, "tombstone", TRUE)>> \o Dropped(b)

\* A freeze: the fence before the bytes, the index at the next rebuild.
Freeze(b) == <<Write(b, "frozen", TRUE)>> \o Dropped(b)
             \o <<Write(b, "index", Absent)>>

\* A demotion: the claim raised, the fence, the mirror body moved away, and the
\* private truth copied in; the spent fence goes last.
DemoteAt(b) == <<Write(b, "claim", "private"), Write(b, "mirror_quarantined", TRUE)>>
             \o Dropped(b)
             \o <<Write(b, "body", "private"), Write(b, "sidecar", "private"),
                  Write(b, "companion", "private"),
                  Write(b, "mirror_quarantined", FALSE),
                  Write(b, "index", "private")>>

Fenced(s) == s.tombstone \/ s.frozen
Unowned(s) == s.claim \in {Absent, "unclaimed"}
Served(s) == ~ Unowned(s) /\ s.body = s.claim /\ s.sidecar = s.claim /\ ~ Fenced(s)

\* A request: unread holds the markers still to be read, judged the bucket whose
\* check said the file is visible.
Marks == {"tombstone", "frozen", "mirror_quarantined"}
Asking == [at |-> "free", kind |-> "file", pin |-> "home", purpose |-> "serve",
           before |-> Absent, marks |-> [k \in Marks |-> FALSE], unread |-> {},
           judged |-> Absent, seen |-> Absent, down |-> FALSE,
           began |-> [b \in Sides |-> Nothing], status |-> 0, bytes |-> Absent,
           from |-> Absent]

ServingTypeOK ==
  /\ shelf \in [Sides -> Shelf]
  /\ nearPin \in Sides /\ upstream \in {"found", "missing", "unreachable"}
  /\ \A c \in Clients :
       /\ gets[c].kind \in {"file", "companion", "index"}
       /\ gets[c].pin \in Sides /\ gets[c].status \in {0, 200, 404, 503}
       \* A request that answered holds bytes exactly when it says 200, and they
       \* were there to be sent.
       /\ gets[c].at = "answered" => (gets[c].status = 200 <=> gets[c].bytes # Absent)

ServingInit ==
  /\ \E s \in Scripts : /\ shelf = [b \in Sides |-> IF b = "near" THEN s.near ELSE s.home]
                        /\ script = s.writes
                        /\ nearPin = s.nearPin
                        /\ upstream = s.upstream
  /\ gets = [c \in Clients |-> Asking]
  /\ signed = Absent /\ readFaults = 0

-----------------------------------------------------------------------------

\* The next object write of the script lands.
Happen ==
  /\ script # <<>>
  /\ LET w == Head(script) IN shelf' = [shelf EXCEPT ![w.at][w.key] = w.value]
  /\ script' = Tail(script)
  /\ UNCHANGED <<nearPin, upstream, gets, signed, readFaults>>

Turn(c, rec) == gets' = [gets EXCEPT ![c] = rec]
               /\ UNCHANGED <<shelf, script, nearPin, upstream, readFaults>>
Move(c, rec) == Turn(c, rec) /\ UNCHANGED signed

Goto(g, at) == [g EXCEPT !.at = at]
CheckOn(g, at, pin, purpose) == [g EXCEPT !.at = at, !.pin = pin, !.purpose = purpose]
Answer(g, status, bytes, from) ==
  [g EXCEPT !.at = "answered", !.status = status, !.bytes = bytes, !.from = from]
Missing(g) == Answer(g, 404, Absent, Absent)
Changed(g) == Answer(g, 503, Absent, Absent)

\* A request arrives and pins both selections.
Ask(c, k) ==
  /\ gets[c].at \in {"free", "answered"}
  /\ Move(c, [Asking EXCEPT !.kind = k, !.began = shelf,
                !.at = IF k = "index" THEN "proxy" ELSE "claim",
                !.pin = IF k = "index" THEN "home" ELSE nearPin])

\* Any storage read may fail: read_error, a 503 the client retries; a file's bytes
\* are then asked of the write home.
ReadFails(c) ==
  LET g == gets[c] IN
  /\ g.at \notin {"free", "answered"} /\ readFaults < MaxReadFaults
  /\ gets' = [gets EXCEPT ![c] = IF g.at = "deliver" /\ g.kind = "file" /\ nearPin # "home"
                                 THEN Goto(g, "through") ELSE Changed(g)]
  /\ readFaults' = readFaults + 1
  /\ UNCHANGED <<shelf, script, nearPin, upstream, signed>>

-----------------------------------------------------------------------------
(* multi_bucket_file_visible on gets[c].pin, and what follows its answer.   *)

\* A negative answer.  The read pin's is re-checked on the home, unless a fence
\* there makes it final; a companion may still pass upstream bytes through.
Denied(g) == IF g.kind = "file" THEN Missing(g)
                                ELSE CheckOn(g, "unowned", "home", g.purpose)
Visible(g) == IF g.purpose = "pass" THEN Goto(g, "equal")
              ELSE [Goto(g, "deliver") EXCEPT !.judged = g.pin]
NotVisible(g) == IF g.purpose = "serve" /\ g.pin # "home"
                 THEN Goto(g, "fence") ELSE Denied(g)

CheckClaim(c) ==
  LET g == gets[c]  s == shelf[g.pin] IN
  /\ g.at = "claim"
  /\ Move(c, IF Unowned(s) THEN NotVisible(g)
             ELSE [Goto(g, "marks") EXCEPT !.unread = Marks,
                     !.before = IF g.purpose = "pass" THEN @ ELSE s.claim,
                     !.seen = s.claim])

\* The markers are read at once, in any order; the last answer decides.
CheckMark(c, k) ==
  LET g == gets[c]
      r == [g EXCEPT !.marks[k] = shelf[g.pin][k], !.unread = @ \ {k}] IN
  /\ g.at = "marks" /\ k \in g.unread
  /\ Move(c, IF r.unread # {} THEN r
             ELSE IF r.marks.tombstone \/ r.marks.frozen THEN NotVisible(r)
             ELSE Goto(r, IF r.marks.mirror_quarantined \/ r.seen = "private"
                          THEN "sidecar" ELSE "again"))

\* A quarantined name is visible only under a private sidecar, and a private
\* package never shows a mirror record.
Settled(g, sc) == /\ g.marks.mirror_quarantined => sc = "private"
                  /\ g.seen = "private" => sc # "mirror"

CheckSidecar(c) ==
  LET g == gets[c] IN
  /\ g.at = "sidecar"
  /\ Move(c, IF Settled(g, shelf[g.pin].sidecar) THEN Goto(g, "again")
             ELSE NotVisible(g))

\* The claim must not have moved while the markers were read.
CheckAgain(c) ==
  LET g == gets[c] IN
  /\ g.at = "again"
  /\ Move(c, IF shelf[g.pin].claim = g.seen THEN Visible(g) ELSE Changed(g))

\* file_visible_read_through: a fence on the read pin is final; its absence is
\* settled by the write home.
Lenient(g) == CheckOn(g, "claim", "home", "serve")
ReadThrough(g) == IF Fenced(shelf[g.pin]) THEN Denied(g)
                  ELSE CheckOn(g, "claim", "home", "serve")

CheckFence(c) ==
  /\ gets[c].at = "fence"
  /\ Move(c, ReadThrough(gets[c]))

-----------------------------------------------------------------------------
(* Delivery.                                                               *)

Object(g) == IF g.kind = "file" THEN "body" ELSE "companion"
Found(g, b) == Answer(g, 200, shelf[b][Object(g)], b)
OnShelf(g, b) == shelf[b][Object(g)] # Absent
NotStored(g) == IF g.kind = "file" THEN Missing(g) ELSE Goto(g, "pass")

\* The read pin's copy is streamed; what is not there is asked of the write home.
Deliver(c) ==
  LET g == gets[c] IN
  /\ g.at = "deliver"
  /\ Move(c, IF OnShelf(g, nearPin) THEN Found(g, nearPin)
             ELSE IF nearPin = "home" THEN NotStored(g) ELSE Goto(g, "through"))

DeliverThrough(c) ==
  LET g == gets[c] IN
  /\ g.at = "through"
  /\ Move(c, IF OnShelf(g, "home") THEN Found(g, "home") ELSE NotStored(g))

\* A file may be redirected instead: to the cached URL, or to one signed for the
\* bucket that holds the bytes; the client then reads that bucket itself.
Redirect(c) ==
  LET g == gets[c]
      b == IF signed # Absent THEN signed ELSE IF OnShelf(g, nearPin) THEN nearPin ELSE "home" IN
  /\ g.at = "deliver" /\ g.kind = "file"
  /\ Turn(c, [Goto(g, "fetch") EXCEPT !.from = b])
  /\ signed' = b

Fetch(c) ==
  LET g == gets[c] IN
  /\ g.at = "fetch"
  /\ Move(c, IF OnShelf(g, g.from) THEN Found(g, g.from) ELSE Missing(g))

\* The URL's time is up, the selection switches, or this node deletes the file.
Unsign ==
  /\ signed # Absent /\ signed' = Absent
  /\ UNCHANGED <<shelf, script, nearPin, upstream, gets, readFaults>>

\* unowned_companion_passthrough_safe, on the home: no claim, then no body,
\* companion or fence, then still no claim.
CheckUnowned(c) ==
  LET g == gets[c]  s == shelf["home"] IN
  /\ g.at = "unowned"
  /\ Move(c, IF Unowned(s)
             THEN [Goto(g, "keys") EXCEPT !.seen = s.claim] ELSE Missing(g))

CheckKeys(c) ==
  LET g == gets[c]  s == shelf["home"] IN
  /\ g.at = "keys"
  /\ Move(c, IF \/ s.body # Absent \/ s.companion # Absent
                \/ Fenced(s) \/ s.mirror_quarantined
             THEN Missing(g) ELSE Goto(g, "still"))

CheckStill(c) ==
  LET g == gets[c] IN
  /\ g.at = "still"
  /\ Move(c, IF shelf["home"].claim # g.seen THEN Missing(g)
             ELSE Goto(g, IF g.purpose = "pass" THEN "equal" ELSE "pass"))

\* proxy_companion_passthrough: baseline, eligibility, the fetch, visibility
\* again on the home, and the baseline once more.
PassBaseline(c) ==
  LET g == gets[c] IN
  /\ g.at = "pass"
  /\ Move(c, [CheckOn(g, "eligible", "home", "pass") EXCEPT
                !.before = shelf["home"].claim])

PassEligible(c) ==
  LET g == gets[c] IN
  /\ g.at = "eligible" /\ g.kind = "companion"
  /\ Move(c, IF shelf["home"].claim = "private" \/ upstream # "found"
             THEN Missing(g) ELSE Goto(g, "claim"))

Unmoved(g) == shelf["home"].claim = g.before

PassEqual(c) ==
  LET g == gets[c] IN
  /\ g.at = "equal"
  /\ Move(c, IF Unmoved(g) THEN Answer(g, 200, "upstream", "upstream")
             ELSE Missing(g))

-----------------------------------------------------------------------------
(* The package index.                                                      *)

\* proxy_package_index, wholly on the home: baseline, eligibility, the listing
\* rendered, the baseline once more.
ProxyBaseline(c) ==
  LET g == gets[c] IN
  /\ g.at = "proxy"
  /\ Move(c, [Goto(g, "eligible") EXCEPT !.before = shelf["home"].claim])

ProxyEligible(c) ==
  LET g == gets[c] IN
  /\ g.at = "eligible" /\ g.kind = "index"
  /\ Move(c, IF shelf["home"].claim = "private" \/ upstream # "found"
             THEN [CheckOn(g, "local", nearPin, "serve") EXCEPT
                     !.down = /\ shelf["home"].claim # "private"
                              /\ upstream = "unreachable"]
             ELSE Goto(g, "listed"))

ProxyRecheck(c) ==
  LET g == gets[c] IN
  /\ g.at = "listed"
  /\ Move(c, IF Unmoved(g) THEN Answer(g, 200, "upstream", "upstream")
             ELSE Changed(g))

\* Nothing local while the upstream is down is an outage, not an absence.
NoIndex(g) == IF g.down THEN Changed(g) ELSE Missing(g)

\* serve_local_pkg_index: the read pin's claim, confirmed on the home before a
\* name is denied.
LocalClaim(c) ==
  LET g == gets[c]  s == shelf[g.pin] IN
  /\ g.at = "local"
  /\ Move(c, [Goto(g, IF Unowned(s) THEN "confirm" ELSE "page") EXCEPT
                !.before = s.claim])

DenyUnconfirmed(g) == TRUE
ConfirmedAbsent(g) == nearPin = "home" \/ Unowned(shelf["home"])

LocalConfirm(c) ==
  LET g == gets[c] IN
  /\ g.at = "confirm"
  /\ Move(c, IF ConfirmedAbsent(g) THEN NoIndex(g) ELSE Goto(g, "page"))

\* serve_local_index_fenced: the page, then the claim of the bucket it came from.
LocalPage(c) ==
  LET g == gets[c]  s == shelf[g.pin] IN
  /\ g.at = "page"
  /\ Move(c, IF s.index # Absent THEN [Goto(g, "recheck") EXCEPT !.seen = s.index]
             ELSE IF g.pin # "home" THEN CheckOn(g, "rebase", "home", "pass")
             ELSE IF g.purpose = "pass" THEN Goto(g, "recheck") ELSE NoIndex(g))

LocalRebase(c) ==
  LET g == gets[c] IN
  /\ g.at = "rebase"
  /\ Move(c, [Goto(g, "page") EXCEPT !.before = shelf["home"].claim])

LocalRecheck(c) ==
  LET g == gets[c] IN
  /\ g.at = "recheck"
  /\ Move(c, IF shelf[g.pin].claim # g.before THEN Changed(g)
             ELSE IF g.seen = Absent THEN NoIndex(g)
             ELSE Answer(g, 200, g.seen, g.pin))

-----------------------------------------------------------------------------

ServeStep(c) ==
  \/ CheckClaim(c) \/ (\E k \in Marks : CheckMark(c, k)) \/ CheckSidecar(c) \/ CheckAgain(c)
  \/ CheckFence(c) \/ Deliver(c) \/ DeliverThrough(c) \/ Redirect(c) \/ Fetch(c)
  \/ CheckUnowned(c) \/ CheckKeys(c) \/ CheckStill(c)
  \/ PassBaseline(c) \/ PassEligible(c) \/ PassEqual(c)
  \/ ProxyBaseline(c) \/ ProxyEligible(c) \/ ProxyRecheck(c)
  \/ LocalClaim(c) \/ LocalConfirm(c) \/ LocalPage(c) \/ LocalRebase(c)
  \/ LocalRecheck(c)

ServingNext ==
  \/ Happen \/ Unsign
  \/ \E c \in Clients : \/ \E k \in {"file", "companion", "index"} : Ask(c, k)
                        \/ ServeStep(c) \/ ReadFails(c)

ServingSpec == ServingInit /\ [][ServingNext]_servingVars

-----------------------------------------------------------------------------

Answering(c, status) == gets[c].at # "answered" /\ gets'[c].at = "answered"
                        /\ gets'[c].status = status

\* The dependency-confusion defence: upstream bytes, an index or a companion,
\* are never sent once the write home's claim is private, however the claim
\* lands between the request's reads (proxy_package_index, "for a name that
\* gains a local claim mid-serve").
NoUpstreamForPrivate ==
  [][\A c \in Clients : Answering(c, 200) /\ gets'[c].bytes = "upstream" =>
       shelf["home"].claim # "private"]_servingVars

\* A delete or freeze is final: a request that begins with the fence standing on
\* the read pin, or on the bucket that judged the file visible, gets no local bytes
\* from either bucket (file_visible_read_through, "it must not fall back to a stale
\* live copy").  A fence on the home alone does not bind a read pin that has the
\* claim without the body: it judges, and the bytes come from the home until the
\* delete there has taken them.
FencedNotServed ==
  \A c \in Clients :
    LET g == gets[c] IN
    g.at = "answered" /\ g.kind # "index" /\ g.from \in Sides /\ g.status = 200 =>
      ~ Fenced(g.began[nearPin]) /\ ~ Fenced(g.began[g.judged])

\* A lagging region bucket never makes a client miss an acked file: what the
\* home serves from before the request until its answer, under no fence on the
\* read pin, is not answered 404.  A redirect is answered by its bucket, later.
AckedReachable ==
  [][\A c \in Clients :
       Answering(c, 404) /\ gets[c].at # "fetch" /\ Served(shelf["home"]) /\ gets[c].began["home"] = shelf["home"]
         => Fenced(shelf[nearPin]) \/ (gets[c].kind = "index" /\ shelf["home"].index = Absent)
            \/ (gets[c].kind = "companion" /\ shelf["home"].companion = Absent)]_servingVars

SendsDemoted(g) ==
  /\ g.at = "answered" /\ g.kind = "file" /\ g.from \in Sides /\ g.status = 200
  /\ g.began[g.from].claim = "private" /\ g.bytes # "private"
\* A demoted mirror body is never delivered: no request that begins when the
\* claim of the bucket the bytes come from is private is sent mirror bytes from
\* it (serve.rs, "direct and presigned downloads must reject it too").
DemotedNotServed == \A c \in Clients : ~ SendsDemoted(gets[c])

\* What of it holds with two pins: the bucket that judged the file visible does not
\* itself send a mirror body that its private claim had taken over.
JudgeSendsNoDemoted ==
  \A c \in Clients : gets[c].from = gets[c].judged => ~ SendsDemoted(gets[c])

(* serve.rs: a request never gets bytes that a fence, or a demotion on the bucket
   that judged and sent them, took off the shelf before it began, whatever lands
   between its reads. *)
ServingSafe == ServingTypeOK /\ FencedNotServed /\ JudgeSendsNoDemoted
=============================================================================
