----------------------------- MODULE MCRequests -----------------------------
(***************************************************************************)
(* Bounded instances of what a write request meets: the login throttle and *)
(* the tokens it is checked against, the upload handler, the artifact and  *)
(* sidecar writes behind it and the local disk under them.  A behaviour is *)
(* one part's; the others rest in an initial state of theirs.              *)
(***************************************************************************)
EXTENDS DiskStore, Login, Tokens, TLC

CONSTANTS Areas, Nil, Missed, Nothing, c1, c2, u1, u2, a1, a2, a3, a4, a5, g1, g2, g3, n1, n2

VARIABLES part,
          scene, body, sidecar, source, fences, kept, companion, multipart, staging, up, late,
          sweeping, cop, del, clobbered, faults,
          play, record, marks, claimed, rival, edit, dirty, shown, carried, notes, sweep, slips,
          cast, form, stored, hold, queue, spools, lapsed, booting, hour, troubles

\* On disk: a claim that is created and swapped; a body or view that is put, created and
\* deleted; and a sidecar, which is created, swapped, put and deleted.
One(kind, b, w) == [kind |-> kind, bytes |-> b, want |-> w]
Records == {One("create", c1, c1), One("link", c2, c1), One("swap", c2, c1), One("swap", c1, c2), One("get", c1, c1)}
Views == {One("put", c2, c1), One("create", c1, c1), One("delete", c1, c1), One("get", c1, c1)}
Sidecars == {One("create", c1, c1), One("swap", c2, c1), One("put", c2, c2), One("delete", c1, c1)}
Kept == {Records, Views, Sidecars}

\* Logins: a guesser and its neighbour; guessers on many networks, who crowd the table
\* until whole sites share a budget and newcomers are refused.
Sites == (a1 :> "s1") @@ (a2 :> "s1") @@ (a3 :> "s2") @@ (a4 :> "s3") @@ (a5 :> "s4")
Isps == (a1 :> "i1") @@ (a2 :> "i1") @@ (a3 :> "i1") @@ (a4 :> "i2") @@ (a5 :> "i3")
Sends(f) == [a \in Addresses |-> IF a \in DOMAIN f THEN f[a] ELSE {}]
Guessing == {Sends((a1 :> {g1, g2, g3, Valid}) @@ (a2 :> {g1})),
             Sends((a1 :> {g1}) @@ (a2 :> {g1}) @@ (a3 :> {g1}) @@ (a4 :> {g1}) @@ (a5 :> {Valid}))}

\* Tokens: a fast node that mints, and a read-only one.
Clocks == (n1 :> 2) @@ (n2 :> 0)
Credentials == (n1 :> {"reader", "uploader", "admin"}) @@ (n2 :> {"reader"})

\* Artifacts: two uploads of different bytes, private or mirror, on one bucket or several,
\* and over a sidecar that an interrupted copy left; an upload beside a copy, streamed or
\* server-side; uploads beside a delete; a copy alone, over a wrong source or over debris
\* that its own sidecar names.
Plot(b1, b2, via) ==
    [bytes |-> (u1 :> b1 @@ u2 :> b2), large |-> FALSE, mirror |-> FALSE, multi |-> TRUE,
     probe |-> "confirms", via |-> via, source |-> "a", bound |-> FALSE, debris |-> Nil,
     named |-> Nil, deletes |-> FALSE]
Pairs == Plot("a", "b", "none")
Beside == {Plot(b, Nil, v) : b \in {"a", "b"}, v \in {"stream", "s3"}}
Plots ==
    {[Pairs EXCEPT !.large = l, !.probe = p] : l \in BOOLEAN, p \in {"confirms", "size_only"}}
    \cup {[Pairs EXCEPT !.mirror = TRUE, !.named = n] : n \in {Nil, "a"}}
    \cup {[Pairs EXCEPT !.multi = m, !.deletes = TRUE] : m \in BOOLEAN}
    \cup Beside
    \cup {[p EXCEPT !.large = TRUE] : p \in Beside}
    \cup {[p EXCEPT !.mirror = m, !.named = "a"] : p \in Beside, m \in BOOLEAN}
    \cup {[Plot("b", Nil, "s3") EXCEPT !.deletes = TRUE]}
    \cup {[Plot(Nil, Nil, v) EXCEPT !.large = l, !.source = s, !.bound = d, !.debris = x,
             !.named = IF x = Nil THEN Nil ELSE "a"] : l \in BOOLEAN,
             v \in {"s3", "gcs", "azure", "stream"}, s \in {"a", "rot", "long"}, d \in BOOLEAN,
             x \in {Nil, "short", "rot"}}
A == INSTANCE ArtifactWrite WITH Uploaders <- {u1, u2}, Scenes <- Plots, MaxFaults <- 2, MaxTries <- 2

\* Sidecars: two edits at once, of one field or of both, and an edit against each rival.
Yank(v) == [kind |-> "yank", to |-> v]
Date(t) == [kind |-> "time", to |-> t]
Stages ==
    {[multi |-> m, origin |-> "private", edits |-> f, rival |-> "none"] : m \in BOOLEAN,
        f \in {(u1 :> Yank(TRUE)) @@ (u2 :> Yank(FALSE)), (u1 :> Yank(TRUE)) @@ (u2 :> Date(1))}}
    \cup {[multi |-> m, origin |-> "private", edits |-> (u1 :> Date(1)), rival |-> r] :
            m \in BOOLEAN, r \in {"deleted", "frozen"}}
    \cup {[multi |-> TRUE, origin |-> o, edits |-> (u1 :> w), rival |-> "supersede"] :
            o \in {"mirror", "private"}, w \in {Yank(TRUE), Date(1)}}
E == INSTANCE SidecarEdits WITH sidecar <- record, Editors <- {u1, u2}, Plays <- Stages,
                                EditTries <- 2, MaxSlips <- 2

\* Uploads: who sends which parts in which order.
Part(f, v) == [field |-> f, value |-> v]
Content == Part("content", "bytes")
Forms == {<<Content>>, <<Content, Part("mirror", "true"), Part("upload_time", "t"), Part("yanked", "true")>>,
          <<Part("mirror", "true"), Part("upload_time", "t"), Content, Part("mirror", "false")>>,
          <<Part("migration", "true"), Content, Part("upload_time", "t"), Content>>,
          <<Part("mirror", "true"), Part("migration", "true"), Part("mirror", "empty"), Content>>,
          <<Part("attestations", "huge"), Content>>,
          <<Part("attestations", "a"), Content>>,
          <<Part("name", "n"), Part("mirror", "true"), Part("yanked", "true"), Part("upload_time", "t"), Content>>}
Plain == [cred |-> "uploader", parts |-> <<Content>>, size |-> 1, flaw |-> "none"]
Sole(c) == (u1 :> c) @@ (u2 :> [Plain EXCEPT !.cred = "reader"])
Casts == {(u1 :> [Plain EXCEPT !.cred = "admin", !.parts = f]) @@ (u2 :> Plain) : f \in Forms}
    \cup {Sole([Plain EXCEPT !.parts = f]) : f \in Forms}
    \cup {Sole([cred |-> "admin", parts |-> <<Content, Part("mirror", m)>>, size |-> 2, flaw |-> w]) :
            m \in {"true", "false"}, w \in {"none", "filename", "digest", "version", "legacy", "time"}}
\* A fenced or claimed name meets the short forms only.
Shortest == {c \in Casts : \A u \in {u1, u2} : Len(c[u].parts) <= 2 /\ c[u].flaw = "none"}
U == INSTANCE UploadHandler WITH
        leaked <- spools, faults <- troubles, Uploads <- {u1, u2}, BodyLimit <- 2,
        AdminBodyLimit <- 4, MaxFields <- 3, Attempts <- 2, Threshold <- 2, Footprint <- 1,
        Budget <- 2, ParseSlots <- 1, Deadline <- 1, StaleAge <- 2, MaxFaults <- 1

----------------------------------------------------------------------------
First(S) == CHOOSE x \in S : TRUE
artifacts == <<scene, body, sidecar, source, fences, kept, companion, multipart, staging, up, late,
               sweeping, cop, del, clobbered, faults>>
edits == <<play, record, marks, claimed, rival, edit, dirty, shown, carried, notes, sweep, slips>>
handlers == <<cast, form, stored, hold, queue, spools, lapsed, booting, hour, troubles>>
Init ==
    /\ part \in Areas
    /\ DiskInit /\ (part # "disk" => discipline = First(Disciplines))
    /\ LoginInit /\ (part # "login" => crowd = First(Crowds))
    /\ TokensInit
    /\ A!ArtifactInit /\ (part # "artifact" => scene = First(Plots))
                       /\ (companion # Nil => part = "artifact" /\ scene.bytes[u1] = Nil)
    /\ E!EditsInit /\ (part # "edits" => play = First(Stages))
    /\ U!UploadInit /\ (part # "upload" => cast = First(Casts))
                    /\ (hold # "none" => part = "upload" /\ cast \in Shortest)
Next ==
    \/ /\ part = "disk" /\ DiskNext
       /\ UNCHANGED <<part, loginVars, tokenVars, artifacts, edits, handlers>>
    \/ /\ part = "login" /\ LoginNext
       /\ UNCHANGED <<part, diskVars, tokenVars, artifacts, edits, handlers>>
    \/ /\ part = "tokens" /\ TokensNext
       /\ UNCHANGED <<part, diskVars, loginVars, artifacts, edits, handlers>>
    \/ /\ part = "artifact" /\ A!ArtifactNext
       /\ UNCHANGED <<part, diskVars, loginVars, tokenVars, edits, handlers>>
    \/ /\ part = "edits" /\ E!EditsNext
       /\ UNCHANGED <<part, diskVars, loginVars, tokenVars, artifacts, handlers>>
    \/ /\ part = "upload" /\ U!UploadNext
       /\ UNCHANGED <<part, diskVars, loginVars, tokenVars, artifacts, edits>>
requestVars == <<part, diskVars, loginVars, tokenVars, artifacts, edits, handlers>>
Spec == Init /\ [][Next]_requestVars

----------------------------------------------------------------------------
(* storage.rs store_artifact_verified, replicate.rs server_side_copy_artifact: an
   acknowledged upload and a finished copy leave their own bytes under their own
   sidecar, whichever of two writers, a delete, a freeze or a fault came between;
   the bytes that a writer without a precondition destroys are named exceptions. *)
ArtifactSafe == A!ArtifactTypeOK /\ A!AckedStands /\ A!CopyStands

(* auth.rs LoginThrottle, token.rs: guesses that overlap, repeat or are dropped
   share one budget and leak none of it; a leaked token ends with its TTL, and
   gives no more than the node it is shown to can grant. *)
AccessSafe ==
    /\ LoginTypeOK /\ GuessBudget /\ SlotsHeld
    /\ TokensTypeOK /\ AccessEnds /\ CappedByNode

(* publish.rs edit_sidecar, replicate.rs fanout_sync: an edit that met a fence is not
   acknowledged, and one that is acknowledged has been carried to the peers or is
   owed to them by a repair note. *)
EditsSafe == E!EditsTypeOK /\ E!FencedNotAcked /\ E!AckedCarried

(* publish.rs legacy_upload, sync.rs upload_via_http: no order of the form's parts
   reaches an admin's privilege, the spool outlives the request that reads it, and
   the retrying client's account of what landed is true. *)
UploadSafe == U!UploadTypeOK /\ U!PrivilegedByAdmin /\ U!ClientHonest

(* What no step of a write may do: replace a whole body that is kept nowhere (but for
   the writes without a precondition that ArtifactWrite names), lose another edit of
   the same sidecar, clear an edit the sidecar does not hold (but for one whose
   private record another superseded), or evaluate a credential of a locked-out
   address (storage.rs SizeCheck, publish.rs edit_sidecar, auth.rs LoginThrottle). *)
RequestSteps == A!BytesKept /\ E!NoLostEdit /\ E!ClearedStands /\ LockoutHolds
=============================================================================
