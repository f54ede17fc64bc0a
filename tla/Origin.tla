----------------------------- MODULE Origin -----------------------------
(***************************************************************************)
(* The origin claim of one package in one bucket (src/src/origin.rs) and   *)
(* everyone who writes under it: pull-through fills, private uploads,      *)
(* mirror uploads, the demotion replication performs, the audit's sweep of *)
(* orphaned sidecars (src/src/tombstone.rs) and its reclamation of an      *)
(* empty mirror claim, and the operator's release with its roll-back.  One *)
(* filename: its body and its sidecar are two objects, and a writer may    *)
(* die between any two of its storage calls.  Every put of the claim       *)
(* carries a nonce, so a claim is read and compared with its version.      *)
(* Tombstone and freeze fences belong to Replicate; several buckets to     *)
(* Replicate too: the demotion stands for what a peer bucket's private     *)
(* truth does here.                                                        *)
(***************************************************************************)
EXTENDS Naturals, FiniteSets

CONSTANTS
    Writers,      \* the processes that may act on the package
    Role,         \* Role[w]: "fill", "private", "mirror", "demote", "audit", "operator"
    Casts,        \* bounds: the sets of writers considered together
    MaxDeaths     \* bound: writers that die between two storage calls, or calls that fail

ASSUME OriginAssumption ==
    /\ \A w \in Writers : Role[w] \in {"fill", "private", "mirror", "demote", "audit", "operator"}
    /\ \A c \in Casts : c \subseteq Writers
    /\ MaxDeaths \in Nat

VARIABLES
    cast,       \* the writers of this run
    claim,      \* [state, nonce]: the `.pypiron-origin` object, nonce 0 while absent
    body,       \* the artifact: "none", or who wrote it
    side,       \* its sidecar: "none", "mirror" or "private"
    intents,    \* unpaired intents: [by, stale]
    step,       \* step[w]: where writer w is
    seen,       \* seen[w]: the claim version it observed last (its fence, its CAS tag)
    empties,    \* the audit's memory: [nonce, ripe] of a claim it saw empty
    orig,       \* orig[w]: the state the operator released, and whether it rolls back
    deaths,     \* how many writers have died
    aged,       \* is the sidecar older than the sweep's age gate
    swept,      \* ghost: the sweep dropped a sidecar that a writer relied on
    stranded    \* ghost: the `unclaimed` versions whose release broke off

originVars == <<cast, claim, body, side, intents, step, seen, empties, orig, deaths, aged, swept, stranded>>

NoClaim == [state |-> "absent", nonce |-> 0]
NothingEmpty == [nonce |-> 0, ripe |-> FALSE]
Owner(w) == IF Role[w] = "private" THEN "private"
            ELSE IF Role[w] = "operator" THEN orig[w].state ELSE "mirror"
package_has_truth == body # "none" \/ side # "none"
has_live_intent == \E i \in intents : ~i.stale
Uploads(w) == Role[w] \in {"private", "mirror"}

Started(w) ==
    CASE Role[w] = "fill" -> "head"
      [] Uploads(w) -> "observe"
      [] Role[w] = "demote" -> "observe"
      [] OTHER -> "look"

\* The package as it can stand: never claimed, or claimed by a mirror writer
\* that wrote nothing.
OriginInit ==
    /\ cast \in Casts
    /\ claim \in {NoClaim, [state |-> "mirror", nonce |-> 1]}
    /\ body = "none" /\ side = "none"
    /\ intents = {}
    /\ step = [w \in Writers |-> IF w \in cast THEN Started(w) ELSE "done"]
    /\ seen = [w \in Writers |-> NoClaim]
    /\ empties = NothingEmpty
    /\ orig = [w \in Writers |-> [state |-> "mirror", undo |-> FALSE]]
    /\ deaths = 0
    /\ aged = FALSE /\ swept = FALSE /\ stranded = {}

At(w, s) == step[w] = s
Go(w, s) == step' = [step EXCEPT ![w] = s]
Note(w, c) == seen' = [seen EXCEPT ![w] = c]
Unpaired == intents' = intents
Commit(w) == intents' = {i \in intents : i.by # w}
SameRecord == UNCHANGED <<body, side, aged, swept>>
Same == UNCHANGED <<cast, orig, deaths, stranded>>

----------------------------------------------------------------------------
(* claim_origin: the sentinel is replaced by CAS, an absent claim created. *)
\* Every put draws a fresh nonce (encode_claim).
Fresh(state) == [state |-> state, nonce |-> claim.nonce + 1]

\* put_if_match against the version observed.
PutClaim(w, state) == claim = seen[w] /\ claim' = Fresh(state)

\* Where a writer goes with a claim it owns, and with one it does not.
Claimed(w) == IF Role[w] = "fill" THEN "download" ELSE IF Uploads(w) THEN "fence" ELSE "released"
Refused(w) ==
    IF Role[w] = "operator" /\ orig[w].undo THEN "rollback"
    ELSE IF Role[w] \in {"audit", "operator"} THEN "released" ELSE "refused"

\* The CAS of the `unclaimed` version seen; a lost one creates, then re-reads.
ClaimCas(w) ==
    /\ At(w, "cas")
    /\ \/ /\ PutClaim(w, Owner(w))
          /\ Note(w, Fresh(Owner(w))) /\ Go(w, Claimed(w))
       \/ /\ claim # seen[w]
          /\ Go(w, "create") /\ UNCHANGED <<claim, seen>>
    /\ SameRecord /\ Same /\ UNCHANGED <<intents, empties>>

ClaimCreate(w) ==
    /\ At(w, "create")
    /\ \/ /\ claim = NoClaim
          /\ claim' = Fresh(Owner(w)) /\ Note(w, Fresh(Owner(w))) /\ Go(w, Claimed(w))
       \/ /\ claim # NoClaim
          /\ Go(w, "reread") /\ UNCHANGED <<claim, seen>>
    /\ SameRecord /\ Same /\ UNCHANGED <<intents, empties>>

\* The object exists: CAS the sentinel, or take the standing claim's owner and
\* read its version once more before relying on it.
ClaimReread(w) ==
    /\ At(w, "reread")
    /\ \/ claim.state = "unclaimed" /\ Note(w, claim) /\ Go(w, "cas") /\ Unpaired
       \/ claim.state = Owner(w) /\ Go(w, "refetch") /\ UNCHANGED <<seen, intents>>
       \/ /\ claim.state \in {"mirror", "private"} \ {Owner(w)}
          /\ Go(w, Refused(w)) /\ Commit(w) /\ UNCHANGED seen
    /\ SameRecord /\ Same /\ UNCHANGED <<claim, empties>>

ClaimRefetch(w) ==
    /\ At(w, "refetch")
    /\ \/ /\ claim.state = Owner(w)
          /\ Note(w, claim) /\ Go(w, Claimed(w)) /\ Unpaired
       \/ /\ claim.state # Owner(w)
          /\ Go(w, Refused(w)) /\ Commit(w) /\ UNCHANGED seen
    /\ SameRecord /\ Same /\ UNCHANGED <<claim, empties>>

----------------------------------------------------------------------------
(* fill_and_commit: claim, download, type the record, re-check, publish.   *)
FillHead(w) ==
    /\ At(w, "head")
    /\ Go(w, IF body # "none" THEN "done" ELSE "observe")
    /\ SameRecord /\ Same /\ UNCHANGED <<claim, intents, seen, empties>>

FillObserve(w) ==
    /\ Role[w] = "fill" /\ At(w, "observe")
    /\ Note(w, claim)
    /\ Go(w, CASE claim.state = "mirror" -> "download"
               [] claim.state = "private" -> "done"
               [] claim.state = "unclaimed" -> "cas"
               [] OTHER -> "create")
    /\ SameRecord /\ Same /\ UNCHANGED <<claim, intents, empties>>

\* The download fails (the claim is left to the audit), or the verified spool
\* goes on under an intent.
FillDownload(w) ==
    /\ At(w, "download")
    /\ \/ Go(w, "done") /\ Unpaired
       \/ Go(w, "type") /\ intents' = intents \cup {[by |-> w, stale |-> FALSE]}
    /\ SameRecord /\ Same /\ UNCHANGED <<claim, seen, empties>>

\* put_if_absent of the sidecar, or adopt_standing_sidecar over one naming the
\* same mirror bytes, which it rewrites only where its own ranks higher.
Renewed == aged' \in (IF side = "mirror" THEN {aged, FALSE} ELSE {FALSE})
Typed(w) ==
    \/ side \in {"none", "mirror"} /\ side' = "mirror" /\ Renewed /\ Go(w, "recheck") /\ Unpaired
    \/ side = "private" /\ Go(w, "done") /\ Commit(w) /\ UNCHANGED <<side, aged>>
FillType(w) ==
    /\ Role[w] = "fill" /\ At(w, "type")
    /\ Typed(w)
    /\ Same /\ UNCHANGED <<claim, body, swept, seen, empties>>

Fence(w) == claim = seen[w]

FillRecheck(w) ==
    /\ At(w, "recheck")
    /\ \/ Fence(w) /\ Go(w, "put") /\ Unpaired
       \/ ~Fence(w) /\ Go(w, "done") /\ Commit(w)
    /\ SameRecord /\ Same /\ UNCHANGED <<claim, seen, empties>>

FillPut(w) ==
    /\ At(w, "put")
    /\ \/ body = "none" /\ body' = "fill" /\ Go(w, "post") /\ Unpaired
       \/ body # "none" /\ Go(w, "done") /\ Commit(w) /\ UNCHANGED body
    /\ Same /\ UNCHANGED <<claim, side, aged, swept, seen, empties>>

\* post_publish_mirror_claim_is_current decides only what the caller hears: the
\* typed record stays either way.
FillPost(w) ==
    /\ Role[w] = "fill" /\ At(w, "post")
    /\ Go(w, IF claim = seen[w] THEN "filled" ELSE "done") /\ Commit(w)
    /\ SameRecord /\ Same /\ UNCHANGED <<claim, seen, empties>>

----------------------------------------------------------------------------
(* publish_record: an upload of the private world, or a mirror snapshot.    *)
UploadObserve(w) ==
    /\ Uploads(w) /\ At(w, "observe")
    /\ Note(w, claim)
    /\ Go(w, IF claim.state \in {"mirror", "private"} \ {Owner(w)} THEN "refused" ELSE "intent")
    /\ SameRecord /\ Same /\ UNCHANGED <<claim, intents, empties>>

UploadIntent(w) ==
    /\ At(w, "intent")
    /\ intents' = intents \cup {[by |-> w, stale |-> FALSE]}
    /\ Go(w, CASE seen[w].state = "unclaimed" -> "cas"
               [] seen[w].state = "absent" -> "create"
               [] OTHER -> "fence")
    /\ SameRecord /\ Same /\ UNCHANGED <<claim, seen, empties>>

UploadFence(w) ==
    /\ At(w, "fence")
    /\ \/ Fence(w) /\ Go(w, "store") /\ Unpaired
       \/ ~Fence(w) /\ Go(w, "refused") /\ Commit(w)
    /\ SameRecord /\ Same /\ UNCHANGED <<claim, seen, empties>>

\* The conditional create of the body: an existing one is a 409.
\* mutant: an existing body passes for this upload's own
StoreOver(w) == body' = (IF body = "none" THEN Role[w] ELSE body) /\ Go(w, "sidecar") /\ Unpaired
Stored(w) ==
    \/ body = "none" /\ body' = Role[w] /\ Go(w, "sidecar") /\ Unpaired
    \/ body # "none" /\ Go(w, "refused") /\ Commit(w) /\ UNCHANGED body
UploadStore(w) ==
    /\ At(w, "store")
    /\ Stored(w)
    /\ Same /\ UNCHANGED <<claim, side, aged, swept, seen, empties>>

\* A private sidecar overwrites; a mirror one never touches private truth
\* (install_or_verify_mirror_sidecar), and its upload checks the claim again.
UploadSidecar(w) ==
    /\ At(w, "sidecar")
    /\ IF Role[w] = "private"
       THEN side' = "private" /\ aged' = FALSE /\ Go(w, "acked") /\ Commit(w)
       ELSE /\ side' = (IF side = "private" THEN side ELSE "mirror") /\ Go(w, "post") /\ Unpaired
            /\ IF side = "private" THEN UNCHANGED aged ELSE Renewed
    /\ Same /\ UNCHANGED <<claim, body, swept, seen, empties>>

UploadPost(w) ==
    /\ Role[w] = "mirror" /\ At(w, "post")
    /\ Go(w, IF claim = seen[w] THEN "acked" ELSE "refused") /\ Commit(w)
    /\ SameRecord /\ Same /\ UNCHANGED <<claim, seen, empties>>

----------------------------------------------------------------------------
(* ensure_private_origin on behalf of a peer's private truth.              *)
DemoteObserve(w) ==
    /\ Role[w] = "demote" /\ At(w, "observe")
    /\ Note(w, claim)
    /\ Go(w, IF claim.state = "private" THEN "done" ELSE "demote")
    /\ SameRecord /\ Same /\ UNCHANGED <<claim, intents, empties>>

\* demote_observed_mirror, or a first claim of an absent or unclaimed name; a
\* lost race reads again, and ends an operator's roll-back.
Demote(w) ==
    /\ At(w, "demote")
    /\ \/ PutClaim(w, "private") /\ Go(w, IF Role[w] = "operator" THEN "released" ELSE "done")
       \/ claim # seen[w] /\ Go(w, IF Role[w] = "operator" THEN "released" ELSE "observe") /\ UNCHANGED claim
    /\ SameRecord /\ Same /\ UNCHANGED <<intents, seen, empties>>

----------------------------------------------------------------------------
(* reclaim_empty_mirror_claim: the leader's audit, two observations of one  *)
(* claim version a grace apart, both of an empty package.                   *)
Remember(c) == IF empties.nonce = c.nonce THEN empties ELSE [nonce |-> c.nonce, ripe |-> FALSE]

AuditLook(w) ==
    /\ Role[w] = "audit" /\ At(w, "look")
    /\ Note(w, claim)
    /\ IF claim.state # "mirror" \/ package_has_truth \/ has_live_intent
       THEN empties' = NothingEmpty /\ UNCHANGED step
       ELSE /\ empties' = Remember(claim)
            /\ Go(w, IF Remember(claim).ripe THEN "recount" ELSE "look")
    /\ SameRecord /\ Same /\ UNCHANGED <<claim, intents>>

\* has_live_intent once more, then release_observed_empty_mirror's own list.
AuditRecount(w) ==
    /\ Role[w] = "audit" /\ At(w, "recount")
    /\ empties' = NothingEmpty
    /\ Go(w, IF has_live_intent \/ package_has_truth THEN "look" ELSE "release")
    /\ SameRecord /\ Same /\ UNCHANGED <<claim, intents, seen>>

\* The CAS to the sentinel, the audit's and the operator's.
Sentinel(w) == PutClaim(w, "unclaimed")

Release(w) ==
    /\ At(w, "release")
    /\ \/ Sentinel(w) /\ Note(w, Fresh("unclaimed")) /\ Go(w, "relist")
       \/ claim # seen[w] /\ Go(w, "released") /\ UNCHANGED <<claim, seen>>
    /\ SameRecord /\ Same /\ UNCHANGED <<intents, empties>>

----------------------------------------------------------------------------
(* drop_orphan_companions: the audit deletes a sidecar whose body is gone.  *)
(* A fresh listing shows it bodiless and older than the age gate, then no   *)
(* intent is live, then it is deleted.                                      *)
AuditSweep(w) ==
    /\ Role[w] = "audit" /\ At(w, "look")
    /\ body = "none" /\ side # "none" /\ aged
    /\ Go(w, "sweep")
    /\ SameRecord /\ Same /\ UNCHANGED <<claim, intents, seen, empties>>

AuditGate(w) ==
    /\ At(w, "sweep")
    /\ Go(w, IF has_live_intent THEN "look" ELSE "drop")
    /\ SameRecord /\ Same /\ UNCHANGED <<claim, intents, seen, empties>>

\* A writer that opened its intent since, or lets it go stale between its sidecar
\* and its body, loses what it relied on ("a live writer may have been clobbered").
Overtaken == body # "none" \/ \E w \in cast : Role[w] = "fill" /\ step[w] \in {"recheck", "put"}
AuditDrop(w) ==
    /\ At(w, "drop")
    /\ side' = "none" /\ aged' = FALSE /\ swept' = (Overtaken \/ swept)
    /\ Go(w, "look")
    /\ Same /\ UNCHANGED <<claim, body, intents, seen, empties>>

----------------------------------------------------------------------------
\* A writer that appeared in between gets its claim back.
Appeared(w) ==
    \/ package_has_truth
    \/ IF Role[w] = "audit" THEN has_live_intent ELSE intents # {}

Relist(w) ==
    /\ At(w, "relist")
    /\ Go(w, IF Appeared(w) THEN "cas" ELSE IF Role[w] = "operator" THEN "freed" ELSE "released")
    /\ SameRecord /\ Same /\ UNCHANGED <<claim, intents, seen, empties>>

\* The list fails: the operator restores the claim, the audit leaves it released.
Strand(w) == stranded' = stranded \cup {seen[w].nonce}
RelistFails(w) ==
    /\ At(w, "relist")
    /\ deaths < MaxDeaths /\ deaths' = deaths + 1
    /\ IF Role[w] = "operator" THEN Go(w, "cas") /\ UNCHANGED stranded
       ELSE Go(w, "released") /\ Strand(w)
    /\ SameRecord /\ UNCHANGED <<cast, claim, intents, seen, empties, orig>>

\* The pass is over; the next one looks again.
Released(w) ==
    /\ At(w, "released")
    /\ Go(w, "look")
    /\ SameRecord /\ Same /\ UNCHANGED <<claim, intents, seen, empties>>

----------------------------------------------------------------------------
(* release_observed_for_repurpose: run with uploads stopped, as its         *)
(* documentation asks; readers, and so fills, go on.                        *)
Quiet == \A w \in cast : Uploads(w) => step[w] \in {"done", "refused", "acked", "dead"}

OperatorLook(w) ==
    /\ Role[w] = "operator" /\ At(w, "look") /\ Quiet
    /\ Note(w, claim)
    /\ Go(w, IF package_has_truth \/ intents # {} \/ claim.state \in {"absent", "unclaimed"}
             THEN "look" ELSE "release")
    /\ orig' = [orig EXCEPT ![w] = [state |-> IF claim.state = "private" THEN "private" ELSE "mirror",
                                    undo |-> FALSE]]
    /\ SameRecord /\ UNCHANGED <<cast, claim, intents, empties, deaths, stranded>>

\* The name is released here; where the command fails on a later bucket it is
\* claimed back (restore_released_for_repurpose).
OperatorFreed(w) ==
    /\ At(w, "freed")
    /\ \/ Go(w, "released") /\ UNCHANGED <<orig, deaths>>
       \/ /\ deaths < MaxDeaths /\ deaths' = deaths + 1
          /\ Go(w, "cas") /\ orig' = [orig EXCEPT ![w].undo = TRUE]
    /\ SameRecord /\ UNCHANGED <<cast, claim, intents, seen, empties, stranded>>

\* A private name that a mirror writer took meanwhile is demoted again.
OperatorRollback(w) ==
    /\ At(w, "rollback")
    /\ Note(w, claim)
    /\ Go(w, IF orig[w].state = "private" /\ claim.state = "mirror" THEN "demote" ELSE "released")
    /\ SameRecord /\ Same /\ UNCHANGED <<claim, intents, empties>>

----------------------------------------------------------------------------
(* The worker and the environment.                                          *)
\* The §4 backfill of a rebuild: an untyped body takes the package's origin.
Backfill ==
    /\ body # "none" /\ side = "none" /\ claim.state \in {"mirror", "private"}
    /\ side' = claim.state /\ aged' = FALSE
    /\ Same /\ UNCHANGED <<claim, body, swept, intents, step, seen, empties>>

\* The intent grace passes: unpaired intents go stale, a remembered claim is
\* ripe, a sidecar is past the age gate.  An upload has its whole body when it opens its intent, and its claim
\* and bounded put (store_artifact_verified) take less than the grace; a fill
\* may take any time.
Landing == \E w \in cast : Uploads(w) /\ step[w] \in {"cas", "create", "reread", "refetch", "fence", "store"}
Grace ==
    /\ ~Landing
    /\ intents' = {[i EXCEPT !.stale = TRUE] : i \in intents}
    /\ empties' = [empties EXCEPT !.ripe = empties.nonce # 0]
    /\ aged' = (side # "none")
    /\ Same /\ UNCHANGED <<claim, body, side, swept, step, seen>>

\* The tick heals a stale intent: the rebuild consumes it.
Heal ==
    /\ \E i \in intents : i.stale /\ intents' = intents \ {i}
    /\ SameRecord /\ Same /\ UNCHANGED <<claim, step, seen, empties>>

\* A writer dies; what it wrote stays.  The audit's memory dies with its node, and
\* so does the claim back of a name it, or the operator, has just released.
Die(w) ==
    /\ deaths < MaxDeaths
    /\ step[w] \notin {"done", "refused", "acked", "filled", "dead", "look", "released"}
    /\ deaths' = deaths + 1
    /\ Go(w, IF Role[w] \in {"audit", "operator"} THEN "look" ELSE "dead")
    /\ empties' = IF Role[w] = "audit" THEN NothingEmpty ELSE empties
    /\ IF Role[w] \in {"audit", "operator"} /\ step[w] \in {"relist", "cas"} THEN Strand(w) ELSE UNCHANGED stranded
    /\ SameRecord /\ UNCHANGED <<cast, claim, intents, seen, orig>>

WriterStep(w) ==
    \/ ClaimCas(w) \/ ClaimCreate(w) \/ ClaimReread(w) \/ ClaimRefetch(w)
    \/ FillHead(w) \/ FillObserve(w) \/ FillDownload(w) \/ FillType(w)
    \/ FillRecheck(w) \/ FillPut(w) \/ FillPost(w)
    \/ UploadObserve(w) \/ UploadIntent(w) \/ UploadFence(w) \/ UploadStore(w)
    \/ UploadSidecar(w) \/ UploadPost(w)
    \/ DemoteObserve(w) \/ Demote(w)
    \/ AuditSweep(w) \/ AuditGate(w) \/ AuditDrop(w)
    \/ AuditLook(w) \/ AuditRecount(w) \/ Release(w) \/ Relist(w) \/ Released(w)
    \/ OperatorLook(w) \/ OperatorFreed(w) \/ OperatorRollback(w)

OriginNext ==
    \/ \E w \in cast : WriterStep(w) \/ RelistFails(w) \/ Die(w)
    \/ Backfill \/ Grace \/ Heal

\* Requests run on their own; the leader's audit and tick come round for good.
OriginSpec ==
    /\ OriginInit /\ [][OriginNext]_originVars
    /\ \A w \in Writers : WF_originVars(WriterStep(w))
    /\ WF_originVars(Grace) /\ WF_originVars(Heal)

----------------------------------------------------------------------------
\* Type: the claim never goes back to absence, the sidecar and the body are of
\* the kinds their writers write, an audit remembers only versions it saw.
OriginTypeOK ==
    /\ claim.state \in {"absent", "unclaimed", "mirror", "private"} /\ claim.nonce \in Nat
    /\ (claim.nonce = 0) <=> (claim.state = "absent")
    /\ body \in {"none", "fill", "mirror", "private"}
    /\ side \in {"none", "mirror", "private"}
    /\ \A i \in intents : i.by \in cast
    /\ \A w \in Writers : seen[w].nonce <= claim.nonce
    /\ empties.nonce <= claim.nonce

\* Public bytes never become private truth: whatever dies or races, the body of
\* a fill stands under a mirror sidecar, so no backfill can type it from a
\* claim that has gone private (proxy.rs, "launder public bytes").  The exception is
\* the sweep's: a fill that adopts an old sidecar, or rests on its own for longer
\* than the age gate, may find it dropped (tombstone.rs, "vanishingly unlikely").
FillsStayTyped == body = "fill" /\ ~swept => side = "mirror"

\* An acked private upload is this world's truth: its own bytes, its own
\* sidecar (unless a sweep took it), its own claim, whoever filled, mirrored,
\* reclaimed or released around it (publish.rs, "each package belongs to exactly
\* one world").
AckedIsOurs ==
    \A w \in cast : Role[w] = "private" /\ step[w] = "acked" =>
        /\ body = "private" /\ claim.state = "private"
        /\ ~swept => side = "private"

\* A release never strands a record: once no release is under way, truth with a
\* body stands under an owner, so the name cannot be claimed over it - unless the
\* release broke off before it could look again (worker.rs leaves the name released
\* when the second list fails), or a sweep hid the record from that look.
Releasing == \E w \in cast : Role[w] \in {"audit", "operator"} /\ step[w] \in {"relist", "cas", "create", "reread", "refetch"}
BrokenOff == claim.state = "unclaimed" /\ claim.nonce \in stranded
RecordsOwned == body # "none" /\ ~Releasing /\ ~BrokenOff /\ ~swept => claim.state \in {"mirror", "private"}

\* Private is terminal: only the operator's release takes a name out of it.
PrivateTerminal ==
    [][claim.state = "private" /\ claim' # claim
          => \E w \in cast : Role[w] = "operator" /\ step[w] = "release"]_originVars

(* publish.rs, "each package belongs to exactly one world": an acknowledged private
   upload keeps its bytes, record and claim, a fill's public bytes are never typed
   private, and no release leaves a record without an owner - but for the sweep that
   overtakes a writer and the release that breaks off. *)
OriginSafe == OriginTypeOK /\ AckedIsOurs /\ FillsStayTyped /\ RecordsOwned
=============================================================================
