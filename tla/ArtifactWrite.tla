---------------------------- MODULE ArtifactWrite ----------------------------
(***************************************************************************)
(* How an artifact's bytes reach one bucket of an object store             *)
(* (storage.rs, replicate.rs, publish.rs): uploaders that create the key   *)
(* with one conditional put or through a staged multipart upload, prove    *)
(* what landed with a HEAD and a content probe, and condemn their own      *)
(* debris; the replication copy of another bucket's record, server side or *)
(* streamed, that repairs debris, creates, or freezes a conflict; and a    *)
(* delete of the file.                                                     *)
(* The store may acknowledge a truncated object, or one of the right size  *)
(* with wrong bytes; a write may time out and land later; a future may be  *)
(* dropped at any await, and a process may die.                            *)
(***************************************************************************)
EXTENDS Naturals, FiniteSets, Sequences

CONSTANTS Uploaders,
          Scenes,      \* [bytes, large, mirror, multi, probe, via, source, bound, debris,
                       \* named, deletes]; via is "none", "stream" or the provider of a
                       \* server-side copy
          Nil,         \* no object, no sidecar
          MaxFaults,   \* bound on wrong landings, lost answers and dropped futures
          MaxTries     \* bound on attempts of an uploader and of the copier

\* The record that replication copies is of "a"; an upload here may be of "a" or "b".
\* "short" and "long" have wrong sizes, "rot" the right size and wrong bytes.
WholeBodies == {"a", "b"}
Bodies == WholeBodies \cup {"short", "rot", "long"}
SizeOf(b) == CASE b = "short" -> 0 [] b = "long" -> 2 [] OTHER -> 1

VARIABLES scene,
          body,      \* the object at the key: [b, etag]
          sidecar,   \* the sha the bucket's sidecar names
          source,    \* the source bucket's body and whether its sidecar stands
          fences,    \* the filename's fences here: "frozen", "tombstone"
          kept,      \* the bodies preserved in quarantine
          companion, \* the record's .metadata here: Nil, "whole" or "short"
          multipart, \* each uploader's open multipart upload
          staging,   \* the uploaders whose staging object exists
          up,        \* uploaders: [at, tries, created, etag (of its own object), barred]
          late,      \* uploaders with a timed-out put still on the wire
          sweeping,  \* staging guards that were dropped armed: what is left to do
          cop,       \* the copier: [at, tries, saw, named, published, digest, then]
          del,       \* the delete of the file
          clobbered, \* bodies lost to a copy verb or a condemn's delete, which have no precondition
          faults

artifactVars == <<scene, body, sidecar, source, fences, kept, companion, multipart, staging, up,
                  late, sweeping, cop, del, clobbered, faults>>

Ours(u) == scene.bytes[u]

ArtifactInit ==
    /\ scene \in Scenes
    /\ body = [b |-> scene.debris, etag |-> 0]
    /\ sidecar = scene.named
    /\ source = [b |-> scene.source, named |-> TRUE]
    /\ fences = {} /\ kept = {} /\ clobbered = {}
    /\ companion \in {Nil, "short"}
    /\ multipart = [u \in Uploaders |-> "none"]
    /\ staging = {}
    /\ up = [u \in Uploaders |-> [at |-> IF Ours(u) = Nil THEN "off" ELSE "start", tries |-> 1,
                                  created |-> FALSE, etag |-> 0, barred |-> FALSE]]
    /\ late = {}
    /\ sweeping = [u \in Uploaders |-> <<>>]
    /\ cop = [at |-> IF scene.via = "none" THEN "off" ELSE "start", tries |-> 1, saw |-> body,
              named |-> Nil, published |-> FALSE, digest |-> Nil, then |-> "done"]
    /\ del = IF scene.deletes THEN "start" ELSE "off"
    /\ faults = 0

Fault == faults < MaxFaults /\ faults' = faults + 1
Put(b) == body' = [b |-> b, etag |-> body.etag + 1]
Goes(u, where) == up' = [up EXCEPT ![u].at = where]
UnStage == UNCHANGED <<multipart, staging, sweeping>>
UnCopy == UNCHANGED <<source, fences, kept, companion, cop, del>>

\* What a write without a precondition destroys when another object than it knew of stands.
Loses(knew) == clobbered' = IF body.b = Nil \/ knew THEN clobbered ELSE clobbered \cup {body.b}

-----------------------------------------------------------------------------
(* An uploader: store_artifact_verified with Existing::Reject.             *)

StartUpload(u) ==
    /\ up[u].at = "start"
    /\ IF scene.large
       THEN multipart' = [multipart EXCEPT ![u] = "open"] /\ Goes(u, "parts")
       ELSE Goes(u, "create") /\ UNCHANGED multipart
    /\ UNCHANGED <<scene, body, sidecar, staging, late, sweeping, faults, clobbered>> /\ UnCopy

\* What a create that the store acknowledges may have landed.
Landing(b, good) ==
    /\ Put(b)
    /\ IF b = good THEN UNCHANGED faults ELSE Fault

\* put_payload_if_absent: the conditional put decides between us and a conflict.
Create(u) ==
    /\ up[u].at = "create"
    /\ IF body.b = Nil
       THEN /\ \E b \in {Ours(u), "short", "rot"} : Landing(b, Ours(u))
            /\ up' = [up EXCEPT ![u].at = "head", ![u].etag = body.etag + 1, ![u].barred = (fences # {})]
       ELSE Goes(u, "conflict") /\ UNCHANGED <<body, faults>>
    /\ UNCHANGED <<scene, sidecar, late, clobbered>> /\ UnStage /\ UnCopy

\* bounded_artifact_write gives the put up; it may land later, or never.
CreateTimesOut(u) ==
    /\ up[u].at = "create" /\ Fault
    /\ late' = late \cup {u}
    /\ Goes(u, "failed")
    /\ UNCHANGED <<scene, body, sidecar, clobbered>> /\ UnStage /\ UnCopy

LandsLate(u) ==
    /\ u \in late
    /\ late' = late \ {u}
    /\ IF body.b = Nil THEN Put(Ours(u)) ELSE UNCHANGED body
    /\ UNCHANGED <<scene, sidecar, up, faults, clobbered>> /\ UnStage /\ UnCopy

\* upload_parts: all parts are in, complete() is on the wire ...
Parts(u) ==
    /\ up[u].at = "parts"
    /\ multipart' = [multipart EXCEPT ![u] = "completing"]
    /\ Goes(u, "complete")
    /\ UNCHANGED <<scene, body, sidecar, staging, late, sweeping, faults, clobbered>> /\ UnCopy

\* ... and lands, whether or not anyone still waits for it.
CompleteLands(u) ==
    /\ multipart[u] = "completing"
    /\ multipart' = [multipart EXCEPT ![u] = "none"]
    /\ staging' = staging \cup {u}
    /\ UNCHANGED <<scene, body, sidecar, up, late, sweeping, faults, clobbered>> /\ UnCopy

Completed(u) ==
    /\ up[u].at = "complete" /\ u \in staging
    /\ Goes(u, "publish")
    /\ UNCHANGED <<scene, body, sidecar, late, faults, clobbered>> /\ UnStage /\ UnCopy

\* copy_if_not_exists publishes the staging object under the immutable key.
Publish(u) ==
    /\ up[u].at = "publish"
    /\ IF body.b = Nil
       THEN \E b \in {Ours(u), "short"} : Landing(b, Ours(u))
       ELSE UNCHANGED <<body, faults>>
    /\ up' = [up EXCEPT ![u].at = "unstage", ![u].created = (body.b = Nil),
                           ![u].etag = body.etag + 1, ![u].barred = (fences # {})]
    /\ UNCHANGED <<scene, sidecar, late, clobbered>> /\ UnStage /\ UnCopy

\* The staging object goes before the guard is disarmed.
WithoutStaging(u) == staging \ {u}

Unstage(u) ==
    /\ up[u].at = "unstage"
    /\ staging' = WithoutStaging(u)
    /\ Goes(u, IF up[u].created THEN "head" ELSE "conflict")
    /\ UNCHANGED <<scene, body, sidecar, late, multipart, sweeping, faults, clobbered>> /\ UnCopy

\* StagingGuard::drop: abort the upload first, so that nothing completes after the delete.
Cleanup == <<"abort", "delete">>

\* A timeout, a disconnect or a failed part: the future goes, and its armed guard sweeps.
DropUpload(u) ==
    /\ up[u].at \in {"parts", "complete", "publish", "unstage"} /\ Fault
    /\ Goes(u, "failed")
    /\ sweeping' = [sweeping EXCEPT ![u] = Cleanup]
    /\ UNCHANGED <<scene, body, sidecar, late, multipart, staging, clobbered>> /\ UnCopy

SweepStep(u) ==
    /\ sweeping[u] # <<>>
    /\ IF Head(sweeping[u]) = "abort"
       THEN multipart' = [multipart EXCEPT ![u] = "none"] /\ UNCHANGED staging
       ELSE staging' = staging \ {u} /\ UNCHANGED multipart
    /\ sweeping' = [sweeping EXCEPT ![u] = Tail(@)]
    /\ UNCHANGED <<scene, body, sidecar, up, late, faults, clobbered>> /\ UnCopy

\* check_stored_size: only an answer that contradicts the size condemns the object.
SizeCheck(u) ==
    CASE body.b = Nil -> "failed"
      [] body.b # Nil /\ SizeOf(body.b) # SizeOf(Ours(u)) -> "condemn"
      [] OTHER -> "probe"

HeadBack(u) ==
    /\ up[u].at = "head"
    /\ Goes(u, SizeCheck(u))
    /\ UNCHANGED <<scene, body, sidecar, late, faults, clobbered>> /\ UnStage /\ UnCopy

\* The HEAD never answers: fail loudly and leave the object standing.
Unanswered == "failed"

HeadFails(u) ==
    /\ up[u].at = "head" /\ Fault
    /\ Goes(u, Unanswered)
    /\ UNCHANGED <<scene, body, sidecar, late, clobbered>> /\ UnStage /\ UnCopy

\* The delete names the key, not the object this uploader created.
Condemn(u) ==
    /\ up[u].at = "condemn"
    /\ body' = [body EXCEPT !.b = Nil]
    /\ Loses(up[u].etag = body.etag)
    /\ Goes(u, "failed")
    /\ UNCHANGED <<scene, sidecar, late, faults>> /\ UnStage /\ UnCopy

\* A private record's fences are read before its sidecar is put, a mirror's after.
Proven == IF scene.mirror THEN "sidecar" ELSE "fence"

\* store_content_checksum, on a fleet of several buckets: an MD5 ETag is compared, one that
\* proves nothing on a small object is settled by a re-read, and a large or absent one
\* leaves the size check.
NoProbe(u) == Proven
ContentProbe(u) ==
    IF scene.multi /\ scene.probe = "confirms" /\ body.b \notin {Ours(u), Nil} THEN "condemn" ELSE Proven

Probe(u) ==
    /\ up[u].at = "probe"
    /\ Goes(u, ContentProbe(u))
    /\ UNCHANGED <<scene, body, sidecar, late, faults, clobbered>> /\ UnStage /\ UnCopy

\* The filename's fences are read after the create.  A fenced loser stays, inert; where
\* there is one bucket it is deleted.
Fenced == IF scene.multi THEN "conflict" ELSE "drop_fenced"
Fence(u) ==
    /\ up[u].at = "fence"
    /\ Goes(u, IF fences # {} THEN Fenced ELSE IF scene.mirror THEN "acked" ELSE "sidecar")
    /\ UNCHANGED <<scene, body, sidecar, late, faults, clobbered>> /\ UnStage /\ UnCopy

DropFenced(u) ==
    /\ up[u].at = "drop_fenced"
    /\ body' = [body EXCEPT !.b = Nil]
    /\ Goes(u, "conflict")
    /\ UNCHANGED <<scene, sidecar, late, faults, clobbered>> /\ UnStage /\ UnCopy

\* The private sidecar is put whatever stands; a mirror's is created, or replaces one whose
\* bytes this bucket does not have (install_or_verify_mirror_sidecar).
PutSidecar(u) ==
    /\ up[u].at = "sidecar"
    /\ IF scene.mirror /\ sidecar \notin {Nil, Ours(u)} /\ body.b \notin {Nil, Ours(u)}
       THEN Goes(u, "failed") /\ UNCHANGED sidecar
       ELSE sidecar' = Ours(u) /\ Goes(u, IF scene.mirror THEN "fence" ELSE "acked")
    /\ UNCHANGED <<scene, body, late, faults, clobbered>> /\ UnStage /\ UnCopy

\* A fence that never answers, or a sidecar that cannot be put: a 5xx, and the bytes stand.
LeavesBare(u) ==
    /\ up[u].at \in {"fence", "sidecar"} /\ Fault
    /\ Goes(u, Unanswered)
    /\ UNCHANGED <<scene, body, sidecar, late, clobbered>> /\ UnStage /\ UnCopy

\* The client tries again.  A new attempt has a staging key of its own; here it takes the
\* uploader's slot once the old one is clean.
RetryUpload(u) ==
    /\ up[u].at = "failed" /\ up[u].tries < MaxTries
    /\ sweeping[u] = <<>> /\ u \notin staging /\ multipart[u] = "none"
    /\ up' = [up EXCEPT ![u] = [@ EXCEPT !.at = "start", !.tries = @ + 1, !.created = FALSE, !.barred = FALSE]]
    /\ UNCHANGED <<scene, body, sidecar, late, faults, clobbered>> /\ UnStage /\ UnCopy

-----------------------------------------------------------------------------
(* The copier: copy_live of a record of "a" into this bucket.              *)

CopyGoes(where) == cop' = [cop EXCEPT !.at = where]
UnUpload == UNCHANGED <<scene, companion, multipart, staging, up, late, sweeping, del>>

\* The server-side transport publishes its sidecar first; a stream verifies the source first.
StartCopy ==
    /\ cop.at = "start"
    /\ CopyGoes(IF scene.via = "stream" THEN "stage" ELSE "gate")
    /\ UNCHANGED <<body, sidecar, source, fences, kept, faults, clobbered>> /\ UnUpload

\* install_or_verify_sidecar.
Replaceable == sidecar = Nil \/ sidecar = "a" \/ body.b \in {Nil, "a"}

Gate ==
    /\ cop.at = "gate"
    /\ IF Replaceable
       THEN /\ sidecar' = "a"
            /\ cop' = [cop EXCEPT !.at = "companion", !.then = "server_copy", !.published = TRUE,
                                  !.saw = body, !.named = sidecar]
       ELSE CopyGoes("failed") /\ UNCHANGED sidecar
    /\ UNCHANGED <<body, source, fences, kept, faults, clobbered>> /\ UnUpload

\* What a provider's copy verb may answer: the copy, with or without a digest of what
\* landed; that it cannot; or a failure (an S3 error under a 200, a GCS rewrite that
\* never reports done, an Azure copy still pending).
S3Copy == {"digest", "copied", "not_copyable", "failed"}
GcsCopy == {"digest", "copied", "failed"}
AzureCopy == {"copied", "not_copyable", "failed"}
Answers == CASE scene.via = "s3" -> S3Copy [] scene.via = "gcs" -> GcsCopy [] OTHER -> AzureCopy

\* The copy verb has no create-if-absent: it overwrites.  All it knows of is a body that
\* stood at the gate under a sidecar of its own, which the gate refuses; debris is no loss.
KnownToGate ==
    \/ body.b \notin WholeBodies
    \/ body = cop.saw /\ cop.named = body.b /\ body.b # "a"

ServerCopy ==
    /\ cop.at = "server_copy"
    /\ \E a \in Answers :
          IF a \in {"digest", "copied"}
          THEN \E b \in {source.b, "short"} :
               /\ Landing(b, source.b) /\ Loses(KnownToGate \/ b = body.b)
               /\ cop' = [cop EXCEPT !.at = "verify_copy", !.digest = IF a = "digest" THEN b ELSE Nil]
          ELSE CopyGoes("stage") /\ UNCHANGED <<body, faults, clobbered>>
    /\ UNCHANGED <<sidecar, source, fences, kept>> /\ UnUpload

\* verify_stored_size, then check_copy_checksum where both sides carry one.
Copied == SizeOf(body.b) = SizeOf("a") /\ (scene.bound /\ cop.digest # Nil => cop.digest = "a")

VerifyCopy ==
    /\ cop.at = "verify_copy"
    /\ CopyGoes(IF body.b # Nil /\ Copied THEN "done" ELSE "stage")
    /\ UNCHANGED <<body, sidecar, source, fences, kept, faults, clobbered>> /\ UnUpload

\* A body longer than its sidecar attests is abandoned half read when it goes to a spool.
Outgrown == source.b = "long" /\ scene.large

\* verify_source_artifact: bytes that contradict their sidecar fail the copy, and the
\* sidecar that names them is dropped for a rebuild.
StageSource ==
    /\ cop.at = "stage"
    /\ IF source.b = "a"
       THEN CopyGoes("look") /\ UNCHANGED source
       ELSE source' = [source EXCEPT !.named = Outgrown] /\ CopyGoes("failed")
    /\ UNCHANGED <<body, sidecar, fences, kept, faults, clobbered>> /\ UnUpload

\* artifact_leg: read what stands, with its etag.
Look ==
    /\ cop.at = "look"
    /\ cop' = [cop EXCEPT !.saw = body, !.at = IF body.b \in {Nil, "a"} THEN "create" ELSE "still_names"]
    /\ UNCHANGED <<body, sidecar, source, fences, kept, faults, clobbered>> /\ UnUpload

\* sidecar_still_names: a wrong body is debris only while our sha is published over it.
StillNames == sidecar = "a"

Judge ==
    /\ cop.at = "still_names"
    /\ IF StillNames
       THEN kept' = kept \cup {cop.saw.b} /\ CopyGoes("swap")
       ELSE CopyGoes("create") /\ UNCHANGED kept
    /\ UNCHANGED <<body, sidecar, source, fences, faults, clobbered>> /\ UnUpload

\* put_if_match on the etag that was read; the size is verified.
SwapWins == body = cop.saw

Swap ==
    /\ cop.at = "swap"
    /\ IF SwapWins
       THEN \E b \in {"a", "short"} : Landing(b, "a") /\ CopyGoes(IF b = "a" THEN "create" ELSE "failed")
       ELSE CopyGoes("create") /\ UNCHANGED <<body, faults>>
    /\ UNCHANGED <<sidecar, source, fences, kept, clobbered>> /\ UnUpload

\* create_artifact_verified: what landed short fails the copy and stays.
CreateCopy ==
    /\ cop.at = "create"
    /\ IF body.b = Nil
       THEN \E b \in {"a", "short"} : Landing(b, "a") /\ CopyGoes(IF b = "a" THEN "landed" ELSE "failed")
       ELSE CopyGoes("raced") /\ UNCHANGED <<body, faults>>
    /\ UNCHANGED <<sidecar, source, fences, kept, clobbered>> /\ UnUpload

\* The winner of the create: ours, a record of its own, or a conflict to freeze.
Raced ==
    /\ cop.at = "raced"
    /\ CopyGoes(CASE body.b = "a" -> "landed"
                  [] body.b = Nil -> "failed"
                  [] body.b \notin {"a", Nil} /\ ~cop.published /\ sidecar = body.b -> "failed"
                  [] OTHER -> "freeze")
    /\ UNCHANGED <<body, sidecar, source, fences, kept, faults, clobbered>> /\ UnUpload

\* freeze_copy_race: the source's side, where nobody else acts here, then this bucket's:
\* the marker, the quarantine copy, the tombstone, and only then the record.
FreezeSource ==
    /\ cop.at = "freeze"
    /\ kept' = kept \cup ({source.b} \ {Nil})
    /\ source' = [b |-> Nil, named |-> FALSE]
    /\ CopyGoes("mark")
    /\ UNCHANGED <<body, sidecar, fences, clobbered, faults>> /\ UnUpload

FreezeMark ==
    /\ cop.at = "mark"
    /\ fences' = fences \cup {"frozen"}
    /\ CopyGoes("quarantine")
    /\ UNCHANGED <<body, sidecar, source, kept, clobbered, faults>> /\ UnUpload

FreezeKeep ==
    /\ cop.at = "quarantine"
    /\ kept' = kept \cup ({body.b} \ {Nil})
    /\ CopyGoes("entomb")
    /\ UNCHANGED <<body, sidecar, source, fences, clobbered, faults>> /\ UnUpload

FreezeEntomb ==
    /\ cop.at = "entomb"
    /\ fences' = fences \cup {"tombstone"}
    /\ CopyGoes("drop")
    /\ UNCHANGED <<body, sidecar, source, kept, clobbered, faults>> /\ UnUpload

FreezeDrop ==
    /\ cop.at = "drop"
    /\ body' = [body EXCEPT !.b = Nil]
    /\ sidecar' = Nil /\ companion' = Nil
    /\ CopyGoes("off")
    /\ UNCHANGED <<scene, source, fences, kept, clobbered, faults, multipart, staging, up, late,
                   sweeping, del>>

\* A freeze that fails half way is taken up again by the next merge.
FreezeFails ==
    /\ cop.at \in {"mark", "quarantine", "entomb", "drop"} /\ Fault
    /\ CopyGoes("freeze")
    /\ UNCHANGED <<body, sidecar, source, fences, kept, clobbered>> /\ UnUpload

\* copy_truth: what landed is looked at again before the sidecar that names it.
Recheck == body.b # Nil /\ SizeOf(body.b) = SizeOf("a")

CopyTruth ==
    /\ cop.at = "landed"
    /\ IF cop.published THEN CopyGoes("done")
       ELSE CopyGoes(IF Recheck THEN "truth" ELSE "failed")
    /\ UNCHANGED <<body, sidecar, source, fences, kept, faults, clobbered>> /\ UnUpload

InstallTruth ==
    /\ cop.at = "truth"
    /\ IF Replaceable
       THEN sidecar' = "a" /\ cop' = [cop EXCEPT !.at = "companion", !.then = "done"]
       ELSE CopyGoes("failed") /\ UNCHANGED sidecar
    /\ UNCHANGED <<body, source, fences, kept, faults, clobbered>> /\ UnUpload

\* put_if_absent_or_verify: a companion is created, or compared and, where debris stands
\* under its key, overwritten; either way it is read back (Existing::Repair).
AfterCompare == IF companion = "whole" THEN cop.then ELSE "overwrite"

Companion ==
    /\ \/ /\ cop.at = "companion"
          /\ IF companion = Nil
             THEN \E b \in {"whole", "short"} :
                    /\ companion' = b
                    /\ IF b = "whole" THEN CopyGoes(cop.then) /\ UNCHANGED faults
                                      ELSE CopyGoes("failed") /\ Fault
             ELSE CopyGoes(AfterCompare) /\ UNCHANGED <<companion, faults>>
       \/ /\ cop.at = "overwrite"
          /\ companion' = "whole"
          /\ CopyGoes(cop.then) /\ UNCHANGED faults
    /\ UNCHANGED <<scene, body, sidecar, source, fences, kept, multipart, staging, up, late,
                   sweeping, del, clobbered>>

\* The repair note brings the record back: records that name one sha read as agreed and
\* only their companions are filled in (repair_same_sha_companions).
RetryCopy ==
    /\ cop.at = "failed" /\ cop.tries < MaxTries /\ source.named
    /\ LET agreed == sidecar = "a" /\ body.b # Nil
       IN cop' = [cop EXCEPT !.at = IF agreed THEN "companion" ELSE "start", !.tries = @ + 1,
                     !.then = "agreed", !.published = FALSE, !.digest = Nil]
    /\ UNCHANGED <<body, sidecar, source, fences, kept, faults, clobbered>> /\ UnUpload

-----------------------------------------------------------------------------
(* The delete of a private file: delete_record.                            *)

UnDelete == UNCHANGED <<scene, source, kept, multipart, staging, up, late, sweeping, cop,
                        clobbered>>

StartDelete ==
    /\ del = "start" /\ body.b # Nil
    /\ del' = "entomb"
    /\ UNCHANGED <<body, sidecar, fences, companion, faults>> /\ UnDelete

\* The tombstone comes first, then the body, then what describes it.
BarsName == fences \cup {"tombstone"}
Tombstone ==
    /\ del = "entomb"
    /\ fences' = BarsName
    /\ del' = "body"
    /\ UNCHANGED <<body, sidecar, companion, faults>> /\ UnDelete

DeleteBody ==
    /\ del = "body"
    /\ body' = [body EXCEPT !.b = Nil]
    /\ del' = "companions"
    /\ UNCHANGED <<sidecar, fences, companion, faults>> /\ UnDelete

DeleteCompanions ==
    /\ del = "companions"
    /\ sidecar' = Nil /\ companion' = Nil
    /\ del' = "off"
    /\ UNCHANGED <<body, fences, faults>> /\ UnDelete

DeleteFails ==
    /\ del \in {"entomb", "body", "companions"} /\ Fault
    /\ del' = "off"
    /\ UNCHANGED <<body, sidecar, fences, companion>> /\ UnDelete

ArtifactNext ==
    \/ \E u \in Uploaders :
          \/ StartUpload(u) \/ Create(u) \/ CreateTimesOut(u) \/ LandsLate(u)
          \/ Parts(u) \/ CompleteLands(u) \/ Completed(u) \/ Publish(u) \/ Unstage(u)
          \/ DropUpload(u) \/ SweepStep(u)
          \/ HeadBack(u) \/ HeadFails(u) \/ Condemn(u) \/ Probe(u) \/ Fence(u) \/ DropFenced(u)
          \/ PutSidecar(u) \/ LeavesBare(u) \/ RetryUpload(u)
    \/ StartCopy \/ Gate \/ ServerCopy \/ VerifyCopy \/ StageSource \/ Look \/ Judge \/ Swap
    \/ CreateCopy \/ Raced \/ FreezeSource \/ FreezeMark \/ FreezeKeep \/ FreezeEntomb \/ FreezeDrop
    \/ FreezeFails \/ CopyTruth \/ InstallTruth \/ Companion \/ RetryCopy
    \/ StartDelete \/ Tombstone \/ DeleteBody \/ DeleteCompanions \/ DeleteFails

\* The runtime runs every dropped guard's cleanup.
ArtifactSpec == ArtifactInit /\ [][ArtifactNext]_artifactVars /\ \A u \in Uploaders : WF_artifactVars(SweepStep(u))

-----------------------------------------------------------------------------
\* The types of the state; an uploader that has left its upload behind holds no staging
\* object unless its guard is still sweeping.
ArtifactTypeOK ==
    /\ body.b \in Bodies \cup {Nil} /\ body.etag \in Nat
    /\ sidecar \in WholeBodies \cup {Nil}
    /\ kept \subseteq Bodies
    /\ \A u \in Uploaders : up[u].at \in {"head", "probe", "fence", "sidecar", "acked", "conflict"}
                            => u \notin staging /\ multipart[u] = "none"

\* An acknowledged upload's key holds its bytes under its sidecar, or they are kept in
\* quarantine (a freeze, or a repair that took an upload without its sidecar yet for
\* debris), or the file was deleted since; and the name it took was not fenced when it took
\* it.  A wrong body of the right size that no ETag proves gets past
\* (storage.rs store_artifact_verified), and so does a body that another bucket's record
\* was copied over, or that a condemning uploader deleted in place of its own (clobbered:
\* replicate.rs copy_live names that window; storage.rs calls the condemn safe).
AckedStands ==
    \A u \in Uploaders : up[u].at = "acked" =>
        /\ ~up[u].barred
        /\ \/ Ours(u) \in clobbered
           \/ Ours(u) \in kept
           \/ "tombstone" \in fences /\ scene.deletes
           \/ /\ sidecar = Ours(u)
              /\ body.b = Ours(u) \/ (body.b = "rot" /\ ~(scene.multi /\ scene.probe = "confirms"))

\* A finished copy left the source's bytes under their sidecar with a whole companion,
\* unless the file was deleted since, or the source was wrong and there was no checksum on
\* both sides to tell (replicate.rs server_side_copy_artifact, put_if_absent_or_verify).
\* Not where the copy displaced an upload's whole body (clobbered, or a repair's kept):
\* that upload, past its fences, still puts its own sidecar over the copied bytes.
CopyStands ==
    cop.at = "done" /\ fences = {} /\ clobbered = {} /\ "b" \notin kept =>
        /\ sidecar = "a"
        /\ companion = "whole"
        /\ body.b = "a" \/ (source.b = "rot" /\ ~(scene.bound /\ cop.digest # Nil))

\* Until a freeze or a delete retires the filename no step removes or replaces a whole body
\* without keeping a copy of it: a condemned object is proven debris, a repair is
\* conditional (storage.rs SizeCheck::Unknown, replicate.rs artifact_leg).  The writes that
\* carry no precondition are the exception, and only for a body they did not know of.
BytesKept ==
    [][body.b \in WholeBodies /\ fences = {} /\ body'.b # body.b
        => body.b \in kept' \cup clobbered']_artifactVars
=============================================================================
