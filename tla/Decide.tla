------------------------------- MODULE Decide -------------------------------
(***************************************************************************)
(* The merge algebra of src/replicate/decide.rs: what one bucket's objects  *)
(* under a filename mean, and which of two buckets' records, sidecars,      *)
(* claims and project statuses wins. No state: the modules that replicate   *)
(* apply these operators to what they read.                                 *)
(*                                                                         *)
(* A sha256 of a document's bytes is Digest(document), a number of which    *)
(* only the order counts; bytes stand for the document that encodes them.   *)
(***************************************************************************)
EXTENDS Integers

CONSTANTS
  None,         \* an absent Option
  Shas,         \* the sha256 values of artifact bodies
  Details,      \* the write-time metadata that no rank looks at
  CONFLICT_SKEW_MS,
  Digest(_)

ASSUME NoneAssumption ==
  /\ None \notin Shas
  /\ None \notin {"private", "mirror", "A", "B"}
  /\ None \notin Nat
  /\ CONFLICT_SKEW_MS \in Nat

Origins == {"private", "mirror"}
OptOrigin == Origins \cup {None}
OptNat == Nat \cup {None}
Bit(b) == IF b THEN 1 ELSE 0

\* What src/sidecar.rs stores beside a body, as far as a merge can tell.
Sidecar ==
  [sha : Shas, origin : OptOrigin, upload_epoch_ms : OptNat,
   yank_epoch : Nat, yanked : BOOLEAN, upload_time_revision : Nat,
   detail : Details]

ASSUME SidecarAssumption ==
  None \notin [sha : Shas, origin : OptOrigin, upload_epoch_ms : OptNat,
               yank_epoch : Nat, yanked : BOOLEAN, upload_time_revision : Nat,
               detail : Details]

\* One bucket's objects under a filename. The two companions (.metadata and
\* .provenance) are read only together.
Record ==
  [sidecar : Sidecar \cup {None}, has_artifact : BOOLEAN, has_companion : BOOLEAN,
   tombstoned : BOOLEAN, frozen : BOOLEAN, mirror_quarantined : BOOLEAN,
   superseding : BOOLEAN, pkg_origin : OptOrigin]

\* The fallback origin of a record assembled by from_listing.
fallback_origin(has_artifact, sidecar, claim) ==
  IF has_artifact /\ (sidecar = None \/ sidecar.origin = None) THEN claim ELSE None

origin(r) ==
  IF r.sidecar # None /\ r.sidecar.origin # None THEN r.sidecar.origin
  ELSE r.pkg_origin

rank(o) == IF o = "private" THEN 2 ELSE IF o = "mirror" THEN 1 ELSE 0

claim_join(a, b) == IF rank(b) > rank(a) THEN b ELSE a

-----------------------------------------------------------------------------
(* classify_record                                                          *)

leftovers(r) == r.has_artifact \/ r.sidecar # None \/ r.has_companion

States == {"Frozen", "Tombstoned", "QuarantinedMirror", "Absent", "Bare",
           "Untyped", "Live"}

private_sidecar(r) == r.sidecar # None /\ r.sidecar.origin = "private"

state(r) ==
  IF r.frozen THEN "Frozen"
  ELSE IF r.tombstoned THEN "Tombstoned"
  ELSE IF r.mirror_quarantined /\ ~private_sidecar(r) THEN "QuarantinedMirror"
  ELSE IF ~r.has_artifact THEN "Absent"
  ELSE IF r.sidecar = None THEN "Bare"
  ELSE IF origin(r) = None THEN "Untyped"
  ELSE "Live"

\* The footprint of the state and nothing else: no crash left work behind.
settled(r) ==
  /\ ~leftovers(r)
  /\ r.frozen => r.tombstoned
  /\ r.frozen \/ r.tombstoned => ~r.mirror_quarantined

fenced_by_markers(tombstoned, frozen) == tombstoned \/ frozen

is_late_mirror(r, claim) ==
  claim = "private" /\ state(r) = "Live" /\ origin(r) = "mirror"

listed(r, claim) == state(r) \in {"Live", "Untyped"} /\ ~is_late_mirror(r, claim)

-----------------------------------------------------------------------------
(* The tiebreak that every replicated document merges by.                   *)

\* sha256 tells any two documents of S apart.
CollisionFree(S) ==
  /\ \A d \in S : Digest(d) \in Nat
  /\ \A d, e \in S : Digest(d) = Digest(e) => d = e

Keys == Nat \X Nat \X Nat \X Nat

KeyLess(k, l) ==
  \/ k[1] < l[1]
  \/ k[1] = l[1] /\ k[2] < l[2]
  \/ k[1] = l[1] /\ k[2] = l[2] /\ k[3] < l[3]
  \/ k[1] = l[1] /\ k[2] = l[2] /\ k[3] = l[3] /\ k[4] < l[4]

ranked_merge(ka, a, kb, b) ==
  IF KeyLess(kb, ka) THEN "A"
  ELSE IF KeyLess(ka, kb) THEN "B"
  ELSE IF a = b THEN "Equal"
  ELSE IF Digest(a) <= Digest(b) THEN "A" ELSE "B"

sidecar_key(sc, o) ==
  <<rank(IF o = None THEN "mirror" ELSE o), sc.yank_epoch, Bit(sc.yanked),
    sc.upload_time_revision>>

sidecar_merge(a, oa, b, ob) ==
  ranked_merge(sidecar_key(a, oa), a, sidecar_key(b, ob), b)

\* Server-stamped receive times, when they are far enough apart to trust.
conflict_winner(a, b) ==
  LET ta == a.sidecar.upload_epoch_ms
      tb == b.sidecar.upload_epoch_ms
  IN  IF ta = None \/ tb = None THEN None
      ELSE IF ta - tb <= CONFLICT_SKEW_MS /\ tb - ta <= CONFLICT_SKEW_MS THEN None
      ELSE IF ta < tb THEN "A" ELSE "B"

-----------------------------------------------------------------------------
(* decide: the verdict on two buckets' records of one filename.             *)

Verdict(act, side) == [act |-> act, side |-> side]
Both(act) == Verdict(act, "both")

same_bytes(a, b) ==
  LET winner == sidecar_merge(a.sidecar, origin(a), b.sidecar, origin(b))
  IN  IF winner = "Equal" THEN Both("Noop") ELSE Verdict("AdoptSidecar", winner)

different_bytes(a, b) ==
  IF origin(a) # origin(b)
    THEN Verdict("Supersede", IF origin(a) = "private" THEN "A" ELSE "B")
  ELSE IF origin(a) = "mirror" \/ conflict_winner(a, b) = None THEN Both("Freeze")
  ELSE Verdict("QuarantineLoser", conflict_winner(a, b))

decide_frozen(a, b) ==
  LET done(r) == state(r) = "Frozen" /\ settled(r)
  IN  IF done(a) /\ done(b) THEN Both("Noop")
      ELSE IF state(a) = "Frozen" /\ state(b) = "Frozen" THEN Both("FinishFreeze")
      ELSE IF done(a) THEN Verdict("PropagateFreeze", "A")
      ELSE IF done(b) THEN Verdict("PropagateFreeze", "B")
      ELSE Both("FinishFreeze")

decide_fenced(a, b, fence, act) ==
  IF state(a) = fence /\ settled(a) /\ state(b) = fence /\ settled(b)
    THEN Both("Noop") ELSE Both(act)

private_live(r) == state(r) = "Live" /\ origin(r) = "private"

decide_demoted(a, b) ==
  IF private_live(a) THEN Verdict("Supersede", "A")
  ELSE IF private_live(b) THEN Verdict("Supersede", "B")
  ELSE decide_fenced(a, b, "QuarantinedMirror", "SettleMirrorQuarantine")

decide(a, b) ==
  LET some(s) == state(a) = s \/ state(b) = s
  IN  IF some("Frozen") THEN decide_frozen(a, b)
      ELSE IF some("Tombstoned") THEN decide_fenced(a, b, "Tombstoned", "Tombstone")
      ELSE IF some("Bare") \/ some("Untyped") THEN Both("Defer")
      ELSE IF some("QuarantinedMirror") THEN decide_demoted(a, b)
      ELSE IF state(a) = "Absent" /\ state(b) = "Absent" THEN Both("Noop")
      ELSE IF state(b) = "Absent" THEN Verdict("Copy", "A")
      ELSE IF state(a) = "Absent" THEN Verdict("Copy", "B")
      ELSE IF a.sidecar.sha = b.sidecar.sha THEN same_bytes(a, b)
      ELSE different_bytes(a, b)

-----------------------------------------------------------------------------
(* Project status.                                                          *)

Statuses == {"active", "deprecated", "archived", "quarantined"}

restriction(s) ==
  IF s = "active" THEN 0
  ELSE IF s = "deprecated" THEN 1
  ELSE IF s = "archived" THEN 2 ELSE 3

VersionedProjectStatus ==
  [status : Statuses, reason : Details \cup {None}, epoch : Nat, origin : OptOrigin]

ASSUME StatusAssumption ==
  None \notin [status : Statuses, reason : Details \cup {None}, epoch : Nat,
               origin : OptOrigin]

\* ProjectStatusDoc::default() carries no reason.
is_default(s) == s.epoch = 0 /\ s.status = "active" /\ s.reason = None

\* Mutant: of two events of one epoch the more permissive wins.
FailOpenKey(s) ==
  <<Bit(s.origin # "mirror"), s.epoch, 3 - restriction(s.status), Bit(s.origin = "private")>>

status_key(s) ==
  <<Bit(s.origin # "mirror"), s.epoch, restriction(s.status), Bit(s.origin = "private")>>

status_merge(a, b) ==
  IF a = None
    THEN IF b = None \/ is_default(b) THEN "Equal" ELSE "B"
  ELSE IF b = None
    THEN IF is_default(a) THEN "Equal" ELSE "A"
  ELSE ranked_merge(status_key(a), a, status_key(b), b)
=============================================================================
