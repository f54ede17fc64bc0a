------------------------ MODULE ProjectStatusProofs ------------------------
(***************************************************************************)
(* The laws that make N buckets converge, for every record, sidecar, claim  *)
(* and status (the unit tests of src/replicate/decide.rs check them on the  *)
(* handful of values they list), and what passes do to a project's status,  *)
(* for any number of buckets, nodes, requests and passes.                   *)
(***************************************************************************)
EXTENDS ProjectStatus, TLAPS

Opposite(side) == IF side = "A" THEN "B" ELSE IF side = "B" THEN "A" ELSE side

Swapped(verdict) == [act |-> verdict.act, side |-> Opposite(verdict.side)]

\* The order behind ranked_merge: x loses to y.
Loses(kx, x, ky, y) == ranked_merge(kx, x, ky, y) = "B"

-----------------------------------------------------------------------------
(* The keys are totally ordered.                                            *)
LEMMA KeyOrder ==
  /\ \A k \in Keys : ~KeyLess(k, k)
  /\ \A k, l \in Keys : KeyLess(k, l) => ~KeyLess(l, k)
  /\ \A k, l \in Keys : ~KeyLess(k, l) /\ ~KeyLess(l, k) => k = l
  /\ \A k, l, m \in Keys : KeyLess(k, l) /\ KeyLess(l, m) => KeyLess(k, m)
BY DEF Keys, KeyLess

(* The shared tiebreak names the same winner whichever bucket is the left    *)
(* one (ranked_merge, "every pair order and every bucket picks the same      *)
(* winner").                                                                 *)
THEOREM RankedMergeSymmetric ==
  ASSUME NEW S, CollisionFree(S),
         NEW x \in S, NEW y \in S, NEW kx \in Keys, NEW ky \in Keys
  PROVE  ranked_merge(ky, y, kx, x) = Opposite(ranked_merge(kx, x, ky, y))
<1>1. /\ KeyLess(kx, ky) => ~KeyLess(ky, kx)
      /\ KeyLess(ky, kx) => ~KeyLess(kx, ky)
  BY KeyOrder
<1>2. Digest(x) \in Nat /\ Digest(y) \in Nat /\ (Digest(x) = Digest(y) => x = y)
  BY DEF CollisionFree
<1> QED
  BY <1>1, <1>2 DEF ranked_merge, Opposite

(* Two documents that the tiebreak calls equal, under keys that depend on    *)
(* nothing but the document, are the same document.                          *)
LEMMA RankedMergeEqual ==
  ASSUME NEW x, NEW y, NEW kx \in Keys, NEW ky \in Keys,
         ranked_merge(kx, x, ky, y) = "Equal"
  PROVE  x = y
BY DEF ranked_merge

(* The tiebreak is transitive, so no three buckets can chase each other.     *)
THEOREM RankedMergeTransitive ==
  ASSUME NEW S, CollisionFree(S),
         NEW x \in S, NEW y \in S, NEW z \in S,
         NEW kx \in Keys, NEW ky \in Keys, NEW kz \in Keys,
         Loses(kx, x, ky, y), Loses(ky, y, kz, z)
  PROVE  Loses(kx, x, kz, z)
<1>1. \/ KeyLess(kx, ky)
      \/ kx = ky /\ Digest(y) < Digest(x)
  <2>1. Digest(x) \in Nat /\ Digest(y) \in Nat
    BY DEF CollisionFree
  <2> QED BY <2>1, KeyOrder DEF Loses, ranked_merge
<1>2. \/ KeyLess(ky, kz)
      \/ ky = kz /\ Digest(z) < Digest(y)
  <2>1. Digest(z) \in Nat /\ Digest(y) \in Nat
    BY DEF CollisionFree
  <2> QED BY <2>1, KeyOrder DEF Loses, ranked_merge
<1>3. CASE KeyLess(kx, ky) \/ KeyLess(ky, kz)
  <2>1. KeyLess(kx, kz)
    BY <1>1, <1>2, <1>3, KeyOrder
  <2>2. ~KeyLess(kz, kx)
    BY <2>1, KeyOrder
  <2> QED BY <2>1, <2>2 DEF Loses, ranked_merge
<1>4. CASE ~KeyLess(kx, ky) /\ ~KeyLess(ky, kz)
  <2>1. kx = kz /\ Digest(z) < Digest(x)
    <3>1. Digest(x) \in Nat /\ Digest(y) \in Nat /\ Digest(z) \in Nat
      BY DEF CollisionFree
    <3> QED BY <1>1, <1>2, <1>4, <3>1
  <2>2. x # z /\ ~(Digest(x) <= Digest(z))
    <3>1. Digest(x) \in Nat /\ Digest(z) \in Nat
      BY DEF CollisionFree
    <3> QED BY <2>1, <3>1
  <2>3. ~KeyLess(kx, kx)
    BY KeyOrder
  <2> QED BY <2>1, <2>2, <2>3 DEF Loses, ranked_merge
<1> QED BY <1>3, <1>4
-----------------------------------------------------------------------------
LEMMA SidecarKeyType ==
  ASSUME NEW sc \in Sidecar, NEW o \in OptOrigin
  PROVE  sidecar_key(sc, o) \in Keys
<1>1. rank(IF o = None THEN "mirror" ELSE o) \in Nat
  BY DEF rank
<1>2. sc.yank_epoch \in Nat /\ Bit(sc.yanked) \in Nat /\ sc.upload_time_revision \in Nat
  BY DEF Sidecar, Bit
<1> QED BY <1>1, <1>2 DEF sidecar_key, Keys

LEMMA StatusKeyType ==
  ASSUME NEW s \in VersionedProjectStatus
  PROVE  status_key(s) \in Keys
<1>1. restriction(s.status) \in Nat
  BY DEF restriction
<1>2. s.epoch \in Nat /\ Bit(s.origin # "mirror") \in Nat /\ Bit(s.origin = "private") \in Nat
  BY DEF VersionedProjectStatus, Bit
<1> QED BY <1>1, <1>2 DEF status_key, Keys

(* Two project statuses, absent ones included, merge to the same winner      *)
(* from either side (status_merge).                                          *)
THEOREM StatusMergeSymmetric ==
  ASSUME CollisionFree(VersionedProjectStatus),
         NEW a \in VersionedProjectStatus \cup {None},
         NEW b \in VersionedProjectStatus \cup {None}
  PROVE  status_merge(b, a) = Opposite(status_merge(a, b))
<1>1. CASE a = None \/ b = None
  BY <1>1 DEF status_merge, Opposite
<1>2. CASE a # None /\ b # None
  <2>1. a \in VersionedProjectStatus /\ b \in VersionedProjectStatus
    BY <1>2
  <2>2. status_key(a) \in Keys /\ status_key(b) \in Keys
    BY <2>1, StatusKeyType
  <2>3. ranked_merge(status_key(b), b, status_key(a), a)
          = Opposite(ranked_merge(status_key(a), a, status_key(b), b))
    BY <2>1, <2>2, RankedMergeSymmetric
  <2> QED BY <1>2, <2>3 DEF status_merge
<1> QED BY <1>1, <1>2

(* No cycle among stored statuses: with private above mirror whatever the    *)
(* epoch, an untagged event ordered by epoch alone was one (status_merge).   *)
THEOREM StatusMergeTransitive ==
  ASSUME CollisionFree(VersionedProjectStatus),
         NEW a \in VersionedProjectStatus, NEW b \in VersionedProjectStatus,
         NEW c \in VersionedProjectStatus,
         status_merge(a, b) = "B", status_merge(b, c) = "B"
  PROVE  status_merge(a, c) = "B"
<1>1. a # None /\ b # None /\ c # None
  BY StatusAssumption DEF VersionedProjectStatus
<1>2. status_key(a) \in Keys /\ status_key(b) \in Keys /\ status_key(c) \in Keys
  BY StatusKeyType
<1>3. /\ Loses(status_key(a), a, status_key(b), b)
      /\ Loses(status_key(b), b, status_key(c), c)
  BY <1>1 DEF Loses, status_merge
<1>4. Loses(status_key(a), a, status_key(c), c)
  BY <1>2, <1>3, RankedMergeTransitive
<1> QED BY <1>1, <1>4 DEF Loses, status_merge

(* The package claim is a join: the same from either side, associative, and  *)
(* never below either claim (claim_join).                                    *)
THEOREM ClaimJoinLaws ==
  ASSUME NEW a \in OptOrigin, NEW b \in OptOrigin, NEW c \in OptOrigin
  PROVE  /\ claim_join(a, b) = claim_join(b, a)
         /\ claim_join(claim_join(a, b), c) = claim_join(a, claim_join(b, c))
         /\ rank(claim_join(a, b)) >= rank(a)
         /\ claim_join(a, b) \in {a, b}
<1>1. \A o \in OptOrigin : rank(o) \in Nat
  BY DEF rank
<1>2. \A o, p \in OptOrigin : rank(o) = rank(p) => o = p
  BY NoneAssumption DEF rank, OptOrigin, Origins
<1> QED BY <1>1, <1>2 DEF claim_join

-----------------------------------------------------------------------------
(* decide names the same physical outcome from either side, so the two       *)
(* buckets' own passes cannot apply opposite verdicts (Verdict, "Symmetric").*)
THEOREM DecideSymmetric ==
  ASSUME CollisionFree(Sidecar), NEW a \in Record, NEW b \in Record
  PROVE  decide(b, a) = Swapped(decide(a, b))
<1>1. state(a) \in States /\ state(b) \in States
  BY DEF state, States
<1>2. CASE state(a) = "Frozen" \/ state(b) = "Frozen"
  BY <1>1, <1>2 DEF decide, decide_frozen, Swapped, Opposite, Verdict, Both
<1>3. CASE /\ state(a) # "Frozen" /\ state(b) # "Frozen"
           /\ state(a) = "Tombstoned" \/ state(b) = "Tombstoned"
  BY <1>1, <1>3 DEF decide, decide_fenced, Swapped, Opposite, Verdict, Both
<1>4. CASE /\ state(a) \notin {"Frozen", "Tombstoned"}
           /\ state(b) \notin {"Frozen", "Tombstoned"}
           /\ ~(state(a) = "Live" /\ state(b) = "Live")
  BY <1>1, <1>4 DEF decide, decide_demoted, decide_fenced, private_live, States, Swapped, Opposite, Verdict, Both
<1>5. CASE state(a) = "Live" /\ state(b) = "Live"
  <2>0. state(a) = "Live" /\ state(b) = "Live"
    BY <1>5
  <2>1. /\ a.sidecar \in Sidecar /\ origin(a) \in Origins
        /\ b.sidecar \in Sidecar /\ origin(b) \in Origins
    BY <2>0, NoneAssumption DEF state, origin, Record, Sidecar, OptOrigin, Origins
  <2>2. sidecar_merge(b.sidecar, origin(b), a.sidecar, origin(a))
          = Opposite(sidecar_merge(a.sidecar, origin(a), b.sidecar, origin(b)))
    <3>1. origin(a) \in OptOrigin /\ origin(b) \in OptOrigin
      BY <2>1 DEF OptOrigin
    <3>2. /\ sidecar_key(a.sidecar, origin(a)) \in Keys
          /\ sidecar_key(b.sidecar, origin(b)) \in Keys
      BY <2>1, <3>1, SidecarKeyType
    <3> QED BY <2>1, <3>2, RankedMergeSymmetric DEF sidecar_merge
  <2>3. same_bytes(b, a) = Swapped(same_bytes(a, b))
    <3>1. sidecar_merge(a.sidecar, origin(a), b.sidecar, origin(b)) \in {"A", "B", "Equal"}
      BY DEF sidecar_merge, ranked_merge
    <3> QED BY <2>2, <3>1 DEF same_bytes, Swapped, Opposite, Verdict, Both
  <2>4. different_bytes(b, a) = Swapped(different_bytes(a, b))
    <3>1. /\ a.sidecar.upload_epoch_ms \in OptNat
          /\ b.sidecar.upload_epoch_ms \in OptNat
      BY <2>1 DEF Sidecar
    <3>2. conflict_winner(b, a) = Opposite(conflict_winner(a, b))
      BY <3>1, NoneAssumption DEF conflict_winner, OptNat, Opposite
    <3>3. conflict_winner(a, b) \in {None, "A", "B"}
      BY DEF conflict_winner
    <3> QED BY <2>1, <3>2, <3>3, NoneAssumption DEF different_bytes, Origins, Swapped, Opposite, Verdict, Both
  <2>5. decide(a, b) = IF a.sidecar.sha = b.sidecar.sha THEN same_bytes(a, b)
                       ELSE different_bytes(a, b)
    BY <2>0 DEF decide
  <2>6. decide(b, a) = IF a.sidecar.sha = b.sidecar.sha THEN same_bytes(b, a)
                       ELSE different_bytes(b, a)
    BY <2>0 DEF decide
  <2> QED BY <2>3, <2>4, <2>5, <2>6
<1> QED
  BY <1>1, <1>2, <1>3, <1>4, <1>5

(* Noop is a durability claim: only two records in the same state, with      *)
(* nothing left to finish on either side, and if live with the same sidecar  *)
(* and so the same bytes, let an upload be acked without a note              *)
(* (Verdict::Noop, "the strongest thing this enum says").                    *)
THEOREM NoopMeansAgreement ==
  ASSUME NEW a \in Record, NEW b \in Record, decide(a, b).act = "Noop"
  PROVE  /\ state(a) = state(b)
         /\ state(a) \in {"Frozen", "Tombstoned", "QuarantinedMirror"}
              => settled(a) /\ settled(b)
         /\ state(a) \notin {"Bare", "Untyped"}
         /\ state(a) = "Live" => a.sidecar = b.sidecar
<1>1. state(a) \in States /\ state(b) \in States
  BY DEF state, States
<1>2. CASE state(a) = "Frozen" \/ state(b) = "Frozen"
  BY <1>1, <1>2 DEF decide, decide_frozen, Verdict, Both
<1>3. CASE /\ state(a) # "Frozen" /\ state(b) # "Frozen"
           /\ state(a) = "Tombstoned" \/ state(b) = "Tombstoned"
  BY <1>1, <1>3 DEF decide, decide_fenced, Verdict, Both
<1>4. CASE /\ state(a) \notin {"Frozen", "Tombstoned"}
           /\ state(b) \notin {"Frozen", "Tombstoned"}
           /\ ~(state(a) = "Live" /\ state(b) = "Live")
  BY <1>1, <1>4 DEF decide, decide_demoted, decide_fenced, private_live, States, Verdict, Both
<1>5. CASE state(a) = "Live" /\ state(b) = "Live"
  <2>0. state(a) = "Live" /\ state(b) = "Live"
    BY <1>5
  <2>1. decide(a, b) = IF a.sidecar.sha = b.sidecar.sha THEN same_bytes(a, b)
                       ELSE different_bytes(a, b)
    BY <2>0 DEF decide
  <2>2. different_bytes(a, b).act # "Noop"
    BY DEF different_bytes, Verdict, Both
  <2>3. same_bytes(a, b).act = "Noop"
          => sidecar_merge(a.sidecar, origin(a), b.sidecar, origin(b)) = "Equal"
    BY DEF same_bytes, Verdict, Both
  <2>4. a.sidecar = b.sidecar
    BY <2>1, <2>2, <2>3 DEF sidecar_merge, ranked_merge
  <2> QED BY <2>0, <2>4
<1> QED BY <1>1, <1>2, <1>3, <1>4, <1>5

-----------------------------------------------------------------------------
(* A project's status.                                                      *)

LEMMA EventType ==
  ASSUME NEW doc \in [status : Statuses, reason : Details \cup {None}],
         NEW epoch \in Nat, NEW tag \in OptOrigin
  PROVE  Event(doc, epoch, tag) \in VersionedProjectStatus
BY DEF Event, VersionedProjectStatus

LEMMA ActiveType == Active \in [status : Statuses, reason : Details \cup {None}]
BY DEF Active, Statuses

LEMMA NextEpochType ==
  ASSUME TypeOK, NEW b \in Buckets
  PROVE  NextEpoch(b) \in Nat
BY DEF TypeOK, Stored, VersionedProjectStatus, NextEpoch

(* Every variable keeps its type: claims, statuses and passes in flight.     *)
THEOREM TypeCorrect == Spec => []TypeOK
<1>1. Init => TypeOK
  BY PairsAssumption DEF Init, TypeOK, Stored, OptOrigin, Request, Pass, Idle
<1>2. TypeOK /\ [Next]_vars => TypeOK'
  <2> SUFFICES ASSUME TypeOK, [Next]_vars PROVE TypeOK'
    OBVIOUS
  <2> USE PairsAssumption
  <2>1. ASSUME NEW b \in Buckets, NEW o \in Origins, Claim(b, o) PROVE TypeOK'
    BY <2>1 DEF TypeOK, Claim, OptOrigin
  <2>2. ASSUME NEW r \in Requests, NEW b \in Buckets, NEW doc \in Docs, BeginWrite(r, b, doc)
        PROVE  TypeOK'
    BY <2>2 DEF TypeOK, BeginWrite, Request
  <2>3. ASSUME NEW r \in Requests, FinishWrite(r) PROVE TypeOK'
    <3>1. /\ request[r].at \in Buckets
          /\ request[r].tag \in OptOrigin
          /\ request[r].doc \in Docs
      BY <2>3 DEF TypeOK, FinishWrite, Request
    <3>2. Event(request[r].doc, NextEpoch(request[r].at), request[r].tag) \in Stored
      BY <3>1, EventType, NextEpochType DEF Stored
    <3>3. status' \in [Buckets -> Stored]
      BY <2>3, <3>1, <3>2 DEF TypeOK, FinishWrite
    <3> QED BY <2>3, <3>3 DEF TypeOK, FinishWrite, Request
  <2>4. ASSUME NEW b \in Buckets, NEW doc \in Docs, Observe(b, doc) PROVE TypeOK'
    BY <2>4 DEF TypeOK, Observe
  <2>5. ASSUME NEW b \in Buckets, Relay(b) PROVE TypeOK'
    <3>1. relay[b] \in Docs
      BY <2>5 DEF TypeOK, Relay
    <3>2. "mirror" \in OptOrigin
      BY DEF OptOrigin, Origins
    <3>3. Event(relay[b], NextEpoch(b), "mirror") \in Stored
      BY <3>1, <3>2, EventType, NextEpochType DEF Stored
    <3>4. status' \in [Buckets -> Stored]
      BY <2>5, <3>3 DEF TypeOK, Relay
    <3> QED BY <2>5, <3>4 DEF TypeOK, Relay
  <2>6. ASSUME NEW p \in Passes, PassStep(p) \/ Abort(p) PROVE TypeOK'
    <3>0. p[1] \in Buckets /\ p[2] \in Buckets
      OBVIOUS
    <3>1. CASE StartPass(p)
      BY <3>0, <3>1 DEF TypeOK, StartPass, Pass
    <3>2. CASE ClaimsAgree(p)
      BY <3>2 DEF TypeOK, ClaimsAgree, Pass, Idle, OptOrigin
    <3>3. CASE ReadLeft(p)
      BY <3>0, <3>3 DEF TypeOK, ReadLeft, Pass
    <3>4. CASE ReadRight(p)
      <4>1. pass[p].left \in Stored
        BY <3>4 DEF TypeOK, ReadRight, Pass
      <4> QED BY <3>0, <3>4, <4>1 DEF TypeOK, ReadRight, Pass
    <3>5. CASE Install(p)
      <4>1. pass[p].left \in Stored /\ pass[p].right \in Stored
        BY <3>5 DEF TypeOK, Install, Pass
      <4>2. Idle \in Pass /\ [phase |-> "left", origin |-> Idle.origin] \in Pass
        BY DEF Idle, Pass, OptOrigin
      <4>3. pass' \in [Passes -> Pass]
        BY <3>5, <4>2 DEF TypeOK, Install, Reread
      <4>4. status' \in [Buckets -> Stored]
        BY <3>0, <3>5, <4>1 DEF TypeOK, Install, PutIfVersion
      <4> QED BY <3>5, <4>3, <4>4 DEF TypeOK, Install
    <3>6. ASSUME NEW i \in {1, 2}, RaiseClaim(p, i) PROVE TypeOK'
      <4>1. pass[p].origin \in [{1, 2} -> OptOrigin] /\ pass[p].phase = "claims"
        BY <3>6 DEF TypeOK, RaiseClaim, Pass
      <4>2. claim_join(claim[p[i]], Join(p)) \in OptOrigin
        BY <3>0, <3>6, <4>1 DEF TypeOK, Join, claim_join
      <4> DEFINE next == [pass[p] EXCEPT !.origin[i] = claim_join(claim[p[i]], Join(p))]
      <4>3. next \in Pass
        BY <4>1, <4>2 DEF TypeOK, Pass
      <4> QED BY <3>0, <3>6, <4>2, <4>3 DEF TypeOK, RaiseClaim
    <3>7. ASSUME NEW i \in {1, 2}, Normalize(p, i) PROVE TypeOK'
      <4>1. Event(Active, 0, "private") \in Stored
        BY EventType, ActiveType DEF Stored, OptOrigin, Origins
      <4>2. status' \in [Buckets -> Stored]
        BY <3>0, <3>7, <4>1 DEF TypeOK, Normalize
      <4>3. pass' \in [Passes -> Pass]
        BY <3>7 DEF TypeOK, Normalize, Pass
      <4> QED BY <3>7, <4>2, <4>3 DEF TypeOK, Normalize
    <3>8. CASE Abort(p)
      BY <3>8 DEF TypeOK, Abort, Pass, Idle, OptOrigin
    <3> QED BY <2>6, <3>1, <3>2, <3>3, <3>4, <3>5, <3>6, <3>7, <3>8 DEF PassStep
  <2>7. CASE UNCHANGED vars
    BY <2>7 DEF TypeOK, vars
  <2> QED BY <2>1, <2>2, <2>3, <2>4, <2>5, <2>6, <2>7 DEF Next
<1> QED BY <1>1, <1>2, PTL DEF Spec

-----------------------------------------------------------------------------
(* The install of a pass replaces the loser it read by the winner it read.   *)
LEMMA InstallRaises ==
  ASSUME CollisionFree(VersionedProjectStatus), TypeOK,
         NEW p \in Passes, Install(p), NEW b \in Buckets, status'[b] # status[b]
  PROVE  /\ status'[b] \in Stored
         /\ status_merge(status[b], status'[b]) = "B"
<1> DEFINE left  == pass[p].left
           right == pass[p].right
<1>0. p[1] \in Buckets /\ p[2] \in Buckets /\ p[1] # p[2]
  BY PairsAssumption
<1>1. left \in Stored /\ right \in Stored
  BY DEF TypeOK, Install, Pass
<1>2. /\ status_merge(left, right) = "A" => status_merge(right, left) = "B"
  BY <1>1, StatusMergeSymmetric DEF Stored, Opposite
<1>3. CASE status_merge(left, right) = "A"
  <2>1. b = p[2] /\ status[b] = right /\ status'[b] = left
    BY <1>0, <1>3 DEF TypeOK, Install, PutIfVersion
  <2> QED BY <1>1, <1>2, <1>3, <2>1
<1>4. CASE status_merge(left, right) = "B"
  <2>1. b = p[1] /\ status[b] = left /\ status'[b] = right
    BY <1>0, <1>4 DEF TypeOK, Install, PutIfVersion
  <2> QED BY <1>1, <1>4, <2>1
<1>5. CASE status_merge(left, right) \notin {"A", "B"}
  BY <1>5 DEF Install
<1> QED BY <1>3, <1>4, <1>5

(* Every step of a pass that changes a bucket's status installs a winner, or *)
(* resets a mirror's event.                                                  *)
LEMMA PassStepRaises ==
  ASSUME CollisionFree(VersionedProjectStatus), TypeOK,
         NEW p \in Passes, PassStep(p) \/ Abort(p),
         NEW b \in Buckets, status'[b] # status[b]
  PROVE  \/ /\ status'[b] \in Stored
            /\ status_merge(status[b], status'[b]) = "B"
         \/ status[b].origin = "mirror" /\ status'[b] = Event(Active, 0, "private")
<1>1. CASE Install(p)
  BY <1>1, InstallRaises
<1>2. ASSUME NEW i \in {1, 2}, Normalize(p, i)
      PROVE  status[b].origin = "mirror" /\ status'[b] = Event(Active, 0, "private")
  BY <1>2 DEF TypeOK, Normalize
<1>3. CASE \/ StartPass(p) \/ ClaimsAgree(p) \/ ReadLeft(p) \/ ReadRight(p) \/ Abort(p)
           \/ \E i \in {1, 2} : RaiseClaim(p, i)
  BY <1>3 DEF StartPass, ClaimsAgree, ReadLeft, ReadRight, Abort, RaiseClaim
<1> QED BY <1>1, <1>2, <1>3 DEF PassStep

(* Passes only raise: whatever operators, relays and other passes do between *)
(* a pass's reads and its write, the write replaces an event by one that     *)
(* outranks it (reconcile_status_pair).                                      *)
THEOREM PassRaisesHolds ==
  ASSUME CollisionFree(VersionedProjectStatus)
  PROVE  Spec => PassRaises
<1> DEFINE Raises ==
      \A p \in Passes : pass'[p] # pass[p] =>
        \A b \in Buckets :
          \/ status'[b] = status[b]
          \/ status_merge(status[b], status'[b]) = "B"
          \/ status[b].origin = "mirror" /\ status'[b] = Event(Active, 0, "private")
<1>1. TypeOK /\ [Next]_vars => [Raises]_vars
  <2> SUFFICES ASSUME TypeOK, Next PROVE Raises
    OBVIOUS
  <2>1. CASE \E p \in Passes : PassStep(p) \/ Abort(p)
    BY <2>1, PassStepRaises
  <2>2. CASE \/ \E b \in Buckets, o \in Origins : Claim(b, o)
             \/ \E r \in Requests, b \in Buckets, doc \in Docs : BeginWrite(r, b, doc)
             \/ \E r \in Requests : FinishWrite(r)
             \/ \E b \in Buckets, doc \in Docs : Observe(b, doc)
             \/ \E b \in Buckets : Relay(b)
    BY <2>2 DEF Claim, BeginWrite, FinishWrite, Observe, Relay
  <2> QED BY <2>1, <2>2 DEF Next
<1> QED BY <1>1, TypeCorrect, PTL DEF Spec, PassRaises

(* An event that outranks an operator's quarantine has a higher epoch or is  *)
(* a quarantine itself.                                                      *)
LEMMA OutranksQuarantine ==
  ASSUME NEW s \in VersionedProjectStatus, NEW t \in Stored,
         s.status = "quarantined", s.origin # "mirror", status_merge(s, t) = "B"
  PROVE  t.epoch > s.epoch \/ t.status = "quarantined"
<1>1. s # None /\ t # None /\ t \in VersionedProjectStatus
  BY StatusAssumption DEF status_merge, Stored, VersionedProjectStatus
<1>2. ~KeyLess(status_key(t), status_key(s))
  BY <1>1 DEF status_merge, ranked_merge
<1>3. s.epoch \in Nat /\ t.epoch \in Nat /\ t.status \in Statuses
  BY <1>1 DEF VersionedProjectStatus
<1>4. /\ status_key(s)[1] = 1 /\ status_key(s)[2] = s.epoch /\ status_key(s)[3] = 3
      /\ status_key(t)[1] \in {0, 1} /\ status_key(t)[2] = t.epoch
      /\ status_key(t)[3] = restriction(t.status)
  BY DEF status_key, Bit, restriction
<1>5. restriction(t.status) >= 3 => t.status = "quarantined"
  BY <1>3 DEF restriction, Statuses
<1>6. restriction(t.status) \in Nat
  BY DEF restriction
<1> QED BY <1>2, <1>3, <1>4, <1>5, <1>6 DEF KeyLess

(* No step of anybody lifts an operator's quarantine except with an event of *)
(* a higher epoch (write_project_status, status_merge).                      *)
THEOREM QuarantineHoldsAlways ==
  ASSUME CollisionFree(VersionedProjectStatus)
  PROVE  Spec => QuarantineHolds
<1> DEFINE Holds ==
      \A b \in Buckets :
        /\ status[b] # None
        /\ status[b].status = "quarantined"
        /\ status[b].origin # "mirror"
        /\ status'[b] # status[b]
        => \/ status'[b].epoch > status[b].epoch
           \/ status'[b].status = "quarantined"
<1>1. TypeOK /\ [Next]_vars => [Holds]_vars
  <2> SUFFICES ASSUME TypeOK, Next, NEW b \in Buckets,
                      status[b] # None, status[b].status = "quarantined",
                      status[b].origin # "mirror", status'[b] # status[b]
               PROVE  \/ status'[b].epoch > status[b].epoch
                      \/ status'[b].status = "quarantined"
    OBVIOUS
  <2> DEFINE Allowed == \/ status'[b].epoch > status[b].epoch
                        \/ status'[b].status = "quarantined"
  <2>0. status[b] \in VersionedProjectStatus /\ status[b].epoch \in Nat
    BY DEF TypeOK, Stored, VersionedProjectStatus
  <2>1. ASSUME NEW r \in Requests, FinishWrite(r) PROVE Allowed
    <3>1. request[r].at = b /\ status'[b].epoch = status[b].epoch + 1
      BY <2>1 DEF TypeOK, FinishWrite, Event, NextEpoch
    <3> QED BY <2>0, <3>1
  <2>2. ASSUME NEW c \in Buckets, Relay(c) PROVE Allowed
    <3>1. c = b /\ status'[b].epoch = status[b].epoch + 1
      BY <2>2 DEF TypeOK, Relay, Event, NextEpoch
    <3> QED BY <2>0, <3>1
  <2>3. ASSUME NEW p \in Passes, PassStep(p) \/ Abort(p) PROVE Allowed
    BY <2>0, <2>3, PassStepRaises, OutranksQuarantine
  <2>4. CASE \/ \E c \in Buckets, o \in Origins : Claim(c, o)
             \/ \E r \in Requests, c \in Buckets, doc \in Docs : BeginWrite(r, c, doc)
             \/ \E c \in Buckets, doc \in Docs : Observe(c, doc)
    BY <2>4 DEF Claim, BeginWrite, Observe
  <2> QED BY <2>1, <2>2, <2>3, <2>4 DEF Next
<1> QED BY <1>1, TypeCorrect, PTL DEF Spec, QuarantineHolds

(* Together: no step of status.rs, publish.rs or proxy.rs undoes a newer     *)
(* event or lifts a quarantine, provided that two different status documents *)
(* have different digests.                                                   *)
THEOREM StatusStepsHold ==
  ASSUME CollisionFree(VersionedProjectStatus)
  PROVE  Spec => StatusSteps
  BY PassRaisesHolds, QuarantineHoldsAlways DEF StatusSteps
=============================================================================
