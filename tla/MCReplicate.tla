---------------------------- MODULE MCReplicate -----------------------------
(***************************************************************************)
(* Bounded instances of what replication brings together: the records of a *)
(* filename in two buckets (Replicate) and the status of a project in two  *)
(* buckets (ProjectStatus).  A behaviour is one part's; the other part     *)
(* rests in an initial state.                                              *)
(***************************************************************************)
EXTENDS ProjectStatus, Sequences, TLC

CONSTANTS Parts, b1, b2, s1, s2

VARIABLES part,
          race,   \* the requests and tasks that come together
          obj, claims, notes, run, acked, stored, deleted, faults

\* Two quarantines that differ in their reason only, the tie a digest breaks.
TiedDocs == {[status |-> "quarantined", reason |-> r] : r \in Details \cup {None}}
MixedDocs == TiedDocs \cup {Active}
TwoNodes == {<<b1, b2>>, <<b2, b1>>}

\* An arbitrary injection of the status events and of the records into Nat: the order
\* that a hash gives is unrelated to the fields'.
StatusDigest(s) ==
  32 * ((7 * s.epoch + 3) % 11)
  + 16 * Bit(s.reason = None)
  + 4 * (CASE s.status = "active" -> 2 [] s.status = "quarantined" -> 0 [] OTHER -> 1)
  + (CASE s.origin = "private" -> 1 [] s.origin = "mirror" -> 2 [] OTHER -> 0)
RecordDigest(d) ==
  (IF d.sha = s1 THEN 0 ELSE 1) + 2 * rank(d.origin)
  + 8 * (IF d.upload_epoch_ms = None THEN 0 ELSE 1 + d.upload_epoch_ms)
MCDigest(x) == IF "sha" \in DOMAIN x THEN RecordDigest(x) ELSE StatusDigest(x)

Up(b, s, o, t) == [at |-> b, sha |-> s, origin |-> o, time |-> t]
Del(b) == [at |-> b]
Once(kind) == [kinds |-> {kind}, daemon |-> FALSE]

First == Up(b1, s1, "private", 0)
\* A second body within the skew of the first, and one far enough to order.
Close == Up(b2, s2, "private", 1)
Later == Up(b2, s2, "private", 5)
Snapshot == Up(b1, s1, "mirror", 0)

DeleteFirst == {Del(b1)}
Chores == {Once("sweep"), Once("rebuild"), Once("audit")}
Records == {First, Close, Later, Snapshot}
\* Two private uploads race, an upload and its delete, or a mirror snapshot on one
\* bucket and a private upload on another: with a cancellation or a crash, or without.
Faulty == {{First, Close, Once("sweep")}, {First, Later}, {Later, Once("rebuild")},
           {First, Del(b1), Once("sweep")}, {Snapshot, Close}}
Calm == {{First, Later, Once("rebuild")}, {First, Del(b1), Once("audit")},
         {Snapshot, Close, Once("sweep")}}
Races == Faulty \cup Calm

R == INSTANCE Replicate WITH claim <- claims, Uploads <- Records, Deletes <- DeleteFirst,
        Tasks <- Chores, Scenarios <- Races, Selectable <- {b1}, MaxFaults <- 1

-----------------------------------------------------------------------------
records == <<race, obj, claims, notes, run, acked, stored, deleted, faults>>

RaceInit ==
    /\ part \in Parts
    /\ Init
    /\ R!Init /\ race = {x \in R!Procs : run[x] = R!Idle}
    /\ part # "records" => race = {First, Del(b1), Once("audit")}
RaceNext ==
    \/ /\ part = "records" /\ R!Next
       /\ race \in Calm => faults' = 0
       /\ UNCHANGED <<part, race, vars>>
    \* A pass that fails comes in the place of a second write.  The proxy works on b1: it
    \* claims for the mirror and relays there, while operators act on both buckets.
    \/ /\ part = "status" /\ Next
       /\ writes' + aborts' <= 2
       /\ relay'[b2] = None
       /\ claim'[b2] # claim[b2] => claim'[b2] = "private" \/ pass' # pass
       /\ UNCHANGED <<part, records>>
RaceSpec == RaceInit /\ [][RaceNext]_<<part, vars, records>>

-----------------------------------------------------------------------------
(* replicate.rs: the types, no listed sidecar contradicts its body, and a freeze has
   its cause. *)
RecordsSound == R!RecordsSound

(* What no request, copy, freeze, demotion or clean-up of replicate.rs may     *)
(* cost: an acknowledged body, or, where only private uploads meet, the account *)
(* of an acknowledged request in any bucket. Where a mirror snapshot is          *)
(* superseded, settle_mirror_quarantine's window may cost one bucket its copy    *)
(* until the next reconcile (replicate.rs:2077, "It cannot close it").          *)
NothingLost == R!Conservation /\ (Snapshot \in race \/ R!AckTotality)

(* replicate.rs: claims only rise, and tombstones and freezes stay. *)
MarkersPermanent == R!MarkersPermanent

(* status.rs reconcile_status_pair: once a private claim stands somewhere, all buckets
   come to one claim and one status for good, and no mirror's is left among them. *)
StatusConverges == part = "status" /\ Fairness => Converges
=============================================================================
