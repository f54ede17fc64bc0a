------------------------------ MODULE Replicate -----------------------------
(***************************************************************************)
(* One filename in several buckets: uploads and deletes (publish.rs), the   *)
(* replication passes that carry them from bucket to bucket (replicate.rs), *)
(* and each bucket's own rebuild and audit.                                 *)
(*                                                                         *)
(* A process is a request or a background task. It runs a program: a        *)
(* sequence of steps, each one storage call, or a conditional-write loop,   *)
(* which ends with one write over what it last read. Between two steps of a *)
(* process anybody else acts, a pass may be cancelled and a process may die.*)
(***************************************************************************)
EXTENDS Decide, Sequences, FiniteSets

CONSTANTS
  Buckets,
  Uploads,      \* records [at, sha, origin, time]: requests to store the file
  Deletes,      \* records [at]: requests to delete it
  Tasks,        \* records [kinds, daemon]: background work, done once or forever
  Scenarios,    \* which of these requests and tasks come together
  Selectable,   \* the buckets that a node may have selected for a reconcile
  MaxFaults     \* bound: cancelled passes and dead processes

Kinds == {"sweep", "diff", "rebuild", "audit"}

(* Uploads \subseteq [at : Buckets, sha : Shas, origin : Origins, time : Nat],
   Deletes \subseteq [at : Buckets], Tasks \subseteq [kinds : SUBSET Kinds,
   daemon : BOOLEAN], Scenarios \subseteq SUBSET (Uploads \cup Deletes \cup Tasks),
   Selectable \subseteq Buckets, MaxFaults \in Nat. *)

ClientRequests == Uploads \cup Deletes
Procs == ClientRequests \cup Tasks

VARIABLES
  obj,          \* obj[b]: the objects of bucket b under the filename
  claim,        \* claim[b]: the package's .origin, None when unclaimed
  notes,        \* notes[b]: requests whose bucket keeps a repair note for b
  run,          \* run[x]: what process x is doing
  acked,        \* requests that were answered with success
  stored,       \* bodies that an upload ever stored
  deleted,      \* whether a delete was ever carried out
  faults

vars == <<obj, claim, notes, run, acked, stored, deleted, faults>>

OptSidecar == Sidecar \cup {None}
OptSha == Shas \cup {None}

Objects ==
  [body : OptSha, sidecar : OptSidecar, tombstone : BOOLEAN, frozen : BOOLEAN,
   fence : BOOLEAN, superseding : OptSidecar, quarantine : SUBSET Shas]

Ops == {"claim", "reserve", "recheck", "store", "type", "current", "unbarred",
        "describe", "deletable", "fanout", "note", "join", "read_a", "notice",
        "converge", "merge", "converged", "deferred", "spent", "verify", "claim_private",
        "claim_mirror", "repair", "create", "truth", "install",
        "fenced", "declare", "swap", "cas", "recreate", "reassert", "keep",
        "freeze", "preserve", "bury", "drop_body", "drop_sidecar", "unfence",
        "undeclare", "entomb", "scan", "resolved", "raise_fence", "standing",
        "guard", "adopt", "adopt_cas", "finish", "retire", "backfill",
        "fabricate", "confirm", "retract", "reap", "orphan"}

Step(op, b) == [op |-> op, at |-> b]
Steps(ops, b) == [i \in 1..Len(ops) |-> Step(ops[i], b)]

Run ==
  [job   : {"idle", "write", "fanout", "sweep", "diff", "local", "done"},
   todo  : Seq([op : Ops, at : Buckets]),
   peers : SUBSET Buckets,            \* a request's fan-out still to come
   note  : ClientRequests \cup {None},      \* the repair note a sweep retries
   a     : Buckets, b : Buckets,      \* the pair of the pass
   rec   : Record \cup {None},        \* what the pass read in a
   claims : [{1, 2} -> OptOrigin],    \* the pair's claims after the join
   from  : Buckets, to : Buckets,     \* the direction of the verdict
   sc    : OptSidecar,                \* the sidecar being published
   held  : OptSha,                    \* the body an earlier step read
   seen  : OptSidecar,                \* the sidecar an earlier step read
   tries : 0..3]                      \* rounds of converge_package

SomeBucket == CHOOSE b \in Buckets : TRUE

Idle ==
  [job |-> "idle", todo |-> <<>>, peers |-> {}, note |-> None, a |-> SomeBucket, b |-> SomeBucket,
   rec |-> None, claims |-> [i \in {1, 2} |-> None],
   from |-> SomeBucket, to |-> SomeBucket,
   sc |-> None, held |-> None, seen |-> None, tries |-> 0]

Done == [Idle EXCEPT !.job = "done"]

TypeOK ==
  /\ obj \in [Buckets -> Objects]
  /\ claim \in [Buckets -> OptOrigin]
  /\ notes \in [Buckets -> SUBSET ClientRequests]
  /\ \A x \in Procs :
       /\ run[x].job \in {"idle", "write", "fanout", "sweep", "diff", "local", "done"}
       /\ \A i \in DOMAIN run[x].todo : run[x].todo[i] \in [op : Ops, at : Buckets]
       /\ run[x].sc \in OptSidecar /\ run[x].seen \in OptSidecar
       /\ run[x].held \in OptSha /\ run[x].peers \subseteq Buckets
  /\ acked \subseteq ClientRequests
  /\ stored \subseteq Shas
  /\ deleted \in BOOLEAN
  /\ faults \in Nat

NoObjects ==
  [body |-> None, sidecar |-> None, tombstone |-> FALSE, frozen |-> FALSE,
   fence |-> FALSE, superseding |-> None, quarantine |-> {}]

Init ==
  /\ obj = [b \in Buckets |-> NoObjects]
  /\ claim = [b \in Buckets |-> None]
  /\ notes = [b \in Buckets |-> {}]
  /\ \E s \in Scenarios : run = [x \in Procs |-> IF x \in s THEN Idle ELSE Done]
  /\ acked = {}
  /\ stored = {}
  /\ deleted = FALSE
  /\ faults = 0

-----------------------------------------------------------------------------
(* Running a program.                                                       *)

\* x is about to take a step op; its bucket is At(x).
Doing(x, op) == run[x].todo # <<>> /\ Head(run[x].todo).op = op
At(x) == Head(run[x].todo).at
Rest(x) == Tail(run[x].todo)

\* x's run after the step, when the steps more come before the rest.
After(x, more) == [run[x] EXCEPT !.todo = more \o Rest(x)]
Continue(x, more) == run' = [run EXCEPT ![x] = After(x, more)]

\* The process is through: a daemon may start again.
Ended(x) == IF x \in Tasks /\ x.daemon THEN Idle ELSE Done

(* An error ends a pass. Under a request it leaves a repair note first; a    *)
(* sweep keeps its note; outside the fan-out a request is refused.          *)
Failed(x) ==
  IF run[x].job = "fanout"
    THEN [run[x] EXCEPT !.todo = <<Step("note", run[x].a)>>]
    ELSE Ended(x)

Fail(x) == run' = [run EXCEPT ![x] = Failed(x)]

KeepLedger == UNCHANGED <<notes, acked, stored, deleted, faults>>

-----------------------------------------------------------------------------
(* The steps that write or delete one key, whatever stands there.           *)

Put(x, op, o) == Doing(x, op) /\ obj' = [obj EXCEPT ![At(x)] = o]

WriteKey(x) ==
  /\ \/ Put(x, "freeze", [obj[At(x)] EXCEPT !.frozen = TRUE])
     \/ Put(x, "bury", [obj[At(x)] EXCEPT !.tombstone = TRUE])
     \/ Put(x, "raise_fence", [obj[At(x)] EXCEPT !.fence = TRUE])
     \/ Put(x, "declare", [obj[At(x)] EXCEPT !.superseding = run[x].sc])
     \/ Put(x, "describe", [obj[At(x)] EXCEPT !.sidecar = run[x].sc])
     \/ Put(x, "keep", [obj[At(x)] EXCEPT !.quarantine = @ \cup {run[x].sc.sha}])
     \/ Put(x, "drop_body", [obj[At(x)] EXCEPT !.body = None])
     \/ Put(x, "drop_sidecar", [obj[At(x)] EXCEPT !.sidecar = None])
     \/ Put(x, "unfence", [obj[At(x)] EXCEPT !.fence = FALSE])
     \/ Put(x, "undeclare", [obj[At(x)] EXCEPT !.superseding = None])
  /\ Continue(x, <<>>)
  /\ UNCHANGED claim
  /\ KeepLedger

\* drop_record_objects: one key at a time, the body first.
drop_record_objects(b) ==
  Steps(<<"drop_body", "drop_sidecar", "unfence", "undeclare">>, b)

\* freeze_side: both fences and the copy before anything is dropped.
freeze_side(b) == Steps(<<"freeze", "preserve", "bury">>, b) \o drop_record_objects(b)

freeze_copy_race(src, dst) == freeze_side(src) \o freeze_side(dst)

tombstone_side(b) == Steps(<<"entomb">>, b)

settle_mirror_quarantine(b) == Steps(<<"claim_private", "resolved">>, b)

\* quarantine(): copy the body that stands there, if any, and remember it.
Preserve(x) ==
  /\ Doing(x, "preserve")
  /\ LET body == obj[At(x)].body
     IN  /\ obj' = [obj EXCEPT ![At(x)].quarantine =
                      IF body = None THEN @ ELSE @ \cup {body}]
         /\ run' = [run EXCEPT ![x] = [After(x, <<>>) EXCEPT !.held = body]]
  /\ UNCHANGED claim
  /\ KeepLedger

\* Mutant: where there is no body there is nothing to bury.
EntombsBodies(x) ==
  /\ Doing(x, "entomb")
  /\ Continue(x, IF obj[At(x)].body = None THEN <<>>
                 ELSE Steps(<<"bury">>, At(x)) \o drop_record_objects(At(x)))
  /\ UNCHANGED <<obj, claim>>
  /\ KeepLedger

\* tombstone_side's look at the bucket.
Entomb(x) ==
  /\ Doing(x, "entomb")
  /\ LET b == At(x)
         o == obj[b]
     IN  \/ /\ o.tombstone /\ o.body = None
            /\ o.sidecar = None /\ ~o.fence
            /\ Continue(x, <<>>)
         \/ /\ o.tombstone /\ o.body = None
            /\ o.sidecar # None \/ o.fence
            /\ Continue(x, Steps(<<"drop_sidecar", "unfence">>, b))
         \/ /\ ~o.tombstone \/ o.body # None
            /\ Continue(x, Steps(<<"bury">>, b) \o drop_record_objects(b))
  /\ UNCHANGED <<obj, claim>>
  /\ KeepLedger

-----------------------------------------------------------------------------
(* Claims. Private is terminal, so a claim only ever rises.                 *)

ClaimPrivate(x) ==
  /\ Doing(x, "claim_private")
  /\ claim' = [claim EXCEPT ![At(x)] = "private"]
  /\ Continue(x, <<>>)
  /\ UNCHANGED obj
  /\ KeepLedger

\* ensure_mirror_origin yields to a private claim, and the copy refuses then.
ClaimMirror(x) ==
  /\ Doing(x, "claim_mirror")
  /\ \/ /\ claim[At(x)] = "private"
        /\ Fail(x)
        /\ UNCHANGED claim
     \/ /\ claim[At(x)] # "private"
        /\ claim' = [claim EXCEPT ![At(x)] = "mirror"]
        /\ Continue(x, <<>>)
  /\ UNCHANGED obj
  /\ KeepLedger

\* The scan of a bucket whose claim a pass or another bucket's upload raised.
ScanIfDemoted(b, raised) ==
  IF claim[b] = "mirror" /\ raised = "private" THEN Steps(<<"scan">>, b) ELSE <<>>

\* Mutant: the claim of the first bucket is taken over by the second.
FirstClaimWins(x) ==
  /\ Doing(x, "join")
  /\ LET a  == run[x].a
         b  == run[x].b
         up == IF claim[a] = None THEN claim[b] ELSE claim[a]
     IN  /\ claim' = [claim EXCEPT ![a] = up, ![b] = up]
         /\ run' = [run EXCEPT ![x] =
              [After(x, ScanIfDemoted(a, up) \o ScanIfDemoted(b, up)) EXCEPT
                 !.claims = [i \in {1, 2} |-> up]]]
  /\ UNCHANGED obj
  /\ KeepLedger

\* reconcile_split_origin: the lower claim of the pair joins the higher one.
JoinClaims(x) ==
  /\ Doing(x, "join")
  /\ LET a  == run[x].a
         b  == run[x].b
         up == claim_join(claim[a], claim[b])
     IN  /\ claim' = [claim EXCEPT ![a] = up, ![b] = up]
         /\ run' = [run EXCEPT ![x] =
              [After(x, ScanIfDemoted(a, up) \o ScanIfDemoted(b, up)) EXCEPT
                 !.claims = [i \in {1, 2} |-> up]]]
  /\ UNCHANGED obj
  /\ KeepLedger

-----------------------------------------------------------------------------
(* The demotion of a mirror record under a private claim.                   *)

\* quarantine_mirror_artifacts
Scan(x) ==
  /\ Doing(x, "scan")
  /\ LET b == At(x)
         o == obj[b]
     IN  Continue(x, IF /\ claim[b] = "private"
                        /\ o.body # None
                        /\ o.sidecar # None /\ o.sidecar.origin = "mirror"
                       THEN settle_mirror_quarantine(b) ELSE <<>>)
  /\ UNCHANGED <<obj, claim>>
  /\ KeepLedger

\* Is private truth standing under the canonical key right now?
demotion_resolved_by_private_truth(o) ==
  o.sidecar # None /\ o.sidecar.origin = "private" /\ o.body # None

\* settle_mirror_quarantine, once the claim is private.
Resolved(x) ==
  /\ Doing(x, "resolved")
  /\ Continue(x, IF demotion_resolved_by_private_truth(obj[At(x)]) THEN <<>>
                 ELSE Steps(<<"raise_fence", "preserve", "standing">>, At(x)))
  /\ UNCHANGED <<obj, claim>>
  /\ KeepLedger

\* It drops only the body that it preserved, ...
Standing(x) ==
  /\ Doing(x, "standing")
  /\ LET b    == At(x)
         body == obj[b].body
     IN  Continue(x, IF body = None THEN Steps(<<"drop_sidecar">>, b)
                     ELSE IF body # run[x].held THEN <<>>
                     ELSE Steps(<<"guard">>, b))
  /\ UNCHANGED <<obj, claim>>
  /\ KeepLedger

\* ... and not while a supersede is about to replace it.
Guard(x) ==
  /\ Doing(x, "guard")
  /\ Continue(x, IF obj[At(x)].superseding # None THEN <<>>
                 ELSE Steps(<<"drop_body", "drop_sidecar">>, At(x)))
  /\ UNCHANGED <<obj, claim>>
  /\ KeepLedger

\* clear_spent_demotion_fence, for a record that the pass read as private.
Spent(x) ==
  /\ Doing(x, "spent")
  /\ Continue(x, IF demotion_resolved_by_private_truth(obj[At(x)])
                   THEN Steps(<<"unfence">>, At(x)) ELSE <<>>)
  /\ UNCHANGED <<obj, claim>>
  /\ KeepLedger

\* Mutant: nobody clears a spent fence.
NeverSpent(b, r) == <<>>

spent_fence(b, r) ==
  IF r.mirror_quarantined /\ private_live(r) THEN Steps(<<"spent">>, b) ELSE <<>>

-----------------------------------------------------------------------------
(* Publishing a sidecar over what the bucket holds.                         *)

\* install_or_verify_sidecar and install_or_verify_mirror_sidecar.
installs(o, sc) ==
  LET current == o.sidecar
  IN  IF current = None THEN "put"
      ELSE IF current = sc THEN "keep"
      ELSE IF sc.origin = "mirror" /\ current.origin = "private" THEN "keep"
      ELSE IF current.sha # sc.sha
        THEN IF \/ o.body \in {None, sc.sha}
                \/ sc.origin = "private" /\ current.origin = "mirror"
               THEN "put" ELSE "fail"
      ELSE IF sidecar_merge(sc, sc.origin, current, current.origin) = "A"
        THEN "put" ELSE "keep"

Install(x) ==
  /\ Doing(x, "install")
  /\ LET b == At(x)
     IN  \/ /\ installs(obj[b], run[x].sc) = "put"
            /\ obj' = [obj EXCEPT ![b].sidecar = run[x].sc]
            /\ Continue(x, <<>>)
         \/ /\ installs(obj[b], run[x].sc) = "keep"
            /\ Continue(x, <<>>)
            /\ UNCHANGED obj
         \/ /\ installs(obj[b], run[x].sc) = "fail"
            /\ Fail(x)
            /\ UNCHANGED obj
  /\ UNCHANGED claim
  /\ KeepLedger
-----------------------------------------------------------------------------
(* Copying a record from run[x].from to run[x].to. An upload's own fan-out   *)
(* reads the bytes from its spool, every other pass from the bucket.         *)

\* A converge_package nested in the fan-out reads the bucket, not the spool.
spooled(x) == x \in Uploads /\ \A i \in DOMAIN run[x].todo : run[x].todo[i].op # "merge"

\* verify_source_artifact: the source body must be what its sidecar names. A
\* sidecar that still contradicts the body is dropped for a rebuild.
Verify(x) ==
  /\ Doing(x, "verify")
  /\ LET src  == obj[run[x].from]
         body == IF spooled(x) THEN x.sha ELSE src.body
     IN  \/ /\ body = run[x].sc.sha
            /\ Continue(x, <<>>)
            /\ UNCHANGED obj
         \/ /\ body # run[x].sc.sha
            /\ \/ spooled(x)
               \/ body = None
               \/ src.sidecar = None
               \/ src.sidecar # None /\ src.sidecar.sha = body
            /\ Fail(x)
            /\ UNCHANGED obj
         \/ /\ body # run[x].sc.sha
            /\ ~spooled(x)
            /\ body # None
            /\ src.sidecar # None
            /\ src.sidecar.sha # body
            /\ obj' = [obj EXCEPT ![run[x].from].sidecar = None]
            /\ Fail(x)
  /\ UNCHANGED claim
  /\ KeepLedger

\* artifact_leg: a body that contradicts a sidecar naming ours is debris. It is
\* preserved and conditionally replaced; the create that follows verifies.
Repair(x) ==
  /\ Doing(x, "repair")
  /\ LET b == At(x)
         o == obj[b]
     IN  obj' = IF /\ o.body \notin {None, run[x].sc.sha}
                   /\ o.sidecar # None /\ o.sidecar.sha = run[x].sc.sha
                  THEN [obj EXCEPT ![b].quarantine = @ \cup {o.body},
                                   ![b].body = run[x].sc.sha]
                  ELSE obj
  /\ Continue(x, <<>>)
  /\ UNCHANGED claim
  /\ KeepLedger

\* The immutable create, and what losing it means: the same bytes are as good
\* as ours, a body that its own sidecar names is for the next merge, and any
\* other freezes the filename on both buckets.
Create(x) ==
  /\ Doing(x, "create")
  /\ LET b == At(x)
         o == obj[b]
     IN  \/ /\ o.body \in {None, run[x].sc.sha}
            /\ obj' = [obj EXCEPT ![b].body = run[x].sc.sha]
            /\ Continue(x, <<>>)
         \/ /\ o.body \notin {None, run[x].sc.sha}
            /\ o.sidecar # None /\ o.sidecar.sha = o.body
            /\ Fail(x)
            /\ UNCHANGED obj
         \/ /\ o.body \notin {None, run[x].sc.sha}
            /\ ~(o.sidecar # None /\ o.sidecar.sha = o.body)
            /\ run' = [run EXCEPT ![x].todo =
                 freeze_copy_race(run[x].from, b) \o Steps(<<"converged">>, run[x].a)]
            /\ UNCHANGED obj
  /\ UNCHANGED claim
  /\ KeepLedger

\* copy_truth: a body must still stand there before its sidecar is published.
Truth(x) ==
  /\ Doing(x, "truth")
  /\ IF obj[At(x)].body = None THEN Fail(x) ELSE Continue(x, <<>>)
  /\ UNCHANGED <<obj, claim>>
  /\ KeepLedger

copy_live(from, to, origin_) ==
  Steps(<<"verify">>, from)
  \o Steps(<<IF origin_ = "mirror" THEN "claim_mirror" ELSE "claim_private",
             "repair", "create", "truth", "install">>, to)

-----------------------------------------------------------------------------
(* supersede_record                                                         *)

\* Mutant: the supersede declares nothing.
Undeclared(from, to) ==
  Steps(<<"verify">>, from)
  \o Steps(<<"claim_private", "fenced", "swap", "install", "reassert">>, to)

supersede_record(from, to) ==
  Steps(<<"verify">>, from)
  \o Steps(<<"claim_private", "fenced", "declare", "swap",
             "install", "undeclare", "reassert">>, to)

\* A freeze or a delete that raced the merge comes first, before the supersede
\* and again after it; only then is the demotion fence spent.
precedence(o, b) ==
  IF o.frozen THEN Steps(<<"keep">>, b) \o freeze_side(b) ELSE tombstone_side(b)

Fenced(x) ==
  /\ Doing(x, "fenced")
  /\ LET b == At(x)
     IN  IF fenced_by_markers(obj[b].tombstone, obj[b].frozen)
           THEN run' = [run EXCEPT ![x].todo =
                  precedence(obj[b], b) \o Steps(<<"converged">>, run[x].a)]
           ELSE Continue(x, <<>>)
  /\ UNCHANGED <<obj, claim>>
  /\ KeepLedger

Reassert(x) ==
  /\ Doing(x, "reassert")
  /\ LET b == At(x)
     IN  Continue(x, IF fenced_by_markers(obj[b].tombstone, obj[b].frozen)
                       THEN precedence(obj[b], b) ELSE Steps(<<"unfence">>, b))
  /\ UNCHANGED <<obj, claim>>
  /\ KeepLedger

\* The losing body is preserved before it is replaced.
Swap(x) ==
  /\ Doing(x, "swap")
  /\ LET b == At(x)
         o == obj[b]
     IN  \/ /\ o.body = run[x].sc.sha
            /\ Continue(x, <<>>)
            /\ UNCHANGED obj
         \/ /\ o.body = None
            /\ Continue(x, Steps(<<"recreate">>, b))
            /\ UNCHANGED obj
         \/ /\ o.body \notin {None, run[x].sc.sha}
            /\ obj' = [obj EXCEPT ![b].quarantine = @ \cup {o.body}]
            /\ run' = [run EXCEPT ![x] =
                 [After(x, Steps(<<"cas">>, b)) EXCEPT !.held = o.body]]
  /\ UNCHANGED claim
  /\ KeepLedger

Cas(x) ==
  /\ Doing(x, "cas")
  /\ \/ /\ obj[At(x)].body = run[x].held
        /\ obj' = [obj EXCEPT ![At(x)].body = run[x].sc.sha]
        /\ Continue(x, <<>>)
     \/ /\ obj[At(x)].body # run[x].held
        /\ Fail(x)
        /\ UNCHANGED obj
  /\ UNCHANGED claim
  /\ KeepLedger

Recreate(x) ==
  /\ Doing(x, "recreate")
  /\ LET b == At(x)
     IN  \/ /\ obj[b].body \in {None, run[x].sc.sha}
            /\ obj' = [obj EXCEPT ![b].body = run[x].sc.sha]
            /\ Continue(x, <<>>)
         \/ /\ obj[b].body \notin {None, run[x].sc.sha}
            /\ run' = [run EXCEPT ![x].todo =
                 freeze_copy_race(run[x].from, b)
                 \o Steps(<<"undeclare", "converged">>, b)]
            /\ UNCHANGED obj
  /\ UNCHANGED claim
  /\ KeepLedger

-----------------------------------------------------------------------------
(* adopt_sidecar_cas: read both sidecars and claims, then replace the loser *)
(* if it is still what was read.                                            *)

Adopt(x) ==
  /\ Doing(x, "adopt")
  /\ LET a     == run[x].a
         b     == run[x].b
         left  == obj[a].sidecar
         right == obj[b].sidecar
         type(sc, c) == IF sc.origin = None THEN claim[c] ELSE sc.origin
         put(loser, sc, seen) ==
           run' = [run EXCEPT ![x] =
             [After(x, Steps(<<"adopt_cas">>, loser)) EXCEPT !.sc = sc, !.seen = seen]]
     IN  IF left = None \/ right = None THEN Fail(x)
         ELSE IF \/ left.sha # right.sha
                 \/ type(left, a) = None \/ type(right, b) = None THEN Fail(x)
         ELSE LET choice == sidecar_merge(left, type(left, a), right, type(right, b))
              IN  IF choice = "Equal" THEN Continue(x, <<>>)
                  ELSE IF choice = "A" THEN put(b, left, right)
                  ELSE put(a, right, left)
  /\ UNCHANGED <<obj, claim>>
  /\ KeepLedger

AdoptCas(x) ==
  /\ Doing(x, "adopt_cas")
  /\ LET b == At(x)
     IN  IF obj[b].sidecar = run[x].seen
           THEN /\ obj' = [obj EXCEPT ![b].sidecar = run[x].sc]
                /\ Continue(x, <<>>)
           ELSE /\ Continue(x, Steps(<<"adopt">>, b))
                /\ UNCHANGED obj
  /\ UNCHANGED claim
  /\ KeepLedger

-----------------------------------------------------------------------------
(* A pass: join the claims, read both records, decide, execute.             *)

\* A bucket's objects as the merge reads them, under the claim c.
RecordOf(o, c) ==
  [sidecar |-> o.sidecar, has_artifact |-> o.body # None, has_companion |-> FALSE,
   tombstoned |-> o.tombstone, frozen |-> o.frozen, mirror_quarantined |-> o.fence,
   superseding |-> o.superseding # None,
   pkg_origin |-> fallback_origin(o.body # None, o.sidecar, c)]

replicate_record(a, b) ==
  Steps(<<"join", "read_a", "notice", "converged">>, a)

converge_package(a) == Steps(<<"join", "read_a", "converge">>, a)

\* converge_package types its records by the claims it joined, read_record by
\* a claim of its own.
ClaimRead(x, i) ==
  IF \E j \in DOMAIN run[x].todo : run[x].todo[j].op = "converge"
    THEN run[x].claims[i]
    ELSE claim[IF i = 1 THEN run[x].a ELSE run[x].b]

ReadA(x) ==
  /\ Doing(x, "read_a")
  /\ run' = [run EXCEPT ![x] =
       [After(x, <<>>) EXCEPT !.rec = RecordOf(obj[run[x].a], ClaimRead(x, 1))]]
  /\ UNCHANGED <<obj, claim>>
  /\ KeepLedger

RecB(x) == RecordOf(obj[run[x].b], ClaimRead(x, 2))

LateA(x) == is_late_mirror(run[x].rec, run[x].claims[1])
LateB(x) == is_late_mirror(RecB(x), run[x].claims[2])

\* replicate_record's first look: a late mirror record is converged by the full
\* diff of the package, then both sides are read and decided again.
Notice(x) ==
  /\ Doing(x, "notice")
  /\ LateA(x) \/ LateB(x)
  /\ run' = [run EXCEPT ![x] =
       [After(x, converge_package(run[x].a) \o Steps(<<"read_a", "merge">>, run[x].a))
          EXCEPT !.tries = 0]]
  /\ UNCHANGED <<obj, claim>>
  /\ KeepLedger

\* converge_package's own: at most three rounds.
ConvergeLate(x) ==
  /\ Doing(x, "converge")
  /\ LateA(x) \/ LateB(x)
  /\ \/ /\ run[x].tries < 2
        /\ LET scan(late, b) == IF late THEN Steps(<<"scan">>, b) ELSE <<>>
           IN  run' = [run EXCEPT ![x] =
                 [After(x, scan(LateA(x), run[x].a) \o scan(LateB(x), run[x].b)
                           \o Steps(<<"read_a", "converge">>, run[x].a))
                    EXCEPT !.tries = @ + 1]]
     \/ /\ run[x].tries = 2
        /\ Fail(x)
  /\ UNCHANGED <<obj, claim>>
  /\ KeepLedger

\* execute: the steps of a verdict on a and b. Those of a copy or a supersede
\* run from the bucket the verdict names to the other.
execute(verdict, a, b, rec) ==
  LET from == IF verdict.side = "B" THEN b ELSE a
      to   == IF verdict.side = "B" THEN a ELSE b
  IN  CASE verdict.act \in {"Noop", "Defer"} -> <<>>
        [] verdict.act = "Copy" -> copy_live(from, to, origin(rec))
        [] verdict.act = "AdoptSidecar" -> Steps(<<"adopt">>, a)
        [] verdict.act \in {"Supersede", "QuarantineLoser"} -> supersede_record(from, to)
        [] verdict.act \in {"Freeze", "FinishFreeze"} -> freeze_side(a) \o freeze_side(b)
        [] verdict.act = "PropagateFreeze" -> freeze_side(to)
        [] verdict.act = "SettleMirrorQuarantine" ->
             settle_mirror_quarantine(a) \o settle_mirror_quarantine(b)
        [] verdict.act = "Tombstone" -> tombstone_side(a) \o tombstone_side(b)

\* Reads b, decides and executes. A deferral inside converge_package is the
\* caller's to notice: it reads and decides again, or the diff is over.
Decided(x) ==
  /\ \/ Doing(x, "merge")
     \/ Doing(x, "notice") /\ ~LateA(x) /\ ~LateB(x)
     \/ Doing(x, "converge") /\ ~LateA(x) /\ ~LateB(x)
  /\ LET a       == run[x].a
         b       == run[x].b
         verdict == decide(run[x].rec, RecB(x))
         rec     == IF verdict.side = "B" THEN RecB(x) ELSE run[x].rec
         put     == verdict.act \in {"Copy", "Supersede", "QuarantineLoser"}
     IN  run' = [run EXCEPT ![x] =
           IF verdict.act = "Defer" /\ ~Doing(x, "converge")
             THEN [@ EXCEPT !.todo = Steps(<<"deferred">>, a), !.rec = None]
             ELSE [After(x, spent_fence(a, run[x].rec) \o spent_fence(b, RecB(x))
                            \o execute(verdict, a, b, rec))
                     EXCEPT !.rec = None,
                            !.from = IF verdict.side = "B" THEN b ELSE a,
                            !.to = IF verdict.side = "B" THEN a ELSE b,
                            !.sc = IF put THEN rec.sidecar ELSE None]]
  /\ UNCHANGED <<obj, claim>>
  /\ KeepLedger

-----------------------------------------------------------------------------
(* The fan-out of a request, and the notes it leaves.                       *)

\* fanout_sync: the next peer, or the answer when all have been seen to.
Fanout(x) ==
  /\ Doing(x, "fanout")
  /\ \/ \E p \in run[x].peers :
          /\ run' = [run EXCEPT ![x] =
               [@ EXCEPT !.job = "fanout", !.a = x.at, !.b = p,
                         !.todo = replicate_record(x.at, p)]]
          /\ UNCHANGED acked
     \/ /\ run[x].peers = {}
        /\ run' = [run EXCEPT ![x] = Done]
        /\ acked' = acked \cup {x}
  /\ UNCHANGED <<obj, claim, notes, stored, deleted, faults>>

\* The peer b is seen to.
NextPeer(x) ==
  [Idle EXCEPT !.job = "write", !.todo = Steps(<<"fanout">>, x.at),
               !.peers = run[x].peers \ {run[x].b}]

\* write_marker: unique key, so notes never overwrite one another.
Note(x) ==
  /\ Doing(x, "note") \/ (Doing(x, "deferred") /\ run[x].job = "fanout")
  /\ notes' = [notes EXCEPT ![run[x].b] = @ \cup {x}]
  /\ run' = [run EXCEPT ![x] = NextPeer(x)]
  /\ UNCHANGED <<obj, claim, acked, stored, deleted, faults>>

\* The pass agreed: a fan-out moves on, a sweep consumes its note.
Converged(x) ==
  /\ Doing(x, "converged")
  /\ run' = [run EXCEPT ![x] = IF run[x].job = "fanout" THEN NextPeer(x) ELSE Ended(x)]
  /\ notes' = [notes EXCEPT ![run[x].b] = @ \ {run[x].note}]
  /\ UNCHANGED <<obj, claim, acked, stored, deleted, faults>>

\* A deferred sweep keeps its note.
Deferred(x) ==
  /\ Doing(x, "deferred") /\ run[x].job # "fanout"
  /\ run' = [run EXCEPT ![x] = Ended(x)]
  /\ UNCHANGED <<obj, claim>>
  /\ KeepLedger

-----------------------------------------------------------------------------
(* Uploads: publish_record.                                                 *)

Refuse(x) == run' = [run EXCEPT ![x] = Done]

NewSidecar(x) ==
  [sha |-> x.sha, origin |-> x.origin,
   upload_epoch_ms |-> IF x.origin = "private" THEN x.time ELSE None,
   yank_epoch |-> 0, yanked |-> FALSE, upload_time_revision |-> 0,
   detail |-> CHOOSE d \in Details : TRUE]

publish_record(x) ==
  Steps(<<"claim", "recheck", "store">>
        \o (IF x.origin = "mirror" THEN <<"type", "current", "unbarred">>
                                   ELSE <<"unbarred", "describe">>)
        \o <<"fanout">>, x.at)

StartUpload(x) ==
  /\ x \in Uploads
  /\ run[x] = Idle
  /\ run' = [run EXCEPT ![x] =
       [Idle EXCEPT !.job = "write", !.todo = publish_record(x),
                    !.peers = Buckets \ {x.at}, !.sc = NewSidecar(x)]]
  /\ UNCHANGED <<obj, claim>>
  /\ KeepLedger

\* The claim this bucket holds decides; a first claim is fanned out.
Claim(x) ==
  /\ Doing(x, "claim")
  /\ \/ /\ claim[At(x)] = None
        /\ claim' = [claim EXCEPT ![At(x)] = x.origin]
        /\ Continue(x, Steps(<<"reserve">>, At(x)))
     \/ /\ claim[At(x)] = x.origin
        /\ Continue(x, <<>>)
        /\ UNCHANGED claim
     \/ /\ claim[At(x)] \notin {None, x.origin}
        /\ Refuse(x)
        /\ UNCHANGED claim
  /\ UNCHANGED obj
  /\ KeepLedger

\* The fan-out of the claim reaches some of the peers, and joins each with ours.
Reserve(x) ==
  /\ Doing(x, "reserve")
  /\ \/ \E p \in Buckets \ {At(x)} :
          LET up == claim_join(claim[At(x)], claim[p])
          IN  /\ claim' = [claim EXCEPT ![At(x)] = up, ![p] = up]
              /\ Continue(x, ScanIfDemoted(At(x), up) \o ScanIfDemoted(p, up)
                             \o Steps(<<"reserve">>, At(x)))
              /\ claim' # claim
     \/ /\ Continue(x, <<>>)
        /\ UNCHANGED claim
  /\ UNCHANGED obj
  /\ KeepLedger

\* The claim is still the one the request began under: recheck before the
\* bytes, and post_publish_mirror_claim_is_current after them.
Recheck(x) ==
  /\ Doing(x, "recheck") \/ Doing(x, "current")
  /\ LET held == IF x \in Uploads THEN x.origin ELSE "private"
     IN  IF claim[At(x)] = held THEN Continue(x, <<>>) ELSE Refuse(x)
  /\ UNCHANGED <<obj, claim>>
  /\ KeepLedger

\* The immutable create.
Store(x) ==
  /\ Doing(x, "store")
  /\ \/ /\ obj[At(x)].body = None
        /\ obj' = [obj EXCEPT ![At(x)].body = x.sha]
        /\ stored' = stored \cup {x.sha}
        /\ Continue(x, <<>>)
     \/ /\ obj[At(x)].body # None
        /\ Refuse(x)
        /\ UNCHANGED <<obj, stored>>
  /\ UNCHANGED <<claim, notes, acked, deleted, faults>>

\* The mirror sidecar, right behind its bytes.
Type(x) ==
  /\ Doing(x, "type")
  /\ LET b == At(x)
         how == installs(obj[b], run[x].sc)
     IN  /\ obj' = IF how = "put" THEN [obj EXCEPT ![b].sidecar = run[x].sc] ELSE obj
         /\ IF how = "fail" THEN Refuse(x) ELSE Continue(x, <<>>)
  /\ UNCHANGED claim
  /\ KeepLedger

\* A tombstone or a freeze bars the name; the body stays where it is.
Unbarred(x) ==
  /\ Doing(x, "unbarred")
  /\ IF fenced_by_markers(obj[At(x)].tombstone, obj[At(x)].frozen)
       THEN Refuse(x) ELSE Continue(x, <<>>)
  /\ UNCHANGED <<obj, claim>>
  /\ KeepLedger

-----------------------------------------------------------------------------
(* Deletes: delete_record. Its index rewrite is a rebuild of the package.   *)

rebuild(b) == Steps(<<"finish", "backfill">>, b)

delete_record(x) ==
  Steps(<<"deletable">>, x.at) \o rebuild(x.at)
  \o Steps(<<"recheck", "bury", "drop_body", "drop_sidecar", "fanout">>, x.at)

StartDelete(x) ==
  /\ x \in Deletes
  /\ run[x] = Idle
  /\ run' = [run EXCEPT ![x] =
       [Idle EXCEPT !.job = "write", !.todo = delete_record(x),
                    !.peers = Buckets \ {x.at}]]
  /\ UNCHANGED <<obj, claim>>
  /\ KeepLedger

Deletable(x) ==
  /\ Doing(x, "deletable")
  /\ \/ /\ obj[At(x)].body # None /\ claim[At(x)] = "private"
        /\ deleted' = TRUE
        /\ Continue(x, <<>>)
     \/ /\ obj[At(x)].body = None \/ claim[At(x)] # "private"
        /\ Refuse(x)
        /\ UNCHANGED deleted
  /\ UNCHANGED <<obj, claim, notes, acked, stored, faults>>

-----------------------------------------------------------------------------
(* A bucket's own rebuild: finish_interrupted_supersedes, then              *)
(* backfill_sidecar for a bare body, typed by the claim read at the start.  *)

\* Some other process has yet to retire the marker it declared in b. The age
\* gate of marker_retire_gate outlasts every such writer.
SupersedeInFlight(x, b) ==
  \E y \in Procs \ {x} :
    \E i \in DOMAIN run[y].todo : run[y].todo[i] = Step("undeclare", b)

Finish(x) ==
  /\ Doing(x, "finish")
  /\ LET b       == At(x)
         o       == obj[b]
         marker  == o.superseding
         fenced  == fenced_by_markers(o.tombstone, o.frozen)
         install == marker # None /\ ~fenced /\ o.body = marker.sha
         retire  == install \/ (marker # None /\ ~SupersedeInFlight(x, b))
     IN  run' = [run EXCEPT ![x] =
           [After(x, Steps((IF install THEN <<"install">> ELSE <<>>)
                           \o (IF retire THEN <<"retire">> ELSE <<>>), b))
              EXCEPT !.claims = [i \in {1, 2} |-> claim[b]],
                     !.sc = IF install THEN marker ELSE @, !.seen = marker]]
  /\ UNCHANGED <<obj, claim>>
  /\ KeepLedger

\* Only the marker that the answer was about goes.
Retire(x) ==
  /\ Doing(x, "retire")
  /\ obj' = [obj EXCEPT ![At(x)].superseding = IF @ = run[x].seen THEN None ELSE @]
  /\ Continue(x, <<>>)
  /\ UNCHANGED claim
  /\ KeepLedger

Fabricated(sha, c) ==
  [sha |-> sha, origin |-> c, upload_epoch_ms |-> None, yank_epoch |-> 0,
   yanked |-> FALSE, upload_time_revision |-> 0,
   detail |-> CHOOSE d \in Details : TRUE]

Backfill(x) ==
  /\ Doing(x, "backfill")
  /\ LET o == obj[At(x)]
         c == run[x].claims[1]
     IN  IF state(RecordOf(o, c)) = "Bare"
           THEN run' = [run EXCEPT ![x] =
                  [After(x, Steps(<<"fabricate">>, At(x))) EXCEPT
                     !.held = o.body, !.sc = Fabricated(o.body, c)]]
           ELSE Continue(x, <<>>)
  /\ UNCHANGED <<obj, claim>>
  /\ KeepLedger

Fabricate(x) ==
  /\ Doing(x, "fabricate")
  /\ \/ /\ obj[At(x)].sidecar = None
        /\ obj' = [obj EXCEPT ![At(x)].sidecar = run[x].sc]
        /\ Continue(x, Steps(<<"confirm">>, At(x)))
     \/ /\ obj[At(x)].sidecar # None
        /\ Continue(x, <<>>)
        /\ UNCHANGED obj
  /\ UNCHANGED claim
  /\ KeepLedger

\* A body that changed meanwhile retracts the fabrication, if it still stands.
Confirm(x) ==
  /\ Doing(x, "confirm")
  /\ Continue(x, IF obj[At(x)].body = run[x].held THEN <<>> ELSE Steps(<<"retract">>, At(x)))
  /\ UNCHANGED <<obj, claim>>
  /\ KeepLedger

Retract(x) ==
  /\ Doing(x, "retract")
  /\ Continue(x, IF obj[At(x)].sidecar = run[x].sc
                   THEN Steps(<<"drop_sidecar">>, At(x)) ELSE <<>>)
  /\ UNCHANGED <<obj, claim>>
  /\ KeepLedger

-----------------------------------------------------------------------------
(* The audit's maintenance of one bucket, ahead of its rebuild.             *)

\* complete_interrupted_deletes
Reap(x) ==
  /\ Doing(x, "reap")
  /\ LET o == obj[At(x)]
     IN  Continue(x, IF o.tombstone /\ ~o.frozen /\ (o.body # None \/ o.sidecar # None)
                       THEN Steps(<<"drop_body", "drop_sidecar">>, At(x)) ELSE <<>>)
  /\ UNCHANGED <<obj, claim>>
  /\ KeepLedger

\* drop_orphan_companions: no anchor, and nobody in flight (the intent and age
\* gates).
Orphan(x) ==
  /\ Doing(x, "orphan")
  /\ LET o == obj[At(x)]
         orphan == /\ o.sidecar # None /\ o.body = None
                   /\ ~o.tombstone /\ ~o.frozen /\ ~o.fence
                   /\ \A y \in Procs \ {x} : run[y].todo = <<>>
     IN  Continue(x, IF orphan THEN Steps(<<"drop_sidecar">>, At(x)) ELSE <<>>)
  /\ UNCHANGED <<obj, claim>>
  /\ KeepLedger

audit(b) == Steps(<<"reap", "orphan", "scan">>, b) \o rebuild(b)

-----------------------------------------------------------------------------
(* Background tasks.                                                        *)

Begin(x, kind, task) ==
  /\ x \in Tasks /\ kind \in x.kinds
  /\ run[x] = Idle
  /\ run' = [run EXCEPT ![x] = task]
  /\ UNCHANGED <<obj, claim>>
  /\ KeepLedger

\* sweep_bucket_markers: retry what a note says is owed.
Sweep(x, b) ==
  \E n \in notes[b] :
    Begin(x, "sweep", [Idle EXCEPT !.job = "sweep", !.note = n, !.a = n.at, !.b = b,
                                   !.todo = replicate_record(n.at, b)])

\* reconcile: the selected bucket against each of the others.
Diff(x, a, b) ==
  Begin(x, "diff", [Idle EXCEPT !.job = "diff", !.a = a, !.b = b,
                                !.todo = converge_package(a) \o Steps(<<"converged">>, a)])

Rebuild(x, b) == Begin(x, "rebuild", [Idle EXCEPT !.job = "local", !.todo = rebuild(b)])

Audit(x, b) == Begin(x, "audit", [Idle EXCEPT !.job = "local", !.todo = audit(b)])

\* A rebuild or an audit that came to its end.
Finished(x) ==
  /\ run[x].job = "local"
  /\ run[x].todo = <<>>
  /\ run' = [run EXCEPT ![x] = Ended(x)]
  /\ UNCHANGED <<obj, claim>>
  /\ KeepLedger

-----------------------------------------------------------------------------
(* Faults.                                                                  *)

\* The grace deadline, or a bucket that leaves the eligible set, drops the
\* fan-out to a peer wherever it stands.
Cancel(x) ==
  /\ run[x].job = "fanout"
  /\ ~Doing(x, "note")
  /\ faults < MaxFaults
  /\ faults' = faults + 1
  /\ Fail(x)
  /\ UNCHANGED <<obj, claim, notes, acked, stored, deleted>>

\* The process dies.
Crash(x) ==
  /\ run[x].todo # <<>>
  /\ faults < MaxFaults
  /\ faults' = faults + 1
  /\ run' = [run EXCEPT ![x] = Ended(x)]
  /\ UNCHANGED <<obj, claim, notes, acked, stored, deleted>>

-----------------------------------------------------------------------------

StepOf(x) ==
  \/ WriteKey(x) \/ Preserve(x) \/ Entomb(x)
  \/ ClaimPrivate(x) \/ ClaimMirror(x) \/ JoinClaims(x)
  \/ Scan(x) \/ Resolved(x) \/ Standing(x) \/ Guard(x) \/ Spent(x)
  \/ Install(x) \/ Verify(x) \/ Repair(x) \/ Create(x) \/ Truth(x)
  \/ Fenced(x) \/ Reassert(x) \/ Swap(x) \/ Cas(x) \/ Recreate(x)
  \/ Adopt(x) \/ AdoptCas(x)
  \/ ReadA(x) \/ Notice(x) \/ ConvergeLate(x) \/ Decided(x)
  \/ Fanout(x) \/ Note(x) \/ Converged(x) \/ Deferred(x)
  \/ Claim(x) \/ Reserve(x) \/ Recheck(x) \/ Store(x) \/ Type(x) \/ Unbarred(x)
  \/ Deletable(x)
  \/ Finish(x) \/ Retire(x) \/ Backfill(x) \/ Fabricate(x) \/ Confirm(x) \/ Retract(x)
  \/ Reap(x) \/ Orphan(x) \/ Finished(x)

Next ==
  \E x \in Procs :
    \/ StartUpload(x) \/ StartDelete(x)
    \/ \E b \in Buckets :
         \/ Sweep(x, b) \/ Rebuild(x, b) \/ Audit(x, b)
         \/ \E a \in Selectable \ {b} : Diff(x, a, b)
    \/ StepOf(x)
    \/ Cancel(x) \/ Crash(x)

Spec == Init /\ [][Next]_vars

(* Whoever started goes on until it fails, and every daemon's loop comes      *)
(* around to every bucket, pair and note again and again.                   *)
Daemons(kind) == {x \in Tasks : x.daemon /\ kind \in x.kinds}

Fairness ==
  /\ \A x \in Procs : WF_vars(StepOf(x))
  /\ \A b \in Buckets :
       /\ \A x \in Daemons("sweep") : SF_vars(Sweep(x, b))
       /\ \A x \in Daemons("rebuild") : SF_vars(Rebuild(x, b))
       /\ \A x \in Daemons("audit") : SF_vars(Audit(x, b))
       /\ \A x \in Daemons("diff") : \A a \in Selectable \ {b} : SF_vars(Diff(x, a, b))

LiveSpec == Spec /\ Fairness

(* A partition healed: every bucket took its own upload, none heard of         *)
(* another, and each upload got as far as its n-th write (the claim, the body, *)
(* the sidecar with the notes and the answer).                               *)
Landed(u, n) ==
  [NoObjects EXCEPT !.body = IF n >= 2 THEN u.sha ELSE None,
                    !.sidecar = IF n = 3 THEN NewSidecar(u) ELSE None]

PartitionInit ==
  \E n \in [Uploads -> 0..3] :
    LET at(b)   == {u \in Uploads : u.at = b /\ n[u] > 0}
        took(b) == CHOOSE u \in at(b) : TRUE
    IN  /\ \A b \in Buckets : Cardinality(at(b)) <= 1
        /\ obj = [b \in Buckets |->
                    IF at(b) = {} THEN NoObjects ELSE Landed(took(b), n[took(b)])]
        /\ claim = [b \in Buckets |-> IF at(b) = {} THEN None ELSE took(b).origin]
        /\ notes = [b \in Buckets |-> {u \in Uploads : u.at # b /\ n[u] = 3}]
        /\ run = [x \in Procs |-> IF x \in Tasks THEN Idle ELSE Done]
        /\ acked = {u \in Uploads : n[u] = 3}
        /\ stored = {u.sha : u \in {v \in Uploads : n[v] >= 2}}
        /\ deleted = FALSE
        /\ faults = 0

-----------------------------------------------------------------------------
(* Properties.                                                              *)

\* Nobody is in the middle of anything.
Quiet == \A x \in Procs : run[x].todo = <<>>

\* The bytes of sha are somewhere: live in a bucket or in its quarantine.
Survives(sha) == \E b \in Buckets : obj[b].body = sha \/ sha \in obj[b].quarantine

(* The contract of fanout_sync. An acknowledged upload is accounted for in    *)
(* every bucket: the bucket holds it, is owed it by a repair note, or a marker *)
(* or a quarantine copy explains why not. An acknowledged delete has closed   *)
(* the name, or its note is owed.                                            *)
AckTotality ==
  /\ \A u \in acked \cap Uploads : \A b \in Buckets :
       \/ obj[b].body = u.sha
       \/ u \in notes[b]
       \/ obj[b].tombstone \/ obj[b].frozen \/ obj[b].fence
       \/ \E c \in Buckets : u.sha \in obj[c].quarantine
  /\ \A d \in acked \cap Deletes : \A b \in Buckets :
       obj[b].tombstone \/ obj[b].frozen \/ d \in notes[b]

(* Nothing that supersedes, freezes or demotes (supersede_record, freeze_side,*)
(* settle_mirror_quarantine) loses an acknowledged body: while no delete was   *)
(* carried out, its bytes are live or in quarantine somewhere.               *)
Conservation == ~deleted => \A u \in acked \cap Uploads : Survives(u.sha)

(* At rest, a listed file's body is the one that its sidecar names, or a       *)
(* supersede that died has left the marker from which a rebuild finishes it   *)
(* (supersede_record, finish_interrupted_supersedes, backfill_sidecar).      *)
SelfConsistency ==
  Quiet => \A b \in Buckets :
    listed(RecordOf(obj[b], claim[b]), claim[b])
      => obj[b].body = obj[b].sidecar.sha \/ obj[b].superseding # None

(* A filename is frozen only after two different bodies were stored under it:  *)
(* neither a delete nor a repeated copy freezes it (decide, freeze_copy_race). *)
FreezeJustified == (\E b \in Buckets : obj[b].frozen) => Cardinality(stored) > 1

(* What stands in the buckets at any moment.                                  *)
RecordsSound == TypeOK /\ SelfConsistency /\ FreezeJustified

(* Tombstones and freezes are permanent, and a claim never falls: no copy,     *)
(* join or clean-up undoes one (ensure_mirror_origin, drop_record_objects).   *)
MarkersPermanent ==
  [][\A b \in Buckets :
       /\ obj[b].tombstone => obj'[b].tombstone
       /\ obj[b].frozen => obj'[b].frozen
       /\ rank(claim[b]) <= rank(claim'[b])]_vars

\* Two buckets hold the same record under the same claim. What each keeps in
\* its quarantine is its own.
Agree(a, b) ==
  /\ claim[a] = claim[b]
  /\ [obj[a] EXCEPT !.quarantine = {}] = [obj[b] EXCEPT !.quarantine = {}]

(* Whatever was cancelled or died, the sweep, the reconcile and the rebuilds    *)
(* bring the buckets to agree, for good, and no repair note stays behind.     *)
Converges == <>[](\A a, b \in Buckets : Agree(a, b) /\ notes[b] = {})
=============================================================================
