---------------------------- MODULE ProjectStatus ---------------------------
(***************************************************************************)
(* The PEP 792 status of one project in several buckets: operators set and  *)
(* clear it (publish.rs write_project_status), a proxy relays upstream's    *)
(* (proxy.rs reconcile_observed_status), claims turn from mirror to private *)
(* and replication passes converge each pair of buckets (replicate.rs       *)
(* converge_package, reconcile_split_origin, reconcile_project_status;      *)
(* status.rs reconcile_status_pair).                                        *)
(*                                                                         *)
(* A conditional-write loop (advance_status_if, ensure_private_origin) ends *)
(* with one write over the value it last read, so it is one step; what it   *)
(* was told before the loop is a step of its own.                           *)
(***************************************************************************)
EXTENDS Decide

CONSTANTS
  Buckets,
  Requests,     \* operator requests, each handled by one node
  Docs,         \* the documents operators and upstream choose from
  Passes,       \* pairs of buckets <<left, right>> that some node reconciles
  MaxWrites,    \* bound: relayed and operator events together
  MaxAborts     \* bound: passes that fail midway

ASSUME PairsAssumption ==
  /\ Docs \subseteq [status : Statuses, reason : Details \cup {None}]
  /\ Passes \subseteq {p \in Buckets \X Buckets : p[1] # p[2]}
  /\ MaxWrites \in Nat
  /\ MaxAborts \in Nat

VARIABLES
  claim,        \* claim[b]: the package's .origin; None also when unclaimed
  status,       \* status[b]: .project-status.json, None when absent
  request,      \* request[r]: an operator's write in flight
  relay,        \* relay[b]: an upstream status observed, not yet persisted
  pass,         \* pass[p]: how far the pass over pair p has come
  writes, aborts

vars == <<claim, status, request, relay, pass, writes, aborts>>

\* Mutant: the plain document of single-bucket mode, which has no epoch.
PlainEvent(doc, epoch, tag) == [status |-> doc.status, reason |-> doc.reason, origin |-> tag]

Event(doc, epoch, tag) ==
  [status |-> doc.status, reason |-> doc.reason, epoch |-> epoch, origin |-> tag]

Active == [status |-> "active", reason |-> None]

Stored == VersionedProjectStatus \cup {None}

Request == [phase : {"idle"}]
           \cup [phase : {"write"}, at : Buckets, tag : OptOrigin, doc : Docs]

Pass == [phase : {"idle", "claims", "normalize1", "normalize2", "left"},
         origin : [{1, 2} -> OptOrigin]]
        \cup [phase : {"right"}, left : Stored]
        \cup [phase : {"install"}, left : Stored, right : Stored]

Idle == [phase |-> "idle", origin |-> [i \in {1, 2} |-> None]]

TypeOK ==
  /\ claim \in [Buckets -> OptOrigin]
  /\ status \in [Buckets -> Stored]
  /\ request \in [Requests -> Request]
  /\ relay \in [Buckets -> Docs \cup {None}]
  /\ pass \in [Passes -> Pass]
  /\ writes \in Nat
  /\ aborts \in Nat

Init ==
  /\ claim = [b \in Buckets |-> None]
  /\ status = [b \in Buckets |-> None]
  /\ request = [r \in Requests |-> [phase |-> "idle"]]
  /\ relay = [b \in Buckets |-> None]
  /\ pass = [p \in Passes |-> Idle]
  /\ writes = 0
  /\ aborts = 0

-----------------------------------------------------------------------------
(* A first upload, or a first proxy fill, claims the package in its bucket. *)
Claim(b, origin_) ==
  /\ claim[b] = None
  /\ claim' = [claim EXCEPT ![b] = origin_]
  /\ UNCHANGED <<status, request, relay, pass, writes, aborts>>

\* advance_status_if: the epoch after the one just read.
NextEpoch(b) == IF status[b] = None THEN 1 ELSE status[b].epoch + 1

(* write_project_status reads the claim, which will tag the event ...       *)
BeginWrite(r, b, doc) ==
  /\ request[r].phase = "idle"
  /\ writes < MaxWrites
  /\ writes' = writes + 1
  /\ request' = [request EXCEPT ![r] =
       [phase |-> "write", at |-> b, tag |-> claim[b], doc |-> doc]]
  /\ UNCHANGED <<claim, status, relay, pass, aborts>>

(* ... and then advances the status, whatever stands there by then.         *)
FinishWrite(r) ==
  /\ request[r].phase = "write"
  /\ LET b == request[r].at
     IN  status' = [status EXCEPT ![b] =
           Event(request[r].doc, NextEpoch(b), request[r].tag)]
  /\ request' = [request EXCEPT ![r] = [phase |-> "idle"]]
  /\ UNCHANGED <<claim, relay, pass, writes, aborts>>

(* A request for a package that is not private fetches upstream's listing.  *)
Observe(b, doc) ==
  /\ claim[b] # "private"
  /\ relay[b] = None
  /\ writes < MaxWrites
  /\ writes' = writes + 1
  /\ relay' = [relay EXCEPT ![b] = doc]
  /\ UNCHANGED <<claim, status, request, pass, aborts>>

relay_replaces(current, doc) ==
  IF current = None THEN doc # Active
  ELSE /\ current.origin # "private"
       /\ doc # [status |-> current.status, reason |-> current.reason]

(* persist_observed_status, long after the claim was looked at.             *)
Relay(b) ==
  /\ relay[b] # None
  /\ status' = IF relay_replaces(status[b], relay[b])
                 THEN [status EXCEPT ![b] = Event(relay[b], NextEpoch(b), "mirror")]
                 ELSE status
  /\ relay' = [relay EXCEPT ![b] = None]
  /\ UNCHANGED <<claim, request, pass, writes, aborts>>

-----------------------------------------------------------------------------
(* One pass over a pair: read both claims, ...                              *)
StartPass(p) ==
  /\ pass[p].phase = "idle"
  /\ pass' = [pass EXCEPT ![p] =
       [phase |-> "claims", origin |-> [i \in {1, 2} |-> claim[p[i]]]]]
  /\ UNCHANGED <<claim, status, request, relay, writes, aborts>>

Join(p) == claim_join(pass[p].origin[1], pass[p].origin[2])

(* ... raise the lower one to their join (a racer may have raised it        *)
(* further, which the pass then takes over), ...                            *)
RaiseClaim(p, i) ==
  /\ pass[p].phase = "claims"
  /\ pass[p].origin[i] # Join(p)
  /\ LET b      == p[i]
         raised == claim_join(claim[b], Join(p))
     IN  /\ claim' = [claim EXCEPT ![b] = raised]
         /\ pass' = [pass EXCEPT ![p].origin[i] = raised]
  /\ UNCHANGED <<status, request, relay, writes, aborts>>

(* ... leave the status of a package that is not private alone, ...         *)
ClaimsAgree(p) ==
  /\ pass[p].phase = "claims"
  /\ \A i \in {1, 2} : pass[p].origin[i] = Join(p)
  /\ pass' = [pass EXCEPT ![p] =
       IF Join(p) = "private"
         THEN [phase |-> "normalize1", origin |-> pass[p].origin] ELSE Idle]
  /\ UNCHANGED <<claim, status, request, relay, writes, aborts>>

\* Mutant: a mirror's status survives the claim's turn to private.
NormalizesNothing(p, i) ==
  /\ pass[p].phase = IF i = 1 THEN "normalize1" ELSE "normalize2"
  /\ pass' = [pass EXCEPT ![p].phase = IF i = 1 THEN "normalize2" ELSE "left"]
  /\ UNCHANGED <<claim, status, request, relay, writes, aborts>>

(* ... reset a mirror's status found under a private claim on each side, ...*)
Normalize(p, i) ==
  /\ pass[p].phase = IF i = 1 THEN "normalize1" ELSE "normalize2"
  /\ LET b == p[i]
     IN  status' = IF /\ claim[b] = "private"
                      /\ status[b] # None
                      /\ status[b].origin = "mirror"
                     THEN [status EXCEPT ![b] = Event(Active, 0, "private")]
                     ELSE status
  /\ pass' = [pass EXCEPT ![p].phase = IF i = 1 THEN "normalize2" ELSE "left"]
  /\ UNCHANGED <<claim, request, relay, writes, aborts>>

(* ... read both statuses, ...                                              *)
ReadLeft(p) ==
  /\ pass[p].phase = "left"
  /\ pass' = [pass EXCEPT ![p] = [phase |-> "right", left |-> status[p[1]]]]
  /\ UNCHANGED <<claim, status, request, relay, writes, aborts>>

ReadRight(p) ==
  /\ pass[p].phase = "right"
  /\ pass' = [pass EXCEPT ![p] =
       [phase |-> "install", left |-> pass[p].left, right |-> status[p[2]]]]
  /\ UNCHANGED <<claim, status, request, relay, writes, aborts>>

\* Mutant: the winner is put whatever the loser has become.
PutAnyway(b, expected, winner) == status' = [status EXCEPT ![b] = winner]

\* put_status_if_version over the loser read: TRUE when it lands.
PutIfVersion(b, expected, winner) ==
  /\ status[b] = expected
  /\ status' = [status EXCEPT ![b] = winner]

Reread(p) ==
  pass' = [pass EXCEPT ![p] = [phase |-> "left", origin |-> Idle.origin]]

(* ... and install the winner over the loser; a lost race reads again.      *)
Install(p) ==
  /\ pass[p].phase = "install"
  /\ LET left   == pass[p].left
         right  == pass[p].right
         choice == status_merge(left, right)
     IN  \/ /\ choice = "Equal"
            /\ pass' = [pass EXCEPT ![p] = Idle]
            /\ UNCHANGED status
         \/ /\ choice = "A"
            /\ PutIfVersion(p[2], right, left)
            /\ pass' = [pass EXCEPT ![p] = Idle]
         \/ /\ choice = "B"
            /\ PutIfVersion(p[1], left, right)
            /\ pass' = [pass EXCEPT ![p] = Idle]
         \/ /\ choice = "A"
            /\ status[p[2]] # right
            /\ Reread(p)
            /\ UNCHANGED status
         \/ /\ choice = "B"
            /\ status[p[1]] # left
            /\ Reread(p)
            /\ UNCHANGED status
  /\ UNCHANGED <<claim, request, relay, writes, aborts>>

(* A storage call of the pass fails, or its node dies.                      *)
Abort(p) ==
  /\ pass[p].phase # "idle"
  /\ aborts < MaxAborts
  /\ aborts' = aborts + 1
  /\ pass' = [pass EXCEPT ![p] = Idle]
  /\ UNCHANGED <<claim, status, request, relay, writes>>

PassStep(p) ==
  \/ StartPass(p) \/ ClaimsAgree(p) \/ ReadLeft(p) \/ ReadRight(p) \/ Install(p)
  \/ \E i \in {1, 2} : RaiseClaim(p, i) \/ Normalize(p, i)

Next ==
  \/ \E b \in Buckets, o \in Origins : Claim(b, o)
  \/ \E r \in Requests, b \in Buckets, doc \in Docs : BeginWrite(r, b, doc)
  \/ \E r \in Requests : FinishWrite(r)
  \/ \E b \in Buckets, doc \in Docs : Observe(b, doc)
  \/ \E b \in Buckets : Relay(b)
  \/ \E p \in Passes : PassStep(p) \/ Abort(p)

Spec == Init /\ [][Next]_vars

(* A started write or relay ends, and the reconcile interval starts a pass   *)
(* over every pair again and again.                                          *)
Fairness ==
  /\ \A r \in Requests : WF_vars(FinishWrite(r))
  /\ \A b \in Buckets : WF_vars(Relay(b))
  /\ \A p \in Passes : WF_vars(PassStep(p))

LiveSpec == Spec /\ Fairness

-----------------------------------------------------------------------------
(* A pass only ever replaces a bucket's status by one that the merge ranks   *)
(* above it, or resets a mirror's: no lost race, and no winner that went     *)
(* stale while the pass held it, makes a pass undo a newer local event       *)
(* ("reconciliation never blindly overwrites a newer local status event",    *)
(* src/status.rs reconcile_status_pair).                                     *)
PassRaises ==
  [][\A p \in Passes : pass'[p] # pass[p] =>
       \A b \in Buckets :
         \/ status'[b] = status[b]
         \/ status_merge(status[b], status'[b]) = "B"
         \/ status[b].origin = "mirror" /\ status'[b] = Event(Active, 0, "private")
     ]_vars

(* A quarantine that an operator put on a private package is lifted only by  *)
(* a later event: a pass replaces it only by an event of a higher epoch, or  *)
(* by another quarantine. A split merge fails closed (status_merge).         *)
QuarantineHolds ==
  [][\A b \in Buckets :
       /\ status[b] # None
       /\ status[b].status = "quarantined"
       /\ status[b].origin # "mirror"
       /\ status'[b] # status[b]
       => \/ status'[b].epoch > status[b].epoch
          \/ status'[b].status = "quarantined"]_vars

(* What no reconciliation may do to a status.                                *)
StatusSteps == PassRaises /\ QuarantineHolds

Agreement ==
  /\ \A a, b \in Buckets :
       claim[a] = claim[b] /\ status_merge(status[a], status[b]) = "Equal"
  /\ \A b \in Buckets : status[b] = None \/ status[b].origin # "mirror"

(* Once a private claim stands somewhere, all buckets come to the same claim *)
(* and the same status for good, whatever was written where and in whichever *)
(* order the pairs sync, and no mirror's status is left among them.          *)
Converges == (\E b \in Buckets : claim[b] = "private") ~> []Agreement
=============================================================================
