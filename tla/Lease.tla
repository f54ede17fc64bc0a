------------------------------- MODULE Lease -------------------------------
(***************************************************************************)
(* The sloppy leader lease of src/lease.rs: one object, _leader/lease.json, *)
(* that nodes create, renew, steal and release with conditional writes.     *)
(*                                                                         *)
(* A node is one LeaseManager, that is one incarnation of a process: its    *)
(* holder string carries pid and start time, so a restart is another node.  *)
(* Object etags are modelled by the object's content, the weakest etag a    *)
(* supported store gives (S3); a generation-based etag allows fewer steps.  *)
(*                                                                         *)
(* Every storage call is a step of its own, so time passes and other nodes  *)
(* act between a node's read of the clock, its GET and its PUT.             *)
(***************************************************************************)
EXTENDS Integers

CONSTANTS
  Nodes,        \* LeaseManager incarnations
  NoLease,      \* the lease object does not exist
  Nobody,       \* the empty holder string of a released lease
  TTL,          \* ttl_secs
  Skew,         \* [Nodes -> Int]: a node's wall clock minus real time
  ReadTimeout,  \* a GET that takes longer than this fails
  MaxTime,      \* bound: real time stops here
  MaxTerm       \* bound: the term, which no step reads, stops rising here

ASSUME TtlAssumption ==
  /\ TTL \in Nat \ {0}
  /\ ReadTimeout \in Nat
  /\ MaxTime \in Nat
  /\ MaxTerm \in Nat
  /\ Skew \in [Nodes -> Int]
  /\ Nobody \notin Nodes
  /\ NoLease \notin [holder : Nodes \cup {Nobody}, term : Nat, expires : Int]

VARIABLES
  now,          \* real time; also the monotonic Instant of every node
  lease,        \* the object in the store
  check,        \* check[n]: the task spawned by is_leader_within
  until,        \* until[n]: expiry behind n's last TRUE answer, -1 if it was FALSE
  release,      \* release[n]: the object release() read, its If-Match
  status        \* status[n]: up, releasing or stopped

vars == <<now, lease, check, until, release, status>>

LeaseRecord == [holder : Nodes \cup {Nobody}, term : Nat, expires : Int]

LeaseObject == {NoLease} \cup LeaseRecord

Check ==
  [phase   : {"none", "get", "put", "done"},
   started : Nat,                 \* Instant at which the check was spawned
   clock   : Int,                 \* its reading of the wall clock
   seen    : LeaseObject,         \* the object it read, its If-Match
   next    : LeaseObject,         \* the object it writes
   held    : BOOLEAN]             \* what try_hold returned

NoCheck == [phase |-> "none", started |-> 0, clock |-> 0,
            seen |-> NoLease, next |-> NoLease, held |-> FALSE]

Spawned(clock) == [phase |-> "get", started |-> now, clock |-> clock,
                   seen |-> NoLease, next |-> NoLease, held |-> FALSE]

TypeOK ==
  /\ now \in Nat
  /\ lease \in LeaseObject
  /\ check \in [Nodes -> Check]
  /\ until \in [Nodes -> Int]
  /\ release \in [Nodes -> LeaseObject]
  /\ status \in [Nodes -> {"up", "releasing", "stopped"}]

Init ==
  /\ now = 0
  /\ lease = NoLease
  /\ check = [n \in Nodes |-> NoCheck]
  /\ until = [n \in Nodes |-> -1]
  /\ release = [n \in Nodes |-> NoLease]
  /\ status = [n \in Nodes |-> "up"]

LeaseJson(n, term, clock) ==
  [holder |-> n, term |-> term, expires |-> clock + TTL]

NextTerm(term) == IF term < MaxTerm THEN term + 1 ELSE term

Released(term) == [holder |-> Nobody, term |-> term, expires |-> 0]

\* Mutant: only an expired lease can be taken.
ExpiredOnly(l, clock) == clock > l.expires

\* Mutant: a lease can be taken in its last instant.
ExpiringToo(l, clock) == clock >= l.expires \/ l.expires > clock + 3 * TTL

\* Expired, or too far in the future to be anything but a skewed clock.
Stealable(l, clock) == clock > l.expires \/ l.expires > clock + 3 * TTL

-----------------------------------------------------------------------------
(* is_leader_within with no carried check: spawn try_hold, which reads the  *)
(* wall clock first.                                                        *)
StartCheck(n) ==
  /\ status[n] = "up"
  /\ check[n].phase = "none"
  /\ check' = [check EXCEPT ![n] = Spawned(now + Skew[n])]
  /\ UNCHANGED <<now, lease, until, release, status>>

Done(n, held) ==
  check' = [check EXCEPT ![n].phase = "done", ![n].held = held]

Prepare(n, object) ==
  check' = [check EXCEPT ![n].phase = "put", ![n].seen = lease, ![n].next = object]

(* try_hold's GET answers: create, renew, steal, or report a live holder.   *)
ReadLease(n) ==
  /\ status[n] = "up"
  /\ check[n].phase = "get"
  /\ now - check[n].started <= ReadTimeout
  /\ LET clock == check[n].clock
     IN  \/ /\ lease = NoLease
            /\ Prepare(n, LeaseJson(n, 1, clock))
         \/ /\ lease # NoLease
            /\ lease.holder = n
            /\ Prepare(n, LeaseJson(n, lease.term, clock))
         \/ /\ lease # NoLease
            /\ lease.holder # n
            /\ Stealable(lease, clock)
            /\ Prepare(n, LeaseJson(n, NextTerm(lease.term), clock))
         \/ /\ lease # NoLease
            /\ lease.holder # n
            /\ ~Stealable(lease, clock)
            /\ Done(n, FALSE)
  /\ UNCHANGED <<now, lease, until, release, status>>

\* If-Match, or If-None-Match when the check read no object.
Lands(n) == lease = check[n].seen

(* The conditional PUT reaches the store. It lands only over the object the *)
(* check read; its answer may be lost, which try_hold reports as "follower".*)
WriteLease(n) ==
  /\ check[n].phase = "put"
  /\ lease' = IF Lands(n) THEN check[n].next ELSE lease
  /\ \/ /\ status[n] = "up"
        /\ Done(n, Lands(n))
     \/ /\ status[n] = "up"
        /\ Done(n, FALSE)
     \/ /\ status[n] # "up"
        /\ check' = [check EXCEPT ![n] = NoCheck]
  /\ UNCHANGED <<now, until, release, status>>

(* A storage call fails without effect: "lease check failed; assuming        *)
(* follower". A PUT of a stopped node may never be sent.                    *)
CallFails(n) ==
  /\ check[n].phase \in {"get", "put"}
  /\ IF status[n] = "up"
       THEN Done(n, FALSE)
       ELSE check' = [check EXCEPT ![n] = NoCheck]
  /\ UNCHANGED <<now, lease, until, release, status>>

\* Mutant: a win counts however late it comes.
AnyAge(n) == TRUE

\* A late win counts only while at least half of its TTL remains.
Fresh(n) == 2 * (now - check[n].started) < TTL

(* is_leader_within gets the answer of the check it awaits or had carried.  *)
Answer(n) ==
  /\ status[n] = "up"
  /\ check[n].phase = "done"
  /\ until' = [until EXCEPT ![n] =
       IF check[n].held /\ Fresh(n) THEN check[n].next.expires ELSE -1]
  /\ check' = [check EXCEPT ![n] = NoCheck]
  /\ UNCHANGED <<now, lease, release, status>>

(* The deadline passes first: this tick is not leader, the check is carried.*)
GiveUpWaiting(n) ==
  /\ status[n] = "up"
  /\ check[n].phase \in {"get", "put"}
  /\ until[n] # -1
  /\ until' = [until EXCEPT ![n] = -1]
  /\ UNCHANGED <<now, lease, check, release, status>>

\* A task that is aborted, or dies with its process, while its PUT is in flight
\* leaves that PUT to the store.
Abandoned(c) == IF c.phase = "put" THEN c ELSE NoCheck

(* release(): abort a carried check, read the lease, keep its etag if ours. *)
BeginRelease(n) ==
  /\ status[n] = "up"
  /\ until' = [until EXCEPT ![n] = -1]
  /\ check' = [check EXCEPT ![n] = Abandoned(check[n])]
  /\ IF lease # NoLease /\ lease.holder = n
       THEN /\ status' = [status EXCEPT ![n] = "releasing"]
            /\ release' = [release EXCEPT ![n] = lease]
       ELSE /\ status' = [status EXCEPT ![n] = "stopped"]
            /\ UNCHANGED release
  /\ UNCHANGED <<now, lease>>

\* If-Match on the object release() read.
StillOurs(n) == lease = release[n]

(* The release's conditional overwrite; never a delete.                     *)
FinishRelease(n) ==
  /\ status[n] = "releasing"
  /\ lease' = IF StillOurs(n) THEN Released(release[n].term) ELSE lease
  /\ status' = [status EXCEPT ![n] = "stopped"]
  /\ release' = [release EXCEPT ![n] = NoLease]
  /\ UNCHANGED <<now, check, until>>

(* The process dies.                                                        *)
Crash(n) ==
  /\ status[n] \in {"up", "releasing"}
  /\ status' = [status EXCEPT ![n] = "stopped"]
  /\ until' = [until EXCEPT ![n] = -1]
  /\ check' = [check EXCEPT ![n] = Abandoned(check[n])]
  /\ release' = [release EXCEPT ![n] = NoLease]
  /\ UNCHANGED <<now, lease>>

Tick ==
  /\ now < MaxTime
  /\ now' = now + 1
  /\ UNCHANGED <<lease, check, until, release, status>>

CheckStep(n) ==
  StartCheck(n) \/ ReadLease(n) \/ WriteLease(n) \/ Answer(n)

Next ==
  \/ \E n \in Nodes :
       \/ CheckStep(n) \/ CallFails(n) \/ GiveUpWaiting(n)
       \/ BeginRelease(n) \/ FinishRelease(n) \/ Crash(n)
  \/ Tick

Spec == Init /\ [][Next]_vars

(* Time passes, the worker loop of a running node asks again on every tick  *)
(* (src/worker.rs run_worker_until), and a store that is asked again and     *)
(* again does answer: neither its GETs nor its PUTs fail for ever.           *)
Fairness ==
  /\ WF_vars(Tick)
  /\ \A n \in Nodes :
       /\ WF_vars(CheckStep(n) \/ CallFails(n))
       /\ SF_vars(ReadLease(n))
       /\ SF_vars(WriteLease(n) /\ check'[n].held)

LiveSpec == Spec /\ Fairness

-----------------------------------------------------------------------------
\* All clocks agree, and a GET that would take longer than two TTLs fails.
Synchronized ==
  /\ Skew = [n \in Nodes |-> 0]
  /\ ReadTimeout <= 2 * TTL

\* n may still act on a lease that it was told it holds and that has not run out.
Leads(n) == until[n] >= now

(* At most one node acts on an unexpired lease. The lease is sloppy only     *)
(* beyond its TTL: with synchronized clocks, and reads answered within two   *)
(* TTLs, no interleaving of creates, renewals, thefts and releases gives two *)
(* nodes the same unexpired time.                                            *)
Exclusive == \A m, n \in Nodes : Leads(m) /\ Leads(n) => m = n

(* A node that starts to lead has more than half of the TTL ahead of it,     *)
(* however late the carried check's answer came (is_leader_within).          *)
FreshWin ==
  [][\A n \in Nodes :
       until'[n] # until[n] /\ until'[n] # -1 => 2 * (until'[n] - now) > TTL]_vars

(* Leadership changes hands only upward: a new holder always writes a higher *)
(* term than the one it takes over from, a release included ("terms keep     *)
(* rising" in the tests of src/lease.rs).                                    *)
TermsRise ==
  [][lease # NoLease /\ lease' # lease /\ lease.term < MaxTerm =>
       \/ lease'.holder \in {lease.holder, Nobody} /\ lease'.term = lease.term
       \/ lease'.holder # Nobody /\ lease'.term > lease.term]_vars

(* release() expires only the releasing node's own lease: a peer that took   *)
(* the lease between the release's read and its write keeps it.              *)
ReleaseSparesPeers ==
  [][lease' # lease /\ lease'.holder = Nobody =>
       \E n \in Nodes : status[n] = "releasing" /\ lease.holder = n]_vars

(* What the lease is at any moment, and what no step of it may do.            *)
LeaseSafe == TypeOK /\ Exclusive
LeaseSteps == FreshWin /\ ReleaseSparesPeers /\ TermsRise

\* Only the bound on time keeps n from a lease: it runs out after MaxTime.
OutlivesModel(n) ==
  /\ lease # NoLease
  /\ lease.expires >= MaxTime + Skew[n]
  /\ lease.expires <= MaxTime + Skew[n] + 3 * TTL

(* No leadership vacuum: while some node stays up, somebody leads again and  *)
(* again, whatever the clock of a node that died holding the lease said: an  *)
(* expiry too far ahead is stolen, any other runs out.                       *)
NoVacuum ==
  \A n \in Nodes :
    [](status[n] = "up") =>
      []<>(OutlivesModel(n) \/ \E m \in Nodes : until[m] # -1)

(* With synchronized clocks a theft only ever takes a lease that ran out:    *)
(* the comment in try_hold calls the other case an impossibly far expiry left*)
(* by a clock-skewed holder that died.                                       *)
TheftTakesExpiredOnly ==
  [][lease # NoLease /\ lease' # lease /\ lease'.holder \notin {lease.holder, Nobody}
       => lease.expires < now]_vars
=============================================================================
