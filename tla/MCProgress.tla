----------------------------- MODULE MCProgress -----------------------------
(***************************************************************************)
(* What must happen in the end, on small instances of the components whose *)
(* loops have to bring it about: the lease, the index of names, a package's *)
(* views, the transparency chain, the health loop, the worker loop and      *)
(* replication.  A behaviour is one part's, under*)
(* that part's own fairness; the others rest in an initial state.          *)
(***************************************************************************)
EXTENDS Naturals

CONSTANTS Parts, n1, n2, w1, b1, b2, s1, s2, None, NoLease, Nobody, NoSlot, Rival

VARIABLES part,
          now, lease, check, until, release, status,
          scn, truth, views, markers, fp, stamp, deny, leads, reconciled, writer, job, unfenced,
          changes, faults, moves,
          outlook, health, selected, readPin, applied, appliedRead, readActive, fenced, loop, up,
          stamps, repairs, fanout, lull, flips, reports,
          gen, pc, pinned, mine, lead, held, asked, releasing, released, audit, busy, auditDue,
          audited, warm, sweep, requested, owed, signal, plan, requests, panics,
          obj, claim, notes, run, acked, stored, deleted, deaths,
          crew, present, shown, dirty, json, html, proof, names, work, edits, failures,
          view, shas, chains, certs, heads, walks, lapses

Nodes == {n1, n2}

\* Lease: n1 runs far ahead of n2, so that the lease it writes looks bogus.
OneAhead == [n \in Nodes |-> IF n = n1 THEN 5 ELSE 0]
L == INSTANCE Lease WITH Skew <- OneAhead, TTL <- 1, ReadTimeout <- 1, MaxTerm <- 1, MaxTime <- 2

\* Views: a tick and an audit of one node under a change; a denylist rolled out.
Case(jobs, c, f, m) == [jobs |-> jobs, multi |-> FALSE, changes |-> c, faults |-> f, moves |-> m]
Cases == {Case({<<n1, "tick">>, <<n1, "audit">>}, 1, 0, 0),
          Case(Nodes \X {"tick", "reconcile"}, 0, 0, 3)}
P == INSTANCE PackageIndex WITH Writers <- {w1}, Scenarios <- Cases,
        MaxChanges <- 2, MaxFaults <- 1, MaxMoves <- 4

\* The index of names: a tick and an audit that share a cache, and a change.
Together == {<<n1, "tick">>, <<n1, "audit">>}
I == INSTANCE GlobalIndex WITH fleet <- crew, truth <- present, views <- shown, stamp <- proof,
        cache <- names, job <- work, changes <- edits, faults <- failures,
        Packages <- {"p", "q"}, Tags <- 1 .. 12, Fleets <- {<<Together, 1, 1>>}, Attempts <- 2,
        MaxChanges <- 2, MaxFaults <- 1

\* The chain: two leaders pinned to two buckets, a change of truth.
C == INSTANCE Transparency WITH pins <- heads, Auditors <- Nodes, Replicas <- {1, 2},
        Packages <- {"p", "q"}, Churning <- {"p"}, Nil <- None, MaxShas <- 2, MaxLapses <- 2,
        Fleets <- {[pins |-> [n \in Nodes |-> IF n = n1 THEN 1 ELSE 2], shas |-> 1, lapses |-> 0]}

\* Health: a region bucket, or none.
Weathers == {[region |-> 1, flips |-> 1, reports |-> 1], [region |-> NoSlot, flips |-> 1, reports |-> 0]}
B == INSTANCE BucketHealth WITH stamp <- stamps, owed <- repairs, Slots <- {0, 1},
        Outlooks <- Weathers, LeaveAfter <- 2, Window <- 3, CycleTime <- 1, Grace <- 1,
        MaxFlips <- 3, MaxReports <- 3

\* The worker: two heal requests, or audits of which one panics.
Quiet == [gens |-> 1, heals |-> 0, panics |-> 0, warm |-> FALSE, peers |-> FALSE, audits |-> FALSE]
Busy == {[Quiet EXCEPT !.heals = 2, !.gens = 0], [Quiet EXCEPT !.panics = 1, !.audits = TRUE]}
W == INSTANCE WorkerLoop WITH lease <- held, check <- asked, Peer <- Rival, Buckets <- {1, 2},
        MaxGen <- 1, Plans <- Busy

\* Replication: one upload per bucket out of these meets every verdict on two live
\* records; a healed partition, and a replicator that may die once.
Up(b, s, o, t) == [at |-> b, sha |-> s, origin |-> o, time |-> t]
Partition == {Up(b1, s1, "private", 0), Up(b1, s1, "mirror", 0), Up(b2, s1, "private", 5),
              Up(b2, s2, "private", 1), Up(b2, s2, "private", 5), Up(b2, s2, "mirror", 0)}
Replicator == {[kinds |-> {"sweep", "diff", "rebuild"}, daemon |-> TRUE]}
\* The order of the encoded documents is arbitrary; this one tells all apart.
AnyDigest(d) ==
    (IF d.sha = s1 THEN 0 ELSE 1) + (IF d.origin = "private" THEN 2 ELSE 4)
    + 8 * (IF d.upload_epoch_ms = None THEN 0 ELSE 1 + d.upload_epoch_ms)
R == INSTANCE Replicate WITH faults <- deaths, Shas <- {s1, s2}, Buckets <- {b1, b2},
        Details <- {"d"}, CONFLICT_SKEW_MS <- 2, Digest <- AnyDigest, Uploads <- Partition,
        Deletes <- {}, Tasks <- Replicator, Scenarios <- {Partition \cup Replicator},
        Selectable <- {b1}, MaxFaults <- 1

-----------------------------------------------------------------------------
leases == <<now, lease, check, until, release, status>>
packages == <<scn, truth, views, markers, fp, stamp, deny, leads, reconciled, writer, job, unfenced,
              changes, faults, moves>>
pins == <<outlook, health, selected, readPin, applied, appliedRead, readActive, fenced, loop, up,
          stamps, repairs, fanout, lull, flips, reports>>
workers == <<gen, pc, pinned, mine, lead, held, asked, releasing, released, audit, busy, auditDue,
             audited, warm, sweep, requested, owed, signal, plan, requests, panics>>
replicas == <<obj, claim, notes, run, acked, stored, deleted, deaths>>
indexes == <<crew, present, shown, dirty, json, html, proof, names, work, edits, failures>>
links == <<view, shas, chains, certs, heads, walks, lapses>>

Either(S) == CHOOSE x \in S : TRUE
Init ==
    /\ part \in Parts
    /\ L!Init
    /\ P!Init /\ (part # "package" => scn = Either(Cases))
    /\ B!HealthInit /\ (part # "health" => outlook = Either(Weathers) /\ repairs = {} /\ \A s \in {0, 1} : up[s])
    /\ W!WorkerInit /\ (part # "worker" => /\ plan = Either(Busy) /\ ~auditDue
                                           /\ \A s \in {1, 2} : held[s] = None)
    /\ I!Init
    /\ C!ChainInit
    /\ IF part = "heal" THEN R!PartitionInit ELSE R!Init
Next ==
    \/ /\ part = "lease" /\ L!Next
       /\ UNCHANGED <<part, indexes, packages, links, pins, workers, replicas>>
    \/ /\ part = "index" /\ I!Next
       /\ UNCHANGED <<part, leases, packages, links, pins, workers, replicas>>
    \/ /\ part = "package" /\ P!Next
       /\ UNCHANGED <<part, leases, indexes, links, pins, workers, replicas>>
    \/ /\ part = "chain" /\ C!ChainNext
       /\ UNCHANGED <<part, leases, indexes, packages, pins, workers, replicas>>
    \/ /\ part = "health" /\ B!HealthNext
       /\ UNCHANGED <<part, leases, indexes, packages, links, workers, replicas>>
    \/ /\ part = "worker" /\ W!WorkerNext
       /\ UNCHANGED <<part, leases, indexes, packages, links, pins, replicas>>
    \/ /\ part = "heal" /\ R!Next
       /\ UNCHANGED <<part, leases, indexes, packages, links, pins, workers>>
Spec == Init /\ [][Next]_<<part, leases, indexes, packages, links, pins, workers, replicas>>

-----------------------------------------------------------------------------
(* lease.rs, "impossibly far in the future": a holder whose clock ran ahead and that
   died leaves no leadership vacuum; while a node stays up somebody leads again and again. *)
NoVacuum == part = "lease" /\ L!Fairness => L!NoVacuum

(* worker.rs audit_shard, reconcile_excludes, write_chain_link: where somebody audits,
   the views of a package and the index of names come to show the stored truth and stay
   so, a denied name is delisted once every node has led with the denylist, and
   verify-chain falls silent for good. *)
ViewsConverge ==
    /\ part = "package" /\ P!Fairness => P!Converges /\ P!DelistedOnceLed
    /\ part = "index" /\ I!Fairness => I!Settles
    /\ part = "chain" /\ C!ChainFairness => C!Clears

(* bucket_health.rs: once outages end the pins settle on the most preferred buckets
   that answer and are ours.  worker.rs: every heal request is followed by a sweep
   that began after it, a lasting leader audits its selection, a worker told to stop
   hands its leases over unless the process leaves first, and what a process that is
   gone still held is free for a successor. *)
LoopsProgress ==
    /\ part = "health" /\ B!HealthFairness => B!PinsSettle
    /\ part = "worker" /\ W!WorkerFairness => W!HealSwept /\ W!Audited /\ W!HandsOver /\ W!LeftToTtl

(* replicate.rs: from every state that a healed partition leaves, whatever dies, the
   sweep, the reconcile and the rebuilds bring the buckets to agree and spend every note. *)
BucketsConverge == part = "heal" /\ R!Fairness => R!Converges
=============================================================================
