------------------------------ MODULE MCFleet ------------------------------
(***************************************************************************)
(* Bounded instances of how a fleet agrees on its buckets: the topology    *)
(* stamps, the health loop and its pins, the migrate command, the worker   *)
(* loop that holds the leases, and the transparency chain its leaders      *)
(* write.  A behaviour is one part's; the others rest in an initial state. *)
(***************************************************************************)
EXTENDS Topology, BucketHealth, Transparency, TLC

CONSTANTS Parts, Unstamped, None, Rival, s1, s2, m1, n1, n2, f1, f2, p1, p2

VARIABLES part,
          holds, notes, sentinels, carried, reachable, plans, config, fleet, since, publish, acked, command,
          pass, opened, ran, uploads, cuts,
          gen, pc, pinned, mine, lead, lease, check, releasing, released, audit, busy, auditDue,
          audited, warm, sweep, requested, heals, signal, plan, requests, panics

\* Topology: two first starts under two lists, and a rolling change of the list.
Blank(set) == [s \in set |-> NoStamp]
Carry(set, l) == [s \in set |-> [buckets |-> l, generation |-> 0]]
Listing(l1, l2, lm, st, k) ==
    [lists |-> (s1 :> l1) @@ (s2 :> l2) @@ (m1 :> lm), stamped |-> st, silences |-> k]
Starts == {Listing(<<1, 2>>, <<2, 1>>, <<1, 2>>, Blank({1, 2}), 0),
           Listing(<<1, 2>>, <<2, 3>>, <<1, 2>>, Blank({1, 2, 3}), 0),
           Listing(<<1, 2>>, <<2, 3>>, <<2, 3>>, Carry({1, 2}, <<1, 2>>) @@ Blank({3}), 2)}

\* Health: a region bucket beside the preferred one, or none.
Weather(r, f, n) == [region |-> r, flips |-> f, reports |-> n]
Some == {Weather(1, 2, 1), Weather(NoSlot, 2, 3)}

\* The chain: leaders pinned to one bucket or to two, changes of truth and lapses.
Pinned(x1, x2, k, l) == [pins |-> (n1 :> x1) @@ (n2 :> x2), shas |-> k, lapses |-> l]
Wholes == {Pinned(1, 2, 2, 0), Pinned(1, 2, 1, 1), Pinned(2, 2, 1, 1)}

\* Migration: a converged pair grown by one bucket; a pair of which one member is
\* replaced, the one removed holding a file its peer lacks or not; a single bucket that
\* never carried a stamp, grown to two or three.
Holding(fx, fy) == (1 :> fx) @@ (2 :> fy) @@ (3 :> {})
Deployment(list, held, plan_) == [list |-> list, holds |-> held, plan |-> plan_]
Reshapes == {Deployment({1, 2}, Holding({f1}, {f1}), {{1, 2, 3}}),
             Deployment({1, 2}, Holding({f1}, {f1}), {{2, 3}}),
             Deployment({1, 2}, Holding({f1}, {}), {{2, 3}}),
             Deployment(Unstamped, Holding({f1}, {}), {{1, 2}}),
             Deployment(Unstamped, Holding({f1}, {}), {{1, 2, 3}})}
G == INSTANCE Migration WITH stamp <- carried, plan <- plans, Buckets <- {1, 2, 3},
        Files <- {f1, f2}, Deployments <- Reshapes, MaxCommands <- 2, MaxUploads <- 1,
        MaxCuts <- 1, MaxSilent <- 1

\* The worker: heal requests, audits that panic, peers that want the leases, warm copies.
Quiet == [gens |-> 1, heals |-> 0, panics |-> 0, warm |-> FALSE, peers |-> FALSE, audits |-> FALSE]
AllPlans == {[Quiet EXCEPT !.heals = 2], [Quiet EXCEPT !.panics = 1, !.audits = TRUE],
             [Quiet EXCEPT !.peers = TRUE, !.audits = TRUE], [Quiet EXCEPT !.warm = TRUE]}
W == INSTANCE WorkerLoop WITH owed <- heals, Peer <- Rival, Buckets <- {1, 2}, MaxGen <- 1, Plans <- AllPlans

-----------------------------------------------------------------------------
migrations == <<holds, notes, sentinels, carried, reachable, plans, config, fleet, since, publish, acked,
                command, pass, opened, ran, uploads, cuts>>
workers == <<gen, pc, pinned, mine, lead, lease, check, releasing, released, audit, busy, auditDue,
             audited, warm, sweep, requested, heals, signal, plan, requests, panics>>

Either(S) == CHOOSE x \in S : TRUE
Init ==
    /\ part \in Parts
    /\ TopologyInit /\ (part # "topology" => rollout = Either(Rollouts))
    /\ HealthInit /\ (part # "health" => outlook = Either(Outlooks) /\ owed = {} /\ \A s \in Slots : up[s])
    /\ ChainInit /\ (part # "chain" => view = Either(Fleets))
    /\ G!MigrationInit /\ (part # "migrate" => fleet = Unstamped /\ plans = {{1, 2}})
    /\ W!WorkerInit /\ (part # "worker" => /\ plan = Either(AllPlans) /\ ~auditDue
                                           /\ \A s \in {1, 2} : lease[s] = None)
Next ==
    \/ /\ part = "topology" /\ TopologyNext
       /\ UNCHANGED <<part, healthVars, chainVars, migrations, workers>>
    \/ /\ part = "health" /\ HealthNext
       /\ UNCHANGED <<part, topologyVars, chainVars, migrations, workers>>
    \/ /\ part = "chain" /\ ChainNext
       /\ UNCHANGED <<part, topologyVars, healthVars, migrations, workers>>
    \/ /\ part = "migrate" /\ G!MigrationNext
       /\ UNCHANGED <<part, topologyVars, healthVars, chainVars, workers>>
    \/ /\ part = "worker" /\ W!WorkerNext
       /\ UNCHANGED <<part, topologyVars, healthVars, chainVars, migrations>>
fleetVars == <<part, topologyVars, healthVars, chainVars, migrations, workers>>
Spec == Init /\ [][Next]_fleetVars

-----------------------------------------------------------------------------
(* replicate.rs: a bucket that is sent reads holds every acknowledged file of the
   list, whatever died, was cut off or was run again while it was being added, and
   no step reports a migration done that drops an only copy. *)
MigrationSafe == [](G!MigrationTypeOK /\ G!ReadsConverged) /\ G!NoOnlyCopyDropped

(* worker.rs: an audit works under the managers it was started under, and the lease
   of a selected bucket that was given up is never taken again by the manager that
   gave it up. *)
WorkerSafe == W!WorkerTypeOK /\ W!AuditAuthorized /\ W!SelectedStaysReleased

(* worker.rs, "A carried check landing after this would re-take the lease": what a
   new selection or the exit tail handed over stays handed over, on every bucket. *)
ReleasedStays == W!ReleasedStays
=============================================================================
