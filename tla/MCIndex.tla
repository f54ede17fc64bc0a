------------------------------- MODULE MCIndex ------------------------------
(***************************************************************************)
(* Bounded instances of the index that the worker derives: the global      *)
(* index of names (GlobalIndex) and the views of one package               *)
(* (PackageIndex).  A behaviour is one part's; the other part rests in an  *)
(* initial state.                                                          *)
(***************************************************************************)
EXTENDS GlobalIndex

CONSTANTS Parts, n1, n2, w1

VARIABLES part,
          scn, objects, pages, markers, fp, excludes, deny, leads, reconciled, writer, task,
          unfenced, edits, failures, moves

\* The two ticks of a dual leadership; a tick beside a destination's drain; an
\* audit that shares the cache of a tick; an audit on another node.
TwoTicks == {<<n1, "tick">>, <<n2, "tick">>}
TickAndDrain == {<<n1, "tick">>, <<n2, "drain">>}
TickAndAudit == {<<n1, "tick">>, <<n1, "audit">>}
TickAndPeerAudit == {<<n1, "tick">>, <<n2, "audit">>}

\* Each with the changes and the faults already spent, to keep the instances small.
Pairs ==
    {<<TwoTicks, 0, 1>>, <<TwoTicks, 1, 0>>, <<TickAndDrain, 1, 0>>,
     <<TickAndAudit, 0, 1>>, <<TickAndAudit, 1, 0>>, <<TickAndPeerAudit, 1, 1>>}

\* A tick heals and rebuilds beside its audit, with and without the fence of a second
\* bucket; two ticks share the fence; two leaders tick around an audit; a denylist is
\* rolled out.
Case(jobs, multi, c, f, m) ==
    [jobs |-> jobs, multi |-> multi, changes |-> c, faults |-> f, moves |-> m]
Cases ==
    {Case(TickAndAudit, FALSE, 1, 1, 0), Case(TickAndAudit, TRUE, 1, 1, 0),
     Case(TwoTicks, TRUE, 1, 1, 0), Case(TwoTicks \cup {<<n1, "audit">>}, FALSE, 1, 0, 0),
     Case(Nodes \X {"tick", "reconcile"}, FALSE, 0, 1, 2)}
P == INSTANCE PackageIndex WITH
        truth <- objects, views <- pages, stamp <- excludes, job <- task,
        changes <- edits, faults <- failures,
        Writers <- {w1}, Scenarios <- Cases, MaxChanges <- 2, MaxFaults <- 1, MaxMoves <- 4

-----------------------------------------------------------------------------
packageVars == <<scn, objects, pages, markers, fp, excludes, deny, leads, reconciled, writer, task,
                 unfenced, edits, failures, moves>>

IndexInit ==
    /\ part \in Parts
    /\ Init /\ (part # "global" => fleet = TwoTicks /\ changes = 0)
    /\ P!Init /\ (part # "package" => scn = CHOOSE s \in Cases : TRUE)
IndexNext ==
    \/ part = "global" /\ Next /\ UNCHANGED <<part, packageVars>>
    \/ part = "package" /\ P!Next /\ UNCHANGED <<part, vars>>
IndexSpec == IndexInit /\ [][IndexNext]_<<part, vars, packageVars>>

-----------------------------------------------------------------------------
(* worker.rs audit_certificate, "the skip gate trusts a stored fingerprint
   forever", and markers.rs: a fingerprint that matches the bucket vouches for
   views that render the truth, and once markers, writers and jobs are at rest
   the views render the truth, whichever step failed or died. *)
PackageSound == P!TypeOK /\ P!CertificateSound /\ P!NoLostUpdate
=============================================================================
