----------------------------- MODULE WorkerLoop -----------------------------
(***************************************************************************)
(* One node's background worker (worker.rs run_worker_until) and the end of *)
(* its process (app.rs run_serve): the loop pins the bucket selection, keeps *)
(* one lease manager per bucket and selection generation, checks its lease,  *)
(* starts the jobs that are due on tasks of their own, runs the leader's     *)
(* tick, and on shutdown hands its leases over before it flushes.  Jobs,     *)
(* lease checks and releases run beside the loop; the selection changes under *)
(* all of them.                                                             *)
(*                                                                         *)
(* A lease check reads and writes the lease in one step (module Lease has    *)
(* the steps in between); a lease is the generation of the manager that holds *)
(* it, a peer's, or free.  Generation g selects bucket Selected(g).          *)
(***************************************************************************)
EXTENDS Naturals, FiniteSets

CONSTANTS Buckets,      \* 1..n
          MaxGen,       \* bound: selection changes
          Plans,        \* what may happen in a run: see Plan
          None, Peer

VARIABLES gen,      \* the published selection generation
          pc,       \* where the loop is
          pinned,   \* the generation this iteration pinned
          mine,     \* authority_generation: whose managers the loop holds
          lead,     \* did this iteration's lease check win?
          lease,    \* lease[b]: Peer, None, or the generation of our manager
          check,    \* check[b][g]: the lease check of a manager, if any
          releasing,\* releases on their way, as <<bucket, generation>>
          released, \* releases that landed
          audit,    \* the running audit's generation, or None
          busy,     \* sweep_running: the audit's in-flight flag
          auditDue, \* is an audit due?
          audited,  \* generations audited to the end
          warm,     \* the warm-copy job, or None
          sweep,    \* is a marker sweep running?
          requested,\* repl_sweep_requested
          owed,     \* heal requests: "none", "waiting" for a sweep, "underway"
          signal,   \* "up", "stopping", "gone"
          plan,     \* this run's bounds
          requests, panics

(* The selection changes, heal requests and audit panics of a run, and whether
   it has warm copies, peers that want the leases, and audits. *)
Plan == [gens : Nat, heals : Nat, panics : Nat, warm : BOOLEAN, peers : BOOLEAN, audits : BOOLEAN]

loopVars == <<gen, pc, pinned, mine, lead>>
leaseVars == <<lease, check, releasing, released>>
jobVars == <<audit, busy, auditDue, audited, warm, sweep, requested, owed, requests, panics, plan>>
workerVars == <<loopVars, leaseVars, jobVars, signal>>

Gens == 0..MaxGen
Selected(g) == (g % Cardinality(Buckets)) + 1

NoCheck == [state |-> "none", awaited |-> FALSE]
Sent == [state |-> "sent", awaited |-> TRUE]

-----------------------------------------------------------------------------
(* Lease checks.  A bounded check awaits the one it gave up on last time, if
   there is one, and otherwise sends its own. *)
Awaiting(b, g) ==
    check' = [check EXCEPT ![b][g] = IF @.state = "none" THEN Sent ELSE [@ EXCEPT !.awaited = TRUE]]

(* A check lands: a free lease is taken, our own renewed. *)
Land(b, g) ==
    /\ check[b][g].state = "sent" /\ signal # "gone"
    /\ LET won == lease[b] \in {None, g} IN
       /\ lease' = [lease EXCEPT ![b] = IF won THEN g ELSE @]
       /\ check' = [check EXCEPT ![b][g].state = IF won THEN "won" ELSE "lost"]
    /\ UNCHANGED <<loopVars, releasing, released, jobVars, signal>>

Answered(b, g) == check[b][g].state \in {"won", "lost"}

(* release: the check it was carrying is aborted, one somebody awaits is not. *)
KeepCarried(b, g) == check[b][g]
Aborted(b, g) == IF check[b][g].awaited THEN check[b][g] ELSE NoCheck

Free(b, g) == IF lease[b] = g THEN None ELSE lease[b]

(* A release that a generation change spawned. *)
Release(b, g) ==
    /\ <<b, g>> \in releasing /\ signal # "gone"
    /\ releasing' = releasing \ {<<b, g>>}
    /\ released' = released \cup {<<b, g>>}
    /\ lease' = [lease EXCEPT ![b] = Free(b, g)]
    /\ check' = [check EXCEPT ![b][g] = Aborted(b, g)]
    /\ UNCHANGED <<loopVars, jobVars, signal>>

(* A peer takes a free lease; an unrenewed lease runs out. *)
PeerTakes(b) ==
    /\ plan.peers /\ lease[b] = None /\ lease' = [lease EXCEPT ![b] = Peer]
    /\ UNCHANGED <<loopVars, check, releasing, released, jobVars, signal>>
Lapse(b) ==
    /\ plan.peers \/ signal = "gone"
    /\ lease[b] # None /\ lease' = [lease EXCEPT ![b] = None]
    /\ UNCHANGED <<loopVars, check, releasing, released, jobVars, signal>>

-----------------------------------------------------------------------------
(* The top of the loop: a new selection retires every manager of the old one
   and makes the audit due again. *)
Rearmed == auditDue \/ (plan.audits /\ mine # None)

Top ==
    /\ pc = "top"
    /\ pinned' = gen /\ pc' = "check"
    /\ IF mine = gen THEN UNCHANGED <<mine, auditDue, releasing>>
       ELSE /\ mine' = gen /\ auditDue' = Rearmed
            /\ releasing' = releasing \cup (IF mine = None THEN {}
                                            ELSE {<<b, mine>> : b \in Buckets})
    /\ Awaiting(Selected(gen), gen)
    /\ UNCHANGED <<gen, lead, lease, released, audit, busy, audited, warm, sweep, requested, owed,
                   requests, panics, signal, plan>>

(* The selected bucket's lease answers in time, or the check is carried over. *)
CheckLease ==
    /\ pc = "check"
    /\ LET b == Selected(pinned) IN
       \/ /\ Answered(b, pinned)
          /\ lead' = (check[b][pinned].state = "won")
          /\ check' = [check EXCEPT ![b][pinned] = NoCheck]
       \/ /\ ~Answered(b, pinned)
          /\ lead' = FALSE
          /\ check' = [check EXCEPT ![b][pinned].awaited = FALSE]
    /\ pc' = "inline"
    /\ UNCHANGED <<gen, pinned, mine, lease, releasing, released, jobVars, signal>>

(* The inventory refresh and the counter flush, then the jobs every node runs:
   a marker sweep when one is asked for or due, and the warm copies.  A heal
   request is consumed only by a sweep that starts. *)
ConsumeEarly == requested' = FALSE
Consume == requested' = IF sweep THEN requested ELSE FALSE

StartJobs(backstop) ==
    /\ pc = "inline" /\ pc' = IF lead THEN "lead" ELSE "sleep"
    /\ IF requested \/ (backstop /\ plan.heals > 0)
       THEN /\ Consume /\ sweep' = TRUE
            /\ owed' = IF ~sweep /\ owed = "waiting" THEN "underway" ELSE owed
       ELSE UNCHANGED <<requested, sweep, owed>>
    /\ warm' = IF warm = None /\ plan.warm THEN [gen |-> mine, sel |-> pinned, at |-> "todo"] ELSE warm
    /\ UNCHANGED <<gen, pinned, mine, lead, leaseVars, audit, busy, auditDue, audited, requests,
                   panics, signal, plan>>

(* The leader's part: the denylist reconcile, the audit when due, the tick. *)
Authorized == pinned

StartAudit ==
    /\ pc = "lead" /\ pc' = "tick"
    /\ IF auditDue /\ ~busy
       THEN busy' = TRUE /\ audit' = Authorized /\ auditDue' = FALSE
       ELSE UNCHANGED <<audit, busy, auditDue>>
    /\ UNCHANGED <<gen, pinned, mine, lead, leaseVars, audited, warm, sweep, requested, owed,
                   requests, panics, signal, plan>>

(* The tick ends, or is abandoned for a new selection or a shutdown. *)
TickStops == signal # "up"
EndTick ==
    /\ pc = "tick" /\ pc' = "sleep"
    /\ UNCHANGED <<gen, pinned, mine, lead, leaseVars, jobVars, signal>>
AbandonTick ==
    /\ pc = "tick"
    /\ pc' = IF TickStops THEN "release" ELSE "sleep"
    /\ TickStops \/ gen # pinned
    /\ UNCHANGED <<gen, pinned, mine, lead, leaseVars, jobVars, signal>>

Wake ==
    /\ pc = "sleep"
    /\ pc' = IF signal # "up" THEN "release" ELSE "top"
    /\ UNCHANGED <<gen, pinned, mine, lead, leaseVars, jobVars, signal>>

(* The exit tail hands the leases over one at a time, the selected bucket's first
   and then each warm one, and flushes the counters after that. *)
GiveUp(b) ==
    /\ lease' = [lease EXCEPT ![b] = Free(b, mine)]
    /\ check' = [check EXCEPT ![b][mine] = Aborted(b, mine)]
    /\ released' = released \cup {<<b, mine>>}
    /\ UNCHANGED <<gen, pinned, mine, lead, releasing, jobVars, signal>>

HandOver == pc = "release" /\ pc' = "handover" /\ GiveUp(Selected(mine))

HandOverWarm ==
    /\ pc = "handover"
    /\ \E b \in Buckets \ {Selected(mine)} :
          /\ \A c \in Buckets \ {Selected(mine)} : c < b => <<c, mine>> \in released
          /\ pc' = IF \A c \in Buckets \ {Selected(mine)} : c <= b THEN "flush" ELSE pc
          /\ GiveUp(b)

FinalFlush ==
    /\ pc = "flush" /\ pc' = "stopped"
    /\ UNCHANGED <<gen, pinned, mine, lead, leaseVars, jobVars, signal>>

-----------------------------------------------------------------------------
(* The jobs.  An audit ends, fails, panics or is cancelled: its flag is cleared
   whichever it is. *)
Cleared == busy' = FALSE

AuditEnds ==
    /\ audit # None /\ signal # "gone"
    /\ \/ audit = gen /\ audited' = audited \cup {audit} /\ panics' = panics
       \/ audit # gen /\ UNCHANGED <<audited, panics>>
       \/ panics < plan.panics /\ panics' = panics + 1 /\ UNCHANGED audited
    /\ audit' = None /\ Cleared
    /\ UNCHANGED <<loopVars, leaseVars, auditDue, warm, sweep, requested, owed, requests, signal,
                   plan>>

(* The audit's interval has passed. *)
AuditFallsDue ==
    /\ ~auditDue /\ plan.audits /\ auditDue' = TRUE
    /\ UNCHANGED <<loopVars, leaseVars, audit, busy, audited, warm, sweep, requested, owed,
                   requests, panics, signal, plan>>

(* A warm-copy job works with the managers it was started with. *)
WarmBuckets == Buckets \ {Selected(warm.sel)}
WarmCheck ==
    /\ warm # None /\ warm.at = "todo" /\ signal # "gone"
    /\ warm' = [warm EXCEPT !.at = "check"]
    /\ check' = [b \in Buckets |-> IF b \notin WarmBuckets THEN check[b]
                    ELSE [check[b] EXCEPT ![warm.gen] =
                            IF @.state = "none" THEN Sent ELSE [@ EXCEPT !.awaited = TRUE]]]
    /\ UNCHANGED <<loopVars, lease, releasing, released, audit, busy, auditDue, audited, sweep,
                   requested, owed, requests, panics, signal, plan>>

WarmEnds ==
    /\ warm # None /\ warm.at = "check" /\ signal # "gone"
    /\ warm' = None
    /\ check' = [b \in Buckets |-> IF b \notin WarmBuckets THEN check[b]
                    ELSE [check[b] EXCEPT ![warm.gen] =
                            IF @.state = "sent" THEN [@ EXCEPT !.awaited = FALSE] ELSE NoCheck]]
    /\ UNCHANGED <<loopVars, lease, releasing, released, audit, busy, auditDue, audited, sweep,
                   requested, owed, requests, panics, signal, plan>>

SweepEnds ==
    /\ sweep /\ sweep' = FALSE /\ signal # "gone"
    /\ owed' = IF owed = "underway" THEN "none" ELSE owed
    /\ UNCHANGED <<loopVars, leaseVars, audit, busy, auditDue, audited, warm, requested, requests,
                   panics, signal, plan>>

(* A bucket heals: a sweep is asked for.  The selection moves. *)
Heal ==
    /\ requests < plan.heals /\ requests' = requests + 1
    /\ requested' = TRUE /\ owed' = "waiting"
    /\ UNCHANGED <<loopVars, leaseVars, audit, busy, auditDue, audited, warm, sweep, panics, signal,
                   plan>>

Reselect ==
    /\ gen < plan.gens /\ gen' = gen + 1
    /\ UNCHANGED <<pc, pinned, mine, lead, leaseVars, jobVars, signal>>

(* The process is told to stop.  It leaves when the worker has stopped, when
   WORKER_STOP_GRACE is over, or at once on a second signal: wherever the worker
   and its jobs are then, they go no further. *)
Stop ==
    /\ signal = "up" /\ signal' = "stopping"
    /\ UNCHANGED <<loopVars, leaseVars, jobVars>>

Exit ==
    /\ signal = "stopping" /\ signal' = "gone"
    /\ UNCHANGED <<loopVars, leaseVars, jobVars>>

WorkerInit ==
    /\ gen = 0 /\ pc = "top" /\ pinned = 0 /\ mine = None /\ lead = FALSE
    /\ plan \in Plans /\ lease \in [Buckets -> IF plan.peers THEN {None, Peer} ELSE {None}]
    /\ check = [b \in Buckets |-> [g \in Gens |-> NoCheck]]
    /\ releasing = {} /\ released = {}
    /\ audit = None /\ busy = FALSE /\ auditDue \in (IF plan.audits THEN BOOLEAN ELSE {FALSE}) /\ audited = {}
    /\ warm = None /\ sweep = FALSE /\ requested = FALSE /\ owed = "none"
    /\ signal = "up" /\ requests = 0 /\ panics = 0

Loop == /\ signal # "gone"
        /\ \/ Top \/ CheckLease \/ StartAudit \/ AbandonTick \/ Wake
           \/ \E backstop \in BOOLEAN : StartJobs(backstop)
           \/ HandOver \/ HandOverWarm \/ FinalFlush
Jobs == AuditEnds \/ WarmCheck \/ WarmEnds
Leases == \/ \E b \in Buckets, g \in Gens : Land(b, g) \/ Release(b, g)
          \/ \E b \in Buckets : PeerTakes(b) \/ Lapse(b)

WorkerNext == \/ Loop \/ (signal # "gone" /\ EndTick) \/ Jobs \/ Leases
              \/ SweepEnds \/ AuditFallsDue \/ Heal \/ Reselect \/ Stop \/ Exit

(* The loop, its jobs and the audit's timer go on, and a tick comes to an end; but
   nobody who stops the process waits for that.  Whether the process is gone before
   the loop got anywhere is not assumed either way.  What a process that is gone
   still held runs out. *)
WorkerFairness ==
    /\ WF_workerVars(Loop) /\ WF_workerVars(SweepEnds) /\ WF_workerVars(AuditEnds)
    /\ WF_workerVars(AuditFallsDue) /\ WF_workerVars(signal = "up" /\ EndTick)
    /\ WF_workerVars(\E b \in Buckets : signal = "gone" /\ lease[b] \in Gens /\ Lapse(b))

WorkerSpec == WorkerInit /\ [][WorkerNext]_workerVars /\ WorkerFairness

-----------------------------------------------------------------------------
WorkerTypeOK ==
    /\ gen \in Gens /\ pinned \in Gens /\ mine \in Gens \cup {None}
    /\ lease \in [Buckets -> Gens \cup {None, Peer}]
    /\ audit \in Gens \cup {None} /\ audited \subseteq Gens
    /\ requested => owed # "none"
    /\ releasing \subseteq Buckets \X Gens /\ released \subseteq Buckets \X Gens

(* "never re-pin onto that new bucket under the old bucket's lease": an audit
   works on a generation whose managers the loop held when it started it, never
   on a selection that was published since. *)
AuditAuthorized == audit # None => mine # None /\ audit <= mine

(* "A carried check landing after this would re-take the lease": once the lease of
   the selected bucket has been released, by a new selection or on the way out,
   the manager that gave it up never holds it again. *)
SelectedStaysReleased ==
    \A g \in Gens : <<Selected(g), g>> \in released => lease[Selected(g)] # g

(* The same for every bucket: what the exit tail and a new selection hand over
   stays handed over. *)
ReleasedStays == \A r \in released : lease[r[1]] # r[2]

(* "a request arriving while a sweep is already in flight is not lost": a heal
   request is followed by a whole sweep that began after it, without waiting for
   the slow backstop. *)
HealSwept == owed = "waiting" /\ signal = "up" ~> owed # "waiting" \/ signal # "up"

(* "The leader on the newly selected bucket must audit its own views": a node that
   keeps leading the last selection audits it to the end, whichever audit of an
   older one was running, cancelled or panicked. *)
LeadsFromNow(g) == <>[](plan.audits /\ gen = g /\ lease[Selected(g)] = g /\ signal = "up")
Audited == \A g \in Gens : LeadsFromNow(g) /\ []<>(pc = "lead") => <>(g \in audited \/ signal # "up")

(* "a graceful SIGTERM must never be stuck behind a slow batch": a worker told to
   stop hands over every lease it holds, however long the tick would have run,
   unless the process leaves first (the grace is over, or a second signal came). *)
HandsOver ==
    signal = "stopping" ~> signal = "gone" \/ \A b \in Buckets : <<b, mine>> \in released

(* "Past it the process exits anyway and the successor waits out the lease TTL
   instead": wherever the exit cut the worker off, nothing of the process takes or
   renews a lease afterwards, and every bucket is free for a successor. *)
LeftToTtl == signal = "gone" ~> [](\A b \in Buckets : lease[b] \notin Gens)
=============================================================================
