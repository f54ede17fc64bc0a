--------------------------- MODULE Quarantine ---------------------------
(***************************************************************************)
(* The fleet's set of quarantined projects (src/src/advisories.rs): one    *)
(* object per bucket, carrying an epoch, derived from the projects' durable *)
(* statuses.  A status write publishes its own increment, the leader       *)
(* re-derives the name when it drains the write's dirty marker, an audit   *)
(* sweep republishes the whole set, every node polls it into the live set  *)
(* its byte gate consults, and the leader re-seeds buckets that fell       *)
(* behind.  The statuses are taken as every bucket reads them alike: their *)
(* replication is Replicate's subject.                                     *)
(***************************************************************************)
EXTENDS Naturals, FiniteSets

CONSTANTS
    Gates,      \* the nodes
    Leader,     \* the node whose worker leads
    Shelves,    \* the buckets
    Projects,
    Courses     \* bounds: the runs considered, each
                \* [shelves, edits: Projects -> status writes, sweeps, switches, faults]

ASSUME QuarantineAssumption ==
    /\ Leader \in Gates /\ IsFiniteSet(Projects) /\ IsFiniteSet(Shelves)
    /\ \A c \in Courses : c.shelves \subseteq Shelves /\ c.edits \in [Projects -> Nat] /\ c.sweeps \in Nat /\ c.switches \in Nat /\ c.faults \in Nat

VARIABLES
    course,    \* the bounds of this run
    left,      \* what is left of them
    status,    \* per project: do its durable statuses block downloads
    shelf,     \* per bucket: [names, epoch, tag], tag 0 when never written
    live,      \* per node: [names, epoch, tag, pending], its AdvisoryState
    selected,  \* per node: the bucket it has pinned
    dirty,     \* the projects with a dirty marker
    edit,      \* per node: the status write it handles
    work,      \* the leader's tick: the publish of a drained marker
    sweep,     \* the leader's audit, a task of its own beside the tick
    poll       \* per node: a body its poll has read and not yet adopted

quarantineVars == <<course, left, status, shelf, live, selected, dirty, edit, work, sweep, poll>>

NoTask == [at |-> "idle"]
Blocked == {p \in Projects : status[p]}
InUse == course.shelves

QuarantineInit ==
    /\ course \in Courses
    /\ left = [edits |-> course.edits, sweeps |-> course.sweeps,
               switches |-> course.switches, faults |-> course.faults]
    /\ status \in [Projects -> BOOLEAN]
    /\ shelf = [b \in InUse |-> [names |-> Blocked, epoch |-> 1, tag |-> 1]]
    /\ live = [n \in Gates |-> [names |-> Blocked, epoch |-> 1, tag |-> 1, pending |-> FALSE]]
    /\ \E b \in InUse : selected = [n \in Gates |-> b]
    /\ dirty = {}
    /\ edit = [n \in Gates |-> NoTask]
    /\ work = NoTask /\ sweep = NoTask
    /\ poll = [n \in Gates |-> NoTask]

Fault == left.faults > 0 /\ left' = [left EXCEPT !.faults = @ - 1]
NoFault == UNCHANGED left

----------------------------------------------------------------------------
(* adopt_quarantined: the one way a set with an epoch becomes the live one. *)
(* `tag` is the listing etag to record, `keep` keeps the one recorded.      *)
adopt_quarantined(n, names, epoch, tag) ==
    IF \/ epoch < live[n].epoch
       \/ epoch = live[n].epoch /\ live[n].pending /\ names # live[n].names
    THEN [live[n] EXCEPT !.tag = tag]
    ELSE [names |-> names, epoch |-> epoch, tag |-> tag, pending |-> FALSE]

arm_local_quarantine(n, p, blocked) ==
    IF (p \in live[n].names) = blocked THEN live[n]
    ELSE [live[n] EXCEPT !.names = IF blocked THEN @ \cup {p} ELSE @ \ {p}, !.pending = TRUE]

With(names, p, blocked) == IF blocked THEN names \cup {p} ELSE names \ {p}

(* seed_quarantined_onto: a peer takes the body only if it is newer than    *)
(* its own.                                                                 *)
seed_quarantined_onto(b, names, epoch) ==
    IF shelf[b].epoch >= epoch THEN shelf[b]
    ELSE [names |-> names, epoch |-> epoch, tag |-> shelf[b].tag + 1]

----------------------------------------------------------------------------
(* publish_quarantined, step by step.  A task t of node n carries its edit  *)
(* (One, Derive or Sweep), the bucket it was pinned to and what it has read. *)

(* What the publish starts from: the bucket's body, or the node's own set   *)
(* when the bucket is behind it.                                            *)
Have(n, t) ==
    IF shelf[t.on].epoch < live[n].epoch /\ t.kind # "sweep"
    THEN [names |-> live[n].names, behind |-> TRUE]
    ELSE [names |-> shelf[t.on].names, behind |-> FALSE]

(* The set to publish.  A drained marker trusts its status read only to     *)
(* confirm; a sweep replays what others published since its walk began.     *)
\* mutant: the sweep's set is written as derived
SweepBlind(t, have) == t.walked
Merged(t, have) ==
    IF shelf[t.on].epoch = t.base.epoch THEN t.walked
    ELSE (t.walked \cup (have \ t.base.names)) \ (t.base.names \ have)
Next1(t, have) ==
    IF t.kind = "sweep" THEN Merged(t, have) ELSE With(have, t.name, t.blocked)

(* One attempt's read.  Confirmed sets are adopted at the stored epoch; a   *)
(* Derive that would change the set reads the status again first.           *)
ReadStep(n, t) ==
    LET have == Have(n, t)
        next == Next1(t, have.names)
        body == shelf[t.on]
    IN  IF next = have.names /\ ~ have.behind
        THEN [task |-> [t EXCEPT !.at = "done"],
              live |-> adopt_quarantined(n, next, body.epoch, live[n].tag)]
        ELSE [task |-> [t EXCEPT !.at = IF t.kind = "derive" /\ next # have.names
                                        THEN "reread" ELSE "cas",
                                 !.have = have.names, !.behind = have.behind, !.next = next,
                                 !.epoch = (IF body.epoch > live[n].epoch THEN body.epoch
                                            ELSE live[n].epoch) + 1,
                                 !.tag = body.tag, !.stored = body.epoch],
              live |-> live[n]]

(* The second status read of a Derive, after the set was read. *)
Reread(t) == status[t.name]
RereadStep(n, t) ==
    LET next == With(t.have, t.name, Reread(t))
    IN  IF next = t.have /\ ~ t.behind
        THEN [task |-> [t EXCEPT !.at = "done"],
              live |-> adopt_quarantined(n, next, t.stored, live[n].tag)]
        ELSE [task |-> [t EXCEPT !.at = "cas", !.next = next,
                                 !.epoch = (IF t.stored > live[n].epoch THEN t.stored
                                            ELSE live[n].epoch) + 1],
              live |-> live[n]]

Task(kind, b, p, blocked, walked, base) ==
    [at |-> "read", kind |-> kind, on |-> b, name |-> p, blocked |-> blocked,
     walked |-> walked, base |-> base, have |-> {}, behind |-> FALSE, next |-> {},
     epoch |-> 0, tag |-> 0, stored |-> 0]

(* The tasks a publish can move to. *)
Onward(n, t) ==
    {[t EXCEPT !.at = at] : at \in {"peers", "read", "adopt", "done", "failed"}}
    \cup {ReadStep(n, t).task} \cup (IF t.at = "reread" THEN {RereadStep(n, t).task} ELSE {})

(* A publish of node n moves from task t to task u.                         *)
PublishStep(n, t, u) ==
    \/ /\ t.at = "read"
       /\ u = ReadStep(n, t).task
       /\ live' = [live EXCEPT ![n] = ReadStep(n, t).live]
       /\ UNCHANGED shelf /\ NoFault
    \/ /\ t.at = "reread"
       /\ u = RereadStep(n, t).task
       /\ live' = [live EXCEPT ![n] = RereadStep(n, t).live]
       /\ UNCHANGED shelf /\ NoFault
    \/ /\ t.at = "cas"
       /\ UNCHANGED live /\ NoFault
       /\ IF shelf[t.on].tag = t.tag
          THEN /\ u = [t EXCEPT !.at = "peers"]
               /\ shelf' = [shelf EXCEPT ![t.on] =
                     [names |-> t.next, epoch |-> t.epoch, tag |-> @.tag + 1]]
          ELSE u = [t EXCEPT !.at = "read"] /\ UNCHANGED shelf
    \/ /\ t.at = "peers"
       /\ u = [t EXCEPT !.at = "adopt"]
       /\ UNCHANGED live
       /\ \/ /\ NoFault
             /\ shelf' = [b \in InUse |-> IF b = t.on THEN shelf[b]
                                            ELSE seed_quarantined_onto(b, t.next, t.epoch)]
          \/ Fault /\ UNCHANGED shelf /\ Cardinality(InUse) > 1
    \/ /\ t.at = "adopt"
       /\ u = [t EXCEPT !.at = "done"]
       /\ live' = [live EXCEPT ![n] = adopt_quarantined(n, t.next, t.epoch, 0)]
       /\ UNCHANGED shelf /\ NoFault
    \/ /\ t.at \in {"read", "reread", "cas"}     \* a storage error, or the attempts ran out
       /\ u = [t EXCEPT !.at = "failed"]
       /\ Fault /\ UNCHANGED <<live, shelf>>

----------------------------------------------------------------------------
(* A status write on node n: the durable status, the local arm, the one-    *)
(* name publish, and whatever that returned, the commit marker.             *)
WriteStatus(n) ==
    /\ edit[n] = NoTask
    /\ \E p \in Projects :
          /\ left.edits[p] > 0 /\ left' = [left EXCEPT !.edits[p] = @ - 1]
          /\ status' = [status EXCEPT ![p] = ~ @]
          /\ edit' = [edit EXCEPT ![n] =
                [Task("one", selected[n], p, ~ status[p], {}, {}) EXCEPT !.at = "arm"]]
    /\ UNCHANGED <<course, shelf, live, selected, dirty, work, poll, sweep>>

Arm(n) ==
    /\ edit[n].at = "arm"
    /\ live' = [live EXCEPT ![n] = arm_local_quarantine(n, edit[n].name, edit[n].blocked)]
    /\ edit' = [edit EXCEPT ![n].at = "read"]
    /\ UNCHANGED <<course, left, status, shelf, selected, dirty, work, poll, sweep>>

PublishOne(n) ==
    /\ edit[n].at \in {"read", "cas", "peers", "adopt"}
    /\ \E u \in Onward(n, edit[n]) :
          PublishStep(n, edit[n], u) /\ edit' = [edit EXCEPT ![n] = u]
    /\ UNCHANGED <<course, status, selected, dirty, work, poll, sweep>>

(* The commit marker follows the publish, landed or not. *)
Markable(n) == edit[n].at \in {"done", "failed"}
CommitMarker(n) ==
    /\ edit[n].at \in {"done", "failed"}
    /\ dirty' = IF Markable(n) THEN dirty \cup {edit[n].name} ELSE dirty
    /\ edit' = [edit EXCEPT ![n] = NoTask]
    /\ UNCHANGED <<course, left, status, shelf, live, selected, work, poll, sweep>>

(* The node dies in the handler: its unpaired intent marker has the leader  *)
(* rebuild the package, and the restarted node loads its bucket's set.      *)
CrashInEdit(n) ==
    /\ edit[n] # NoTask /\ n # Leader /\ Fault
    /\ dirty' = dirty \cup {edit[n].name}
    /\ edit' = [edit EXCEPT ![n] = NoTask]
    /\ poll' = [poll EXCEPT ![n] = NoTask]
    /\ live' = [live EXCEPT ![n] = [names |-> shelf[selected[n]].names,
                   epoch |-> shelf[selected[n]].epoch, tag |-> shelf[selected[n]].tag,
                   pending |-> FALSE]]
    /\ UNCHANGED <<course, status, shelf, selected, work, sweep>>

----------------------------------------------------------------------------
(* The leader's worker.  republish_quarantine: a drained marker re-derives  *)
(* the name; the marker goes once the publish succeeded.                    *)
DrainStart ==
    /\ work = NoTask
    /\ \E p \in dirty :
          /\ work' = Task("derive", selected[Leader], p, status[p], {}, {})
          /\ dirty' = dirty \ {p}      \* re-added by a failure below
    /\ UNCHANGED <<course, left, status, shelf, live, selected, edit, poll, sweep>>

(* The audit: the stored set as the walk begins, the statuses as it reads   *)
(* them, then the repair.                                                   *)
SweepStart ==
    /\ sweep = NoTask /\ left.sweeps > 0
    /\ left' = [left EXCEPT !.sweeps = @ - 1]
    /\ sweep' = [at |-> "walk", base |-> shelf[selected[Leader]], on |-> selected[Leader]]
    /\ UNCHANGED <<course, status, shelf, live, selected, dirty, edit, work, poll>>
SweepWalk ==
    /\ sweep.at = "walk"
    /\ sweep' = Task("sweep", sweep.on, CHOOSE p \in Projects : TRUE, FALSE, Blocked,
                     [names |-> sweep.base.names, epoch |-> sweep.base.epoch])
    /\ UNCHANGED <<course, left, status, shelf, live, selected, dirty, edit, work, poll>>
SweepPublish ==
    /\ sweep.at \in {"read", "cas", "peers", "adopt"}
    /\ \E u \in Onward(Leader, sweep) : PublishStep(Leader, sweep, u) /\ sweep' = u
    /\ UNCHANGED <<course, status, selected, dirty, edit, work, poll>>
SweepDone ==
    /\ sweep.at \in {"done", "failed"}
    /\ sweep' = NoTask
    /\ UNCHANGED <<course, left, status, shelf, live, selected, dirty, edit, work, poll>>

DrainPublish ==
    /\ work.at \in {"read", "reread", "cas", "peers", "adopt"}
    /\ \E u \in Onward(Leader, work) : PublishStep(Leader, work, u) /\ work' = u
    /\ UNCHANGED <<course, status, selected, dirty, edit, poll, sweep>>
DrainDone ==
    /\ work.at \in {"done", "failed"}
    /\ dirty' = IF work.at = "failed" THEN dirty \cup {work.name} ELSE dirty
    /\ work' = NoTask
    /\ UNCHANGED <<course, left, status, shelf, live, selected, edit, poll, sweep>>

(* reseed_if_absent: a set this node published or read, onto every bucket   *)
(* that holds an older one; never a set with an unpublished arm in it.      *)
Seedable == ~ live[Leader].pending
ReseedShelves ==
    /\ Seedable
    /\ \E b \in InUse : shelf[b].epoch < live[Leader].epoch
    /\ shelf' = [b \in InUse |->
           seed_quarantined_onto(b, live[Leader].names, live[Leader].epoch)]
    /\ UNCHANGED <<course, left, status, live, selected, dirty, edit, work, poll, sweep>>

(* reload_quarantined: when the listing tag moved, the body; the adoption   *)
(* may come after a local arm or publish.                                   *)
PollRead(n) ==
    /\ poll[n] = NoTask
    /\ shelf[selected[n]].tag # live[n].tag
    /\ poll' = [poll EXCEPT ![n] = [at |-> "read", body |-> shelf[selected[n]]]]
    /\ UNCHANGED <<course, left, status, shelf, live, selected, dirty, edit, work, sweep>>
PollAdopt(n) ==
    /\ poll[n] # NoTask
    /\ live' = [live EXCEPT ![n] =
           adopt_quarantined(n, poll[n].body.names, poll[n].body.epoch, poll[n].body.tag)]
    /\ poll' = [poll EXCEPT ![n] = NoTask]
    /\ UNCHANGED <<course, left, status, shelf, selected, dirty, edit, work, sweep>>

(* A node's bucket selection moves.  A worker publish that has not started  *)
(* writing belongs to the old generation and is given up.                   *)
SwitchGate(n) ==
    /\ left.switches > 0
    /\ left' = [left EXCEPT !.switches = @ - 1]
    /\ \E b \in InUse \ {selected[n]} : selected' = [selected EXCEPT ![n] = b]
    /\ UNCHANGED <<course, status, shelf, live, dirty, edit, work, poll, sweep>>

QuarantineNext ==
    \/ \E n \in Gates :
          \/ WriteStatus(n) \/ Arm(n) \/ PublishOne(n) \/ CommitMarker(n) \/ CrashInEdit(n)
          \/ PollRead(n) \/ PollAdopt(n) \/ SwitchGate(n)
    \/ DrainStart \/ DrainPublish \/ DrainDone
    \/ SweepStart \/ SweepWalk \/ SweepPublish \/ SweepDone \/ ReseedShelves

(* A handler runs to its end, the leader drains markers and re-seeds, every *)
(* node polls on its interval.                                              *)
QuarantineFairness ==
    /\ \A n \in Gates : /\ WF_quarantineVars(Arm(n) \/ PublishOne(n) \/ CommitMarker(n))
                        /\ WF_quarantineVars(PollRead(n) \/ PollAdopt(n))
    /\ WF_quarantineVars(DrainStart \/ DrainPublish \/ DrainDone)
    /\ WF_quarantineVars(SweepWalk \/ SweepPublish \/ SweepDone)
    /\ WF_quarantineVars(ReseedShelves)
QuarantineSpec == QuarantineInit /\ [][QuarantineNext]_quarantineVars /\ QuarantineFairness

----------------------------------------------------------------------------
(* Types: no bucket is above the highest epoch written, a task's epoch is   *)
(* above the body it read, and no node's live set is ahead of every bucket  *)
(* unless it is publishing.                                                 *)
QuarantineTypeOK ==
    /\ \A b \in InUse : shelf[b].names \subseteq Projects /\ shelf[b].epoch \in Nat \ {0}
    /\ \A n \in Gates : live[n].names \subseteq Projects /\ live[n].epoch \in Nat
    /\ \A n \in Gates : \E b \in InUse : live[n].epoch <= shelf[b].epoch
    /\ dirty \subseteq Projects

Settled == /\ dirty = {} /\ work = NoTask /\ sweep = NoTask /\ \A n \in Gates : edit[n] = NoTask

(* A sweep's merge replays what the set gained and lost since its base.  A  *)
(* name that is released and blocked again around the walk, or the other    *)
(* way round, is in the set as it was in the base, and the sweep takes back *)
(* its second change.                                                       *)
Churned(p) == left.sweeps < course.sweeps /\ left.edits[p] + 1 < course.edits[p]

(* When every handler has returned and every marker is drained, the set the *)
(* fleet serves by is the set of projects whose durable status blocks       *)
(* downloads, through lost races, failed publishes and crashed handlers;    *)
(* but for a name that was changed twice where a sweep ran.                 *)
SettledTruth ==
    Settled /\ left.switches = course.switches =>
        \A p \in Projects : Churned(p) \/ (p \in shelf[selected[Leader]].names <=> status[p])

(* "Every set that carries an epoch enters through adopt_quarantined": the  *)
(* live set and its epoch belong together - a node without an unpublished   *)
(* arm holds the very set some bucket holds or held at that epoch, so equal *)
(* epochs on one bucket's line of bodies mean equal sets.                   *)
SameEpochSameSet ==
    Cardinality(InUse) = 1 =>
        \A n \in Gates, b \in InUse :
            live[n].epoch = shelf[b].epoch /\ ~ live[n].pending => live[n].names = shelf[b].names

(* A set read from storage never takes the place of a newer one: a poll's   *)
(* body that was in flight while this node armed, published or polled again *)
(* is not installed over what landed meanwhile, so a running node's epoch   *)
(* only rises and an arm is dropped only for a strictly newer set.  Two     *)
(* buckets may each mint one epoch when nodes have moved between them: only *)
(* then, and without an arm, does a set replace another of its epoch.       *)
NeverBackwards ==
    [][\A n \in Gates :
          \/ live'[n].epoch > live[n].epoch
          \/ /\ live'[n].epoch = live[n].epoch
             /\ \/ live'[n].names = live[n].names
                \/ ~ live[n].pending /\ left.switches < course.switches
          \/ edit[n].at = "arm"                         \* the arm itself
          \/ left'.faults < left.faults                  \* a restart
      ]_quarantineVars

(* advisories.rs, worker.rs: once everything is drained the set the fleet serves by is
   the set of blocked projects, and equal epochs mean equal sets. *)
QuarantineSafe == QuarantineTypeOK /\ SettledTruth /\ SameEpochSameSet
=============================================================================
