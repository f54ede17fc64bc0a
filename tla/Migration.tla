------------------------------ MODULE Migration ------------------------------
(***************************************************************************)
(* Changing the bucket list of a deployment: `pypiron buckets migrate`      *)
(* (cli.rs run_buckets_migrate), the repair notes and backfill sentinels it *)
(* reads and writes (replicate.rs), and the reconcile pass that clears them. *)
(*                                                                         *)
(* A bucket holds files (a file stands for an artifact or for a fence: the  *)
(* removal gate treats them alike), notes "this file is owed to that        *)
(* bucket", sentinels "that bucket is new" and a topology stamp.  The fleet *)
(* runs under one list; it should be stopped while the command runs, but a  *)
(* node may still be writing.  Buckets can be unreachable and the command   *)
(* may die between any two steps and be run again, with the same list or    *)
(* another.  How the stamps themselves are raced for is module Topology.    *)
(***************************************************************************)
EXTENDS Naturals, FiniteSets, FiniteSetsExt

CONSTANTS
    Buckets,        \* numbered in the order of the list
    Files,
    Deployments,    \* situations: stamped list, what each bucket holds, lists to migrate to
    MaxCommands,    \* bound on runs of the command
    MaxUploads,     \* bound on uploads
    MaxCuts,        \* bound on changes of reachability
    MaxSilent,      \* how many buckets may be unreachable at once
    Unstamped       \* no list

VARIABLES
    holds,      \* files stored in each bucket
    notes,      \* notes[b]: <<destination, file>> owed by b
    sentinels,  \* sentinels[b]: buckets b fences as new
    stamp,      \* stamp[b]: the list and generation b carries, or Unstamped
    reachable,
    plan,       \* the lists the operator migrates to
    config,     \* the list the operator starts nodes with
    fleet,      \* the list the running nodes serve, or Unstamped: stopped
    since,      \* the generation the running nodes were started under
    publish,    \* an upload under way: its file, its home, the buckets it has yet to reach
    acked,      \* files the fleet acknowledged, now or before
    command,    \* the migrate command
    pass,       \* the reconcile pass
    opened,     \* the bucket the read gate just let reads go to
    ran, uploads, cuts

migVars == <<holds, notes, sentinels, stamp, reachable, plan, config, fleet, since, publish, acked,
             command, pass, opened, ran, uploads, cuts>>

NoCommand == [phase |-> "none"]
NoPass == [phase |-> "none"]
NoUpload == [file |-> Unstamped]

(* The highest stamp among the buckets of a list that answer. *)
Answering(list) == {b \in list \cap reachable : stamp[b] # Unstamped}
Latest(list) == CHOOSE b \in Answering(list) :
                    \A c \in Answering(list) : stamp[b].gen >= stamp[c].gen

(* first_undrained_repl_note sees repair notes only, never sentinels. *)
Undrained(b) == notes[b] # {}

(* Buckets are visited in list order. *)
Due(b, todo) == todo # {} /\ b = Min(todo)

CommandAs(c) == command' = c
Bail == CommandAs([phase |-> "refused"])

StartCommand(list) ==
    /\ command.phase \in {"none", "refused", "died"}
    /\ ran < MaxCommands
    /\ ran' = ran + 1
    /\ CommandAs([phase |-> "notes", list |-> list, unchecked |-> {}, todo |-> list,
                  removed |-> {}, added |-> {}, saw |-> {}])
    /\ opened' = {}
    /\ UNCHANGED <<plan, config, holds, notes, sentinels, stamp, reachable, fleet, since, publish,
                   acked, pass, uploads, cuts>>

(* Every bucket that stays is checked for notes; an unreachable one is skipped. *)
CheckNotes(b) ==
    /\ command.phase = "notes" /\ Due(b, command.todo)
    /\ \/ b \in reachable /\ Undrained(b) /\ Bail
       \/ /\ b \in reachable => ~Undrained(b)
          /\ CommandAs([command EXCEPT
                !.todo = @ \ {b},
                !.unchecked = IF b \in reachable THEN @ ELSE @ \cup {b},
                !.phase = IF command.todo = {b} THEN "learn" ELSE @])

(* The previous list comes from the stamps that answer: none at all means a
   first migration, in which the buckets without files are the new ones. *)
Learn ==
    /\ command.phase = "learn"
    /\ LET list == command.list IN
       IF Answering(list) # {}
       THEN LET prev == stamp[Latest(list)].list IN
            CommandAs([command EXCEPT !.phase = "diff", !.removed = prev \ list,
                                      !.added = list \ prev, !.todo = prev \ list])
       ELSE IF list \subseteq reachable
       THEN CommandAs([command EXCEPT !.phase = "diff", !.todo = {},
                                      !.added = {b \in list : holds[b] = {}}])
       ELSE Bail

(* artifacts_unique_to_removed: what the survivors do not hold. *)
UniqueTo(b, list) == holds[b] \ UNION {holds[s] : s \in list}

(* A bucket being removed must answer, owe no note and hold no only copy; a
   survivor that does not answer is a refusal too. *)
DiffRemoved(b) ==
    /\ command.phase = "diff" /\ Due(b, command.todo)
    /\ IF /\ b \in reachable /\ ~Undrained(b)
          /\ command.list \subseteq reachable
          /\ UniqueTo(b, command.list) = {}
       THEN CommandAs([command EXCEPT !.todo = @ \ {b}, !.saw = @ \cup holds[b]])
       ELSE Bail

Diffed ==
    /\ command.phase = "diff" /\ command.todo = {}
    /\ CommandAs([command EXCEPT !.phase = "seed", !.todo = command.added])

(* Each new bucket is fenced by a sentinel on the peers that answer, one at
   least, before the list is committed. *)
Seed(b) ==
    /\ command.phase = "seed" /\ Due(b, command.todo)
    /\ LET peers == (command.list \ {b}) \cap reachable IN
       IF peers = {} THEN Bail /\ UNCHANGED sentinels
       ELSE /\ sentinels' = [s \in Buckets |->
                    IF s \in peers THEN sentinels[s] \cup {b} ELSE sentinels[s]]
            /\ CommandAs([command EXCEPT !.todo = @ \ {b}])

(* What the seeding waits for: the commit comes only after it. *)
Seeded == command.phase = "seed" /\ command.todo = {}

CommitList ==
    /\ Seeded
    /\ LET list == command.list
           gen == IF Answering(list) = {} THEN 1 ELSE stamp[Latest(list)].gen + 1
       IN  /\ list \cap reachable # {}
           /\ stamp' = [b \in Buckets |-> IF b \in list \cap reachable
                                         THEN [list |-> list, gen |-> gen] ELSE stamp[b]]
           /\ config' = list
           /\ CommandAs([command EXCEPT !.phase = "recheck", !.todo = list \cup command.removed])

(* repl_notes_after_commit: kept buckets first, then the removed ones; a note
   that the first check would have refused fails the command. *)
NoteAppeared(b) ==
    IF b \in reachable THEN Undrained(b) /\ b \notin command.unchecked
    ELSE b \notin command.list

RecheckNotes(b) ==
    /\ command.phase = "recheck" /\ b \in command.todo
    /\ IF command.todo \cap command.list = {} THEN Due(b, command.todo)
       ELSE Due(b, command.todo \cap command.list)
    /\ IF NoteAppeared(b) THEN Bail
       ELSE CommandAs([command EXCEPT !.todo = @ \ {b},
                            !.phase = IF command.todo = {b} THEN "done" ELSE @])

(* The operator is killed, or kills the command. *)
Die ==
    /\ command.phase \notin {"none", "refused", "died", "done"}
    /\ CommandAs([phase |-> "died"])

CommandStep ==
    /\ \/ /\ \/ \E b \in Buckets : CheckNotes(b) \/ DiffRemoved(b) \/ RecheckNotes(b)
             \/ Learn \/ Diffed \/ Die
          /\ UNCHANGED <<sentinels, stamp, config>>
       \/ \E b \in Buckets : Seed(b) /\ UNCHANGED <<stamp, config>>
       \/ CommitList /\ UNCHANGED sentinels
    /\ opened' = {}
    /\ UNCHANGED <<holds, notes, reachable, plan, fleet, since, publish, acked, pass, ran, uploads,
                   cuts>>

-----------------------------------------------------------------------------
(* The fleet.  The operator starts it on the list last committed; starting nodes
   on an older list is module Topology's subject. *)
Busy == command.phase \notin {"none", "refused", "died", "done"}

StopFleet ==
    /\ fleet # Unstamped /\ pass = NoPass
    /\ fleet' = Unstamped /\ publish' = NoUpload
    /\ opened' = {}
    /\ UNCHANGED <<plan, config, holds, notes, sentinels, stamp, reachable, since, acked, command,
                   pass, ran, uploads, cuts>>

StartFleet ==
    /\ fleet = Unstamped /\ ~Busy /\ config # Unstamped
    /\ Answering(config) # {}
    /\ stamp[Latest(config)].list = config
    /\ fleet' = config /\ since' = stamp[Latest(config)].gen
    /\ command' = IF command.phase = "done" THEN NoCommand ELSE command
    /\ opened' = {}
    /\ UNCHANGED <<plan, config, holds, notes, sentinels, stamp, reachable, publish, acked, pass,
                   ran, uploads, cuts>>

(* What the nodes may use: verify_topology_index refuses a bucket whose stamp
   disagrees, and re-stamps one that missed the commit.  Nodes that were not
   stopped do not see that a later list was stamped over theirs. *)
Usable == {b \in fleet \cap reachable :
              stamp[b] # Unstamped /\ (stamp[b].list = fleet \/ stamp[b].gen > since)}

Restamp(b) ==
    /\ fleet # Unstamped /\ b \in fleet \cap reachable
    /\ LET ours == {stamp[c] : c \in {c \in fleet : stamp[c] # Unstamped /\ stamp[c].list = fleet}}
       IN  \E top \in ours :
            /\ \A o \in ours : o.gen <= top.gen
            /\ stamp[b] # Unstamped => stamp[b].gen < top.gen
            /\ stamp' = [stamp EXCEPT ![b] = top]
    /\ opened' = {}
    /\ UNCHANGED <<holds, notes, sentinels, reachable, plan, config, fleet, since, publish, acked,
                   command, pass, ran, uploads, cuts>>

(* A publish: the file lands at its home, fanout_sync carries it to the other
   buckets of the list for as long as its grace lasts, and a note at the home says
   to whom it is still owed, before the client is told. *)
Upload(f) ==
    /\ fleet # Unstamped /\ uploads < MaxUploads
    /\ f \notin acked /\ publish = NoUpload
    /\ \E home \in Usable :
        /\ holds' = [holds EXCEPT ![home] = @ \cup {f}]
        /\ publish' = [file |-> f, home |-> home, missed |-> fleet \ {home}]
    /\ uploads' = uploads + 1 /\ opened' = {}
    /\ UNCHANGED <<plan, config, notes, sentinels, stamp, reachable, fleet, since, acked, command,
                   pass, ran, cuts>>

Carry(b) ==
    /\ publish # NoUpload /\ b \in publish.missed \cap Usable
    /\ holds' = [holds EXCEPT ![b] = @ \cup {publish.file}]
    /\ publish' = [publish EXCEPT !.missed = @ \ {b}]
    /\ opened' = {}
    /\ UNCHANGED <<plan, config, notes, sentinels, stamp, reachable, fleet, since, acked, command,
                   pass, ran, uploads, cuts>>

(* write_marker for every bucket that was missed, then the answer; or the node dies,
   or the notes cannot be written and the upload is refused. *)
FinishUpload ==
    /\ publish # NoUpload /\ publish' = NoUpload
    /\ \/ /\ publish.home \in reachable \/ publish.missed = {}
          /\ notes' = [notes EXCEPT ![publish.home] =
                @ \cup {<<d, publish.file>> : d \in publish.missed}]
          /\ acked' = acked \cup {publish.file}
       \/ UNCHANGED <<notes, acked>>
    /\ opened' = {}
    /\ UNCHANGED <<plan, config, holds, sentinels, stamp, reachable, fleet, since, command, pass,
                   ran, uploads, cuts>>

(* sweep_bucket_markers: a note is delivered and dropped; one owed to a bucket
   that is no longer configured can only be dropped. *)
Sweep(b) ==
    /\ fleet # Unstamped /\ b \in Usable
    /\ \E n \in notes[b] :
        /\ n[1] \in fleet => n[1] \in Usable
        /\ holds' = IF n[1] \in fleet THEN [holds EXCEPT ![n[1]] = @ \cup {n[2]}] ELSE holds
        /\ notes' = [notes EXCEPT ![b] = @ \ {n}]
    /\ opened' = {}
    /\ UNCHANGED <<plan, config, sentinels, stamp, reachable, fleet, since, publish, acked, command,
                   pass, ran, uploads, cuts>>

(* reconcile: the pinned bucket is diffed with every other, twice, in sequence. *)
BeginPass ==
    /\ fleet # Unstamped /\ pass = NoPass
    /\ \E hub \in Usable :
        pass' = [phase |-> "diff", hub |-> hub, round |-> 1, todo |-> fleet \ {hub},
                 clean |-> TRUE]
    /\ opened' = {}
    /\ UNCHANGED <<plan, config, holds, notes, sentinels, stamp, reachable, fleet, since, publish,
                   acked, command, ran, uploads, cuts>>

(* Where the pass is once one more peer is done with. *)
Onward(p, b, ok) ==
    IF p.todo # {b} THEN [p EXCEPT !.todo = @ \ {b}, !.clean = @ /\ ok]
    ELSE IF p.round = 1 THEN [p EXCEPT !.round = 2, !.todo = fleet \ {p.hub}, !.clean = @ /\ ok]
    ELSE [p EXCEPT !.phase = "drain", !.todo = {}, !.clean = @ /\ ok]

DiffPair(b) ==
    /\ pass.phase = "diff" /\ Due(b, pass.todo)
    /\ LET both == holds[pass.hub] \cup holds[b]
           ok == {b, pass.hub} \subseteq Usable
       IN  /\ holds' = IF ok THEN [holds EXCEPT ![b] = both, ![pass.hub] = both] ELSE holds
           /\ pass' = Onward(pass, b, ok)
    /\ opened' = {}
    /\ UNCHANGED <<plan, config, notes, sentinels, stamp, reachable, fleet, since, publish, acked,
                   command, ran, uploads, cuts>>

(* drain_backfill_sentinels: only a clean pass clears sentinels, and only those
   of configured buckets. *)
Drained(s) == IF pass.clean /\ s \in Usable THEN sentinels[s] \ fleet
              ELSE sentinels[s]

Drain ==
    /\ pass.phase = "drain"
    /\ sentinels' = [s \in Buckets |-> Drained(s)]
    /\ pass' = NoPass /\ opened' = {}
    /\ UNCHANGED <<plan, config, holds, notes, stamp, reachable, fleet, since, publish, acked,
                   command, ran, uploads, cuts>>

(* region_owed_no_notes: every peer must answer and owe nothing. *)
SkipSilent(r) ==
    \A b \in (fleet \ {r}) \cap reachable :
        r \notin sentinels[b] /\ \A n \in notes[b] : n[1] # r
region_owed_no_notes(r) ==
    \A b \in fleet \ {r} : /\ b \in reachable
                           /\ r \notin sentinels[b]
                           /\ \A n \in notes[b] : n[1] # r

(* A node seeds its read pin, or returns reads to its region bucket. *)
OpenReads(r) ==
    /\ fleet # Unstamped /\ r \in Usable
    /\ region_owed_no_notes(r)
    /\ opened' = {r}
    /\ UNCHANGED <<plan, config, holds, notes, sentinels, stamp, reachable, fleet, since, publish,
                   acked, command, pass, ran, uploads, cuts>>

Cut ==
    /\ cuts < MaxCuts
    /\ \E up \in SUBSET Buckets :
        /\ up # reachable /\ Cardinality(Buckets \ up) <= MaxSilent
        /\ reachable' = up
    /\ cuts' = cuts + 1 /\ opened' = {}
    /\ UNCHANGED <<plan, config, holds, notes, sentinels, stamp, fleet, since, publish, acked,
                   command, pass, ran, uploads>>

MigrationInit ==
    /\ \E d \in Deployments :
        /\ holds = d.holds
        /\ stamp = [b \in Buckets |-> IF d.list # Unstamped /\ b \in d.list
                                      THEN [list |-> d.list, gen |-> 1] ELSE Unstamped]
        /\ fleet = d.list
        /\ config = d.list
        /\ plan = d.plan
        /\ acked = IF d.list = Unstamped THEN UNION {d.holds[b] : b \in Buckets}
                   ELSE {f \in Files : \A b \in d.list : f \in d.holds[b]}
    /\ notes = [b \in Buckets |-> {}]
    /\ sentinels = [b \in Buckets |-> {}]
    /\ reachable = Buckets
    /\ command = NoCommand
    /\ pass = NoPass /\ publish = NoUpload
    /\ since = 1 /\ opened = {}
    /\ ran = 0 /\ uploads = 0 /\ cuts = 0

MigrationNext ==
    \/ \E list \in plan : StartCommand(list)
    \/ CommandStep
    \/ StopFleet \/ StartFleet
    \/ \E f \in Files : Upload(f)
    \/ \E b \in Buckets : Restamp(b) \/ Sweep(b) \/ DiffPair(b) \/ OpenReads(b) \/ Carry(b)
    \/ FinishUpload \/ BeginPass \/ Drain
    \/ Cut

MigrationFairness ==
    /\ WF_migVars(CommandStep)
    /\ \A b \in Buckets : WF_migVars(Restamp(b)) /\ WF_migVars(Sweep(b)) /\ WF_migVars(DiffPair(b))
    /\ WF_migVars(BeginPass) /\ WF_migVars(Drain)

MigrationSpec == MigrationInit /\ [][MigrationNext]_migVars /\ MigrationFairness

-----------------------------------------------------------------------------
MigrationTypeOK ==
    /\ holds \in [Buckets -> SUBSET Files]
    /\ notes \in [Buckets -> SUBSET (Buckets \X Files)]
    /\ \A b \in Buckets : \A n \in notes[b] : n[2] \in holds[b]
    /\ sentinels \in [Buckets -> SUBSET Buckets]
    /\ reachable \subseteq Buckets
    /\ fleet = Unstamped \/ fleet \in SUBSET Buckets
    /\ acked \subseteq Files

(* A bucket that holds an only copy is never dropped: when the command has found a
   bucket it removed free of notes after its commit, every file on it that was
   acknowledged by then is on some bucket of the new list, and so is every file that
   stood there when it was compared, even if a node kept publishing, sweeping and
   reconciling under the old list all the while.  (An upload that is still on its way
   then can be acknowledged later with its only copy on the dropped bucket, which is
   why the nodes should be stopped; and a command that died after its commit and is
   run again finds nothing to remove, so it no longer looks at the bucket its first
   run dropped.) *)
Rechecked == IF command'.phase = "done" THEN command.todo
             ELSE IF command'.phase = "recheck" THEN command.todo \ command'.todo ELSE {}
NoOnlyCopyDropped ==
    [][command.phase = "recheck" =>
        \A b \in command.removed \cap Rechecked :
            \A f \in holds[b] \cap (acked \cup command.saw) :
                \E s \in command.list : f \in holds[s]]_migVars

(* "a freshly-added bucket owes reads nothing until converged": whenever a node
   sends reads to a bucket, that bucket holds every acknowledged file any bucket
   of the list holds - whatever died, was cut off or was retried while the
   bucket was being added, removed and added again. *)
ReadsConverged ==
    \A r \in opened : \A b \in fleet : holds[b] \cap acked \subseteq holds[r]
=============================================================================
