------------------------------ MODULE Topology ------------------------------
(***************************************************************************)
(* The topology stamps that tie a set of buckets to one ordered list       *)
(* (src/buckets.rs).  A node that starts reads the stamp of every bucket   *)
(* of its list, refuses to run over a conflict, and stamps or re-stamps    *)
(* what lags by conditional writes; `buckets migrate` re-stamps under the  *)
(* next generation; a running node validates a bucket that comes back.     *)
(* Any call may find its bucket silent.  A stamp's ETag is the stamp.      *)
(***************************************************************************)
EXTENDS Naturals, FiniteSets, FiniteSetsExt, Sequences

CONSTANTS
    Starters,       \* the nodes
    Migrators,      \* the runs of `buckets migrate`
    NoStamp,
    Silent,         \* what a call to a silent bucket answers
    Rollouts,       \* who is configured with which list: see Rollout
    MaxSilences     \* bound: calls that find their bucket silent

VARIABLES
    rollout,
    stamps,      \* _topology/stamp.json of each bucket
    proc,        \* where each process stands
    silences

topologyVars == <<rollout, stamps, proc, silences>>

Processes == Starters \cup Migrators

StampsOver(set) == [buckets : Seq(set), generation : Nat]

\* The list of each process, the stamps the buckets carry at first and the bounds.
IsRollout(r) ==
    LET set == DOMAIN r.stamped
    IN  /\ DOMAIN r.lists = Processes /\ \A q \in Processes : r.lists[q] \in Seq(set)
        /\ r.stamped \in [set -> StampsOver(set) \cup {NoStamp}]
        /\ {NoStamp, Silent} \cap StampsOver(set) = {}
        /\ set = UNION {{r.lists[q][i] : i \in 1 .. Len(r.lists[q])} : q \in Processes}
        /\ r.silences \in 0 .. MaxSilences

ASSUME TopologyAssumption == NoStamp # Silent /\ MaxSilences \in Nat /\ \A r \in Rollouts : IsRollout(r)

Sites == DOMAIN stamps
List(q) == rollout.lists[q]
Members(q) == {List(q)[i] : i \in 1 .. Len(List(q))}
Stamp(q, gen) == [buckets |-> List(q), generation |-> gen]

Off == [at |-> "off", gen |-> NoStamp, seen |-> [b \in {} |-> NoStamp], todo |-> {}, target |-> NoStamp,
        lost |-> {}]

TopologyInit ==
    /\ rollout \in Rollouts
    /\ stamps = rollout.stamped
    /\ proc = [q \in Processes |-> Off]
    /\ silences = 0

ProcSteps == {"off", "read", "write", "raced", "on", "done", "refused", "fenced"}

\* Well typed; whoever writes has read every bucket of its list, and whoever runs
\* holds a generation.
TopologyTypeOK ==
    /\ silences \in 0 .. MaxSilences
    /\ \A q \in Processes :
          /\ proc[q].at \in ProcSteps
          /\ proc[q].at = "write" => DOMAIN proc[q].seen = Members(q) /\ proc[q].todo \subseteq Members(q)
          /\ proc[q].at \in {"on", "fenced", "done"} => proc[q].gen \in Nat

-----------------------------------------------------------------------------
(* Steps.                                                                  *)

Becomes(q, p) == proc' = [proc EXCEPT ![q] = p]
Fails(q) == Becomes(q, [Off EXCEPT !.at = "refused"])
Hush == silences < rollout.silences /\ silences' = silences + 1

Begin(q) ==
    /\ proc[q].at = "off"
    /\ Becomes(q, [Off EXCEPT !.at = "read"])
    /\ UNCHANGED <<rollout, stamps, silences>>

\* Every stamp is read before anything is written.
ReadStamp(q, b) ==
    LET saw(s) == [c \in DOMAIN proc[q].seen \cup {b} |-> IF c = b THEN s ELSE proc[q].seen[c]]
    IN  /\ proc[q].at = "read" /\ b \in Members(q) \ DOMAIN proc[q].seen
        /\ \/ Becomes(q, [proc[q] EXCEPT !.seen = saw(stamps[b])]) /\ UNCHANGED silences
           \/ Becomes(q, [proc[q] EXCEPT !.seen = saw(Silent)]) /\ Hush
        /\ UNCHANGED <<rollout, stamps>>

Answered(q) == {b \in Members(q) : proc[q].seen[b] # Silent}
Stamped(q) == {b \in Answered(q) : proc[q].seen[b] # NoStamp}
Bare(q) == Answered(q) \ Stamped(q)
Highest(q) == IF Stamped(q) = {} THEN 0 ELSE Max({proc[q].seen[b].generation : b \in Stamped(q)})
Latest(q) == {b \in Stamped(q) : proc[q].seen[b].generation = Highest(q)}

\* Mutant: the stamps at the highest generation are not compared.
Lenient(q) == Answered(q) # {} /\ (Bare(q) = {} \/ Answered(q) = Members(q))
\* verify_topology_with: somebody answered, no bare bucket is stamped while
\* another is silent, and every stamp of the highest generation names this list.
Acceptable(q) ==
    /\ Answered(q) # {}
    /\ Bare(q) = {} \/ Answered(q) = Members(q)
    /\ \A b \in Latest(q) : proc[q].seen[b].buckets = List(q)

Verify(q) ==
    /\ q \in Starters
    /\ proc[q].at = "read" /\ DOMAIN proc[q].seen = Members(q)
    /\ IF Acceptable(q)
       THEN Becomes(q, [proc[q] EXCEPT !.at = "write", !.todo = Answered(q) \ Latest(q),
                           !.target = Stamp(q, Highest(q))])
       ELSE Fails(q)
    /\ UNCHANGED <<rollout, stamps, silences>>

\* migrate_topology_with: every bucket that answered gets the next generation.
\* It runs in a process of its own, which has verified nothing before.
NextGeneration(q) == Highest(q) + 1

Migrate(q) ==
    /\ q \in Migrators
    /\ proc[q].at = "read" /\ DOMAIN proc[q].seen = Members(q)
    /\ IF Answered(q) # {}
       THEN Becomes(q, [proc[q] EXCEPT !.at = "write", !.todo = Answered(q),
                           !.target = Stamp(q, NextGeneration(q))])
       ELSE Fails(q)
    /\ UNCHANGED <<rollout, stamps, silences>>

\* Mutant: the write is unconditional.
WriteAnyway(q, b) == TRUE
\* put_if_match, put_if_none_match
Unmoved(q, b) == stamps[b] = proc[q].seen[b]

WriteStamp(q, b) ==
    LET p == proc[q]
    IN  /\ p.at = "write" /\ b \in p.todo
        /\ \/ /\ Unmoved(q, b)
              /\ stamps' = [stamps EXCEPT ![b] = p.target]
              /\ Becomes(q, [p EXCEPT !.todo = @ \ {b}])
              /\ UNCHANGED silences
           \/ /\ ~Unmoved(q, b)
              /\ Becomes(q, [p EXCEPT !.at = "raced", !.lost = {b}])
              /\ UNCHANGED <<stamps, silences>>
           \/ /\ Hush
              /\ Becomes(q, [p EXCEPT !.todo = @ \ {b}])
              /\ UNCHANGED stamps
        /\ UNCHANGED rollout

\* verify_raced_stamp: only the very stamp that was to be written will do.
SameStamp(q, b) == stamps[b] = proc[q].target

\* A lost race is settled by a fresh read.
SettleRace(q, b) ==
    LET p == proc[q]
        settled == [p EXCEPT !.at = "write", !.todo = @ \ {b}, !.lost = {}]
    IN  /\ p.at = "raced" /\ b \in p.lost
        /\ \/ /\ IF SameStamp(q, b) THEN Becomes(q, settled) ELSE Fails(q)
              /\ UNCHANGED silences
           \/ Hush /\ Becomes(q, settled)
        /\ UNCHANGED <<rollout, stamps>>

\* set_topology_generation
SetGeneration(q) == proc[q].target.generation

Finish(q) ==
    /\ proc[q].at = "write" /\ proc[q].todo = {}
    /\ Becomes(q, [Off EXCEPT !.at = IF q \in Starters THEN "on" ELSE "done",
                              !.gen = SetGeneration(q)])
    /\ UNCHANGED <<rollout, stamps, silences>>

\* verify_topology_index_with, when a bucket comes back under a running node: the
\* same stamp stands, an older one is replaced, anything else fences the node.
\* The read and the conditional write are one step: a write that loses its race
\* is settled by the same comparison a moment later.
Revalidate(q, b) ==
    LET p == proc[q]
        found == stamps[b]
    IN  /\ p.at = "on" /\ b \in Members(q)
        /\ \/ /\ found = NoStamp \/ (found # NoStamp /\ found.generation < p.gen)
              /\ stamps' = [stamps EXCEPT ![b] = Stamp(q, p.gen)]
              /\ UNCHANGED proc
           \/ /\ found # NoStamp
              /\ found.generation > p.gen \/ (found.generation = p.gen /\ found.buckets # List(q))
              /\ Becomes(q, [p EXCEPT !.at = "fenced"])
              /\ UNCHANGED stamps
        /\ UNCHANGED <<rollout, silences>>

\* The process dies, or the node is restarted.
Stop(q) ==
    /\ q \in Starters
    /\ proc[q].at # "off"
    /\ Becomes(q, Off)
    /\ UNCHANGED <<rollout, stamps, silences>>

TopologyNext ==
    \E q \in Processes :
        \/ Begin(q) \/ Verify(q) \/ Migrate(q) \/ Finish(q) \/ Stop(q)
        \/ \E b \in Members(q) :
              ReadStamp(q, b) \/ WriteStamp(q, b) \/ SettleRace(q, b) \/ Revalidate(q, b)

TopologySpec == TopologyInit /\ [][TopologyNext]_topologyVars

-----------------------------------------------------------------------------
(* Properties.                                                             *)

\* Two nodes that run under one generation over a common bucket run under one
\* list, although their stamps were read and written bucket by bucket.
OneList ==
    \A q, r \in Starters :
        /\ proc[q].at = "on" /\ proc[r].at = "on"
        /\ proc[q].gen = proc[r].gen
        /\ Members(q) \cap Members(r) # {}
        => List(q) = List(r)

\* A bucket's generation never falls and its list never changes within one: a
\* stale node never re-stamps what a migration stamped.
StampsRise ==
    [][\A b \in Sites :
          stamps'[b] # stamps[b] /\ stamps[b] # NoStamp =>
              stamps'[b].generation > stamps[b].generation]_topologyVars

(* buckets.rs verify_topology_with: the processes stay well formed, and two nodes that
   run under one generation over a common bucket run under one list. *)
TopologySafe == TopologyTypeOK /\ OneList
=============================================================================
