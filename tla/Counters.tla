---------------------------- MODULE Counters ----------------------------
(***************************************************************************)
(* The download counters (src/src/counters.rs): every node buffers events  *)
(* in memory and flushes them as immutable segments on the bucket it has   *)
(* pinned; the leader freezes each closed day-shard of each bucket into a  *)
(* rollup that names its author, sweeps the segments, writes the bucket's  *)
(* day summary, prunes what is past retention and copies the rollups to    *)
(* every bucket.  A reader prefers a bucket's rollup to its segments.      *)
(*                                                                         *)
(* A count is modelled by the events behind it: a segment holds a set of   *)
(* events, a rollup the number of times it counts each.  One metric; the   *)
(* name an event is attributed to is left out, but for whether it names a  *)
(* stored file and whether it was folded into the overflow name.           *)
(***************************************************************************)
EXTENDS Integers, FiniteSets, FiniteSetsExt

CONSTANTS
    Counting,      \* the nodes, each with its own buffer
    Stores,        \* the buckets; a bucket is its own tag
    Events,        \* the downloads that can happen
    Shards,        \* the shards a key's first character can fall in
    Forged,        \* the events whose key names no stored file
    GraceDays,     \* days a finished day waits before it is frozen
    RetentionDays, \* days a rollup is kept
    MaxDay,        \* bound: the last day of any run
    KeyBudget,     \* keys one flush may check
    Compacting,    \* the nodes that may compact: a pass goes on when its node loses the lease
    Queries,       \* bound: the <<day, shard>> pairs that are queried
    Seasons        \* bounds: the runs considered, each [shard: Events -> Shards,
                   \* last: the last day, mishaps: how many storage operations may fail,
                   \* be lost or be cancelled, late: may a flush come after its day closed,
                   \* crew: the nodes that compact in it]

ASSUME CountersAssumption ==
    /\ IsFiniteSet(Events) /\ Events # {} /\ IsFiniteSet(Stores) /\ Forged \subseteq Events
    /\ "_summary" \notin Shards
    /\ GraceDays \in Nat /\ MaxDay \in Nat /\ KeyBudget \in Nat \ {0}
    /\ RetentionDays \in Nat \ {0}
    /\ \A s \in Seasons : /\ s.shard \in [Events -> Shards] /\ s.last \in 0..MaxDay
                         /\ s.mishaps \in Nat /\ s.late \in BOOLEAN /\ s.crew \subseteq Compacting

VARIABLES
    season,     \* the run under consideration
    today,      \* the UTC day
    dayOf,      \* the day each event happened, or Unborn
    buffer,     \* per node: the pending deltas
    flushing,   \* per node: a flush's Unflushed deltas and how far it is
    folded,     \* events whose name was refused (counted as _overflow)
    verdicts,   \* per node: the names remembered as stored and as absent
    segments,   \* per bucket: the live segments
    rollups,    \* per bucket: rollup key -> how often it counts each event
    passes,     \* per node: the compaction pass it runs
    reader,     \* a query in progress
    landed,     \* ghost: per bucket, how many segments an event was ever written in
    late,       \* ghost: events flushed too late for the freeze of their day-shard
    pruned,     \* ghost: events whose day has left the retention window
    dropped,    \* ghost: events discarded as naming no stored file
    overlapped, \* ghost: has a pass begun while another node's was running?
    mishaps

counterVars == <<season, today, dayOf, buffer, flushing, folded, verdicts, segments, rollups,
                 passes, reader, landed, late, pruned, dropped, overlapped, mishaps>>

Unborn == MaxDay + 1
Summary == "_summary"
Days == 0..MaxDay
RollupKeys == [day : Days, stem : Shards \cup {Summary}, author : Stores]
Absent == [e \in Events |-> -1]
Tallies == [Events -> Nat]
Idle == [at |-> "idle"]

key_of(d, s, b) == [day |-> d, stem |-> s, author |-> b]
Held(b) == {k \in RollupKeys : rollups[b][k] # Absent}
Counted(b, k, e) == IF rollups[b][k] = Absent THEN 0 ELSE rollups[b][k][e]

CountersInit ==
    /\ season \in Seasons
    /\ today = 0
    /\ dayOf = [e \in Events |-> Unborn]
    /\ buffer = [n \in Counting |-> {}]
    /\ flushing = [n \in Counting |-> [at |-> "idle", owed |-> {}, failed |-> {}]]
    /\ folded = {}
    /\ verdicts = [n \in Counting |-> [real |-> {}, fake |-> {}]]
    /\ segments = [b \in Stores |-> {}]
    /\ rollups = [b \in Stores |-> [k \in RollupKeys |-> Absent]]
    /\ passes = [n \in Compacting |-> Idle]
    /\ reader = Idle
    /\ landed = [b \in Stores |-> [e \in Events |-> 0]]
    /\ late = {} /\ pruned = {} /\ dropped = {} /\ overlapped = FALSE
    /\ mishaps = 0

Mishap == mishaps < season.mishaps /\ mishaps' = mishaps + 1
Well == UNCHANGED mishaps

----------------------------------------------------------------------------
(* Recording and flushing, on every node.                                   *)

(* record_n: buffer the event under today's day and its key's shard. *)
Record(n, e) ==
    /\ dayOf[e] = Unborn /\ today < season.last
    /\ dayOf' = [dayOf EXCEPT ![e] = today]
    /\ buffer' = [buffer EXCEPT ![n] = @ \cup {e}]
    /\ UNCHANGED <<season, overlapped, today, flushing, folded, verdicts, segments, rollups, passes,
                   reader, landed, late, pruned, dropped, mishaps>>

(* flush takes the whole buffer; what it has not written goes back when the *)
(* future ends, however it ends.                                            *)
FlushStart(n) ==
    /\ flushing[n].at = "idle" /\ buffer[n] # {}
    /\ flushing' = [flushing EXCEPT ![n] = [at |-> "check", owed |-> buffer[n], failed |-> {}]]
    /\ buffer' = [buffer EXCEPT ![n] = {}]
    /\ UNCHANGED <<season, overlapped, today, dayOf, folded, verdicts, segments, rollups, passes,
                   reader, landed, late, pruned, dropped, mishaps>>

(* What one flush's checks do to its deltas: a name known or found absent   *)
(* is dropped, one past the budget is folded, one whose check could not be  *)
(* made is kept.                                                            *)
Vetted(n, checked, failed) ==
    LET named == flushing[n].owed \ folded
        fake == verdicts[n].fake \cup ((checked \ failed) \cap Forged)
    IN  [real |-> verdicts[n].real \cup (checked \ (failed \cup Forged)), fake |-> fake,
         drop |-> named \cap fake,
         fold |-> named \ (fake \cup checked \cup verdicts[n].real)]

(* drop_unprovable_keys: which unknown names the budget reaches depends on  *)
(* the round-robin cursor; any choice of that many is allowed here.         *)
DropUnprovable(n) ==
    LET unknown == flushing[n].owed \ (folded \cup verdicts[n].real \cup verdicts[n].fake)
        reach == IF Cardinality(unknown) <= KeyBudget THEN Cardinality(unknown) ELSE KeyBudget
    IN  /\ flushing[n].at = "check"
        /\ \E checked \in kSubset(reach, unknown), failed \in SUBSET unknown :
              /\ failed \subseteq checked
              /\ IF failed = {} THEN Well ELSE Mishap
              /\ LET v == Vetted(n, checked, failed)
                 IN  /\ verdicts' = [verdicts EXCEPT ![n] = [real |-> v.real, fake |-> v.fake]]
                     /\ flushing' = [flushing EXCEPT ![n] =
                            [at |-> "put", owed |-> @.owed \ v.drop, failed |-> {}]]
                     /\ folded' = folded \cup v.fold
                     /\ dropped' = dropped \cup v.drop
        /\ UNCHANGED <<season, overlapped, today, dayOf, buffer, segments, rollups, passes, reader,
                       landed, late, pruned>>

(* One day-shard of the taken deltas, its PUT on the pinned bucket, and the *)
(* ways it can end: landed, refused, or landed with the answer lost, in     *)
(* which case the deltas stay owed.                                         *)
Batches(n) == {{e \in flushing[n].owed \ flushing[n].failed : dayOf[e] = d /\ season.shard[e] = s} :
                  d \in Days, s \in Shards} \ {{}}
\* mutant: the deltas are given up before the answer is known
PutForget(n, batch, b, answer) ==
    /\ segments' = IF answer = "refused" THEN segments
                   ELSE [segments EXCEPT ![b] = @ \cup {[events |-> batch, nth |-> landed[b][CHOOSE e \in batch : TRUE]]}]
    /\ flushing' = [flushing EXCEPT ![n].owed = @ \ batch, ![n].failed = @ \cup batch]
PutSegment(n, batch, b, answer) ==
    /\ segments' = IF answer = "refused" THEN segments
                   ELSE [segments EXCEPT ![b] = @ \cup {[events |-> batch, nth |-> landed[b][CHOOSE e \in batch : TRUE]]}]
    /\ flushing' = IF answer = "ok" THEN [flushing EXCEPT ![n].owed = @ \ batch]
                   ELSE [flushing EXCEPT ![n].failed = @ \cup batch]

Closeable(p, d) == d + GraceDays < p.asof   \* closed when the pass began
FrozenBy(b, e) == rollups[b][key_of(dayOf[e], season.shard[e], b)] # Absent
Freezing(b, e) == \E n \in Compacting :     \* a pass froze from a listing without it
    passes[n].at \in {"freeze", "store", "sweep"} /\ passes[n].bucket = b
        /\ Closeable(passes[n], dayOf[e])
FlushPut(n) ==
    /\ flushing[n].at = "put"
    /\ \E batch \in Batches(n), b \in Stores, answer \in {"ok", "refused", "lost"} :
          /\ IF answer = "ok" THEN Well ELSE Mishap
          /\ PutSegment(n, batch, b, answer)
          /\ landed' = IF answer = "refused" THEN landed
                       ELSE [landed EXCEPT ![b] = [e \in Events |->
                                IF e \in batch THEN @[e] + 1 ELSE @[e]]]
          /\ late' = IF answer = "refused" THEN late
                     ELSE late \cup {e \in batch : FrozenBy(b, e) \/ Freezing(b, e)}
    /\ UNCHANGED <<season, overlapped, today, dayOf, buffer, folded, verdicts, rollups, passes,
                   reader, pruned, dropped>>

(* The flush ends: every segment tried once, or the future cancelled by a   *)
(* bucket switch or by shutdown.  Unflushed::drop puts back what is owed.   *)
FlushEnd(n) ==
    /\ flushing[n].at # "idle"
    /\ IF flushing[n].at = "put" /\ Batches(n) = {} THEN Well ELSE Mishap
    /\ buffer' = [buffer EXCEPT ![n] = @ \cup flushing[n].owed]
    /\ flushing' = [flushing EXCEPT ![n] = [at |-> "idle", owed |-> {}, failed |-> {}]]
    /\ UNCHANGED <<season, overlapped, today, dayOf, folded, verdicts, segments, rollups, passes,
                   reader, landed, late, pruned, dropped>>

(* The clock.  Unless stragglers are allowed, every node flushes what a day *)
(* holds before the day closes.                                             *)
Unflushed == UNION {buffer[n] \cup flushing[n].owed : n \in Counting}
NextDay ==
    /\ today < season.last
    /\ season.late \/ \A e \in Unflushed : ~ (dayOf[e] + GraceDays < today + 1)
    /\ today' = today + 1
    /\ pruned' = pruned \cup {e \in Events : dayOf[e] + RetentionDays < today + 1}
    /\ UNCHANGED <<season, overlapped, dayOf, buffer, flushing, folded, verdicts, segments, rollups,
                   passes, reader, landed, late, dropped, mishaps>>

----------------------------------------------------------------------------
(* Compaction, on the leader.                                               *)

SegDay(seg) == dayOf[CHOOSE e \in seg.events : TRUE]
SegShard(seg) == season.shard[CHOOSE e \in seg.events : TRUE]
sum_segments(segs) == [e \in Events |-> Cardinality({seg \in segs : e \in seg.events})]

(* compact: one pass at a time in a process; the cutoffs are those of its   *)
(* first instant.  A bucket the caller's health gate leaves out is not in   *)
(* the pass.  A leader starts one without asking whether the node that led  *)
(* before has ended its own: that runs on a task nobody stops.              *)
CompactStart(n) ==
    /\ n \in season.crew /\ passes[n] = Idle
    /\ overlapped' = (overlapped \/ \E m \in Compacting \ {n} : passes[m] # Idle)
    /\ \E close \in (SUBSET Stores) \ {{}} :
          /\ IF close = Stores THEN Well ELSE Mishap
          /\ passes' = [passes EXCEPT ![n] =
                [at |-> "list", todo |-> close, bucket |-> CHOOSE b \in Stores : TRUE,
                 mesh |-> [b \in {} |-> {}], asof |-> today, listed |-> {}, held |-> {},
                 shards |-> {}, unfinished |-> {}, fresh |-> {}, total |-> Absent]]
    /\ UNCHANGED <<season, today, dayOf, buffer, flushing, folded, verdicts, segments, rollups,
                   reader, landed, late, pruned, dropped>>

Expired(p, d) == d + RetentionDays < p.asof
Own(p, b) == {k \in p.held : k.author = b}

(* compact_bucket, Layout::parse: list the bucket, or skip it whole. *)
CompactList(n) ==
    LET p == passes[n]
    IN  /\ p.at = "list"
        /\ \E b \in p.todo :
              \/ /\ Well
                 /\ passes' = [passes EXCEPT ![n] = [p EXCEPT
                        !.at = "freeze", !.bucket = b, !.todo = @ \ {b},
                        !.listed = segments[b], !.held = Held(b), !.unfinished = {},
                        !.shards = {<<SegDay(seg), SegShard(seg)>> : seg \in segments[b]},
                        !.fresh = {}]]
              \/ /\ Mishap
                 /\ passes' = [passes EXCEPT ![n].todo = @ \ {b}]
        /\ UNCHANGED <<season, overlapped, today, dayOf, buffer, flushing, folded, verdicts,
                       segments, rollups, reader, landed, late, pruned, dropped>>

Listed(p, d, s) == {seg \in p.listed : SegDay(seg) = d /\ SegShard(seg) = s}

(* A day-shard this bucket's own rollup has frozen: its segments are swept, *)
(* never summed.  Another bucket's rollup mirrored here says nothing.       *)
IsFrozen(p, d, s) == key_of(d, s, p.bucket) \in Own(p, p.bucket)

SweepFrozen(n) ==
    LET p == passes[n]
    IN  /\ p.at = "freeze"
        /\ \E x \in p.shards :
              /\ Closeable(p, x[1]) /\ IsFrozen(p, x[1], x[2])
              /\ passes' = [passes EXCEPT ![n].shards = @ \ {x}]
              /\ \/ Well /\ segments' = [segments EXCEPT ![p.bucket] = @ \ Listed(p, x[1], x[2])]
                 \/ Mishap /\ UNCHANGED segments
        /\ UNCHANGED <<season, overlapped, today, dayOf, buffer, flushing, folded, verdicts,
                       rollups, reader, landed, late, pruned, dropped>>

(* Sum one closeable day-shard: a segment that vanished since the listing   *)
(* counts nothing, a failed read leaves the day unfinished.                 *)
SumShard(n) ==
    LET p == passes[n]
    IN  /\ p.at = "freeze"
        /\ \E x \in p.shards :
              /\ Closeable(p, x[1]) /\ ~ IsFrozen(p, x[1], x[2])
              /\ \/ /\ Well
                    /\ passes' = [passes EXCEPT ![n] = [p EXCEPT !.at = "store",
                          !.total = [key |-> x,
                                     of |-> sum_segments(Listed(p, x[1], x[2]) \cap segments[p.bucket])]]]
                 \/ /\ Mishap
                    /\ passes' = [passes EXCEPT ![n] = [p EXCEPT
                          !.shards = @ \ {x}, !.unfinished = @ \cup {x[1]}]]
        /\ UNCHANGED <<season, overlapped, today, dayOf, buffer, flushing, folded, verdicts,
                       segments, rollups, reader, landed, late, pruned, dropped>>

(* The freeze: an unconditional PUT, then the sweep only once it is known to *)
(* have landed.  One whose answer is lost stands, but for this pass the day  *)
(* is unfinished.                                                            *)
FreezeShard(n) ==
    LET p == passes[n]
        d == p.total.key[1]
        s == p.total.key[2]
        k == key_of(d, s, p.bucket)
    IN  /\ p.at = "store"
        /\ \/ /\ Well
              /\ rollups' = [rollups EXCEPT ![p.bucket][k] = p.total.of]
              /\ passes' = [passes EXCEPT ![n] = [p EXCEPT !.at = "sweep",
                                !.held = @ \cup {k}, !.fresh = @ \cup {d}]]
           \/ /\ Mishap
              /\ rollups' \in {rollups, [rollups EXCEPT ![p.bucket][k] = p.total.of]}
              /\ passes' = [passes EXCEPT ![n] = [p EXCEPT !.at = "freeze",
                     !.shards = @ \ {p.total.key}, !.unfinished = @ \cup {d}, !.total = Absent]]
        /\ UNCHANGED <<season, overlapped, today, dayOf, buffer, flushing, folded, verdicts,
                       segments, reader, landed, late, pruned, dropped>>

Swept(p, d, s) == Listed(p, d, s)
SweepShard(n) ==
    LET p == passes[n]
    IN  /\ p.at = "sweep"
        /\ passes' = [passes EXCEPT ![n] = [p EXCEPT !.at = "freeze",
                          !.shards = @ \ {p.total.key}, !.total = Absent]]
        /\ \/ /\ Well
              /\ segments' = [segments EXCEPT ![p.bucket] =
                                 @ \ Swept(p, p.total.key[1], p.total.key[2])]
           \/ Mishap /\ UNCHANGED segments
        /\ UNCHANGED <<season, overlapped, today, dayOf, buffer, flushing, folded, verdicts,
                       rollups, reader, landed, late, pruned, dropped>>

(* The days whose summary this pass writes: those it froze a shard of and   *)
(* the frozen ones that miss theirs, but no day left unfinished.            *)
ToSummarize(p) == (p.fresh \cup {k.day : k \in {k \in Own(p, p.bucket) :
    k.stem # Summary /\ ~ Expired(p, k.day) /\ key_of(k.day, Summary, p.bucket) \notin p.held}})
    \ p.unfinished

(* write_summary: this bucket's own frozen shards, never the mirrored ones. *)
write_summary(b, d) == [e \in Events |-> Counted(b, key_of(d, season.shard[e], b), e)]

Summarize(n) ==
    LET p == passes[n]
    IN  /\ p.at = "freeze" /\ {x \in p.shards : Closeable(p, x[1])} = {}
        /\ \/ /\ Well
              /\ rollups' = [rollups EXCEPT ![p.bucket] = [k \in RollupKeys |->
                    IF k.stem = Summary /\ k.author = p.bucket /\ k.day \in ToSummarize(p)
                    THEN write_summary(p.bucket, k.day) ELSE @[k]]]
              /\ passes' = [passes EXCEPT ![n] = [p EXCEPT !.at = "retain",
                    !.held = @ \cup {key_of(d, Summary, p.bucket) : d \in ToSummarize(p)}]]
           \/ /\ Mishap /\ ToSummarize(p) # {}
              /\ UNCHANGED rollups
              /\ passes' = [passes EXCEPT ![n].at = "retain"]
        /\ UNCHANGED <<season, overlapped, today, dayOf, buffer, flushing, folded, verdicts,
                       segments, reader, landed, late, pruned, dropped>>

(* Retention: what the pass listed and is past the window, of any author.   *)
(* A failed delete may leave any of it behind; the pass counts it as gone.  *)
Retain(n) ==
    LET p == passes[n]
        stale == {k \in p.held : Expired(p, k.day)}
        old == {seg \in p.listed : Expired(p, SegDay(seg))}
    IN  /\ p.at = "retain"
        /\ \E keys \in SUBSET stale, segs \in SUBSET old :
              /\ IF keys = stale /\ segs = old THEN Well ELSE Mishap
              /\ rollups' = [rollups EXCEPT ![p.bucket] = [k \in RollupKeys |->
                                 IF k \in keys THEN Absent ELSE @[k]]]
              /\ segments' = [segments EXCEPT ![p.bucket] = @ \ segs]
        /\ passes' = [passes EXCEPT ![n] = [p EXCEPT
               !.at = IF p.todo = {} THEN "reseed" ELSE "list",
               !.mesh = [b \in DOMAIN @ \cup {p.bucket} |->
                            IF b = p.bucket THEN p.held \ stale ELSE @[b]],
               !.listed = {}, !.held = {}, !.fresh = {}, !.unfinished = {}, !.shards = {}]]
        /\ UNCHANGED <<season, overlapped, today, dayOf, buffer, flushing, folded, verdicts, reader,
                       landed, late, pruned, dropped>>

(* reseed_rollups: the union of what the pass saw, each key copied to the   *)
(* buckets the pass saw without it.                                         *)
Missing(p, b) == {k \in UNION {p.mesh[a] : a \in DOMAIN p.mesh} : ~ Expired(p, k.day)} \ p.mesh[b]
SourceOf(p, k) == CHOOSE a \in DOMAIN p.mesh : k \in p.mesh[a]

Reseed(n) ==
    LET p == passes[n]
    IN  /\ p.at = "reseed"
        /\ \E b \in DOMAIN p.mesh : \E k \in Missing(p, b) :
              LET source == SourceOf(p, k)
              IN  /\ passes' = [passes EXCEPT ![n].mesh[b] = @ \cup {k}]
                  /\ \/ Well /\ rollups' = IF rollups[source][k] = Absent THEN rollups
                                           ELSE [rollups EXCEPT ![b][k] = rollups[source][k]]
                     \/ Mishap /\ UNCHANGED rollups
        /\ UNCHANGED <<season, overlapped, today, dayOf, buffer, flushing, folded, verdicts,
                       segments, reader, landed, late, pruned, dropped>>

(* The pass is over, no bucket could be listed, or the process died in it. *)
CompactEnd(n) ==
    LET p == passes[n]
    IN  /\ p # Idle
        /\ IF \/ p.at = "reseed" /\ (\A b \in DOMAIN p.mesh : Missing(p, b) = {})
              \/ p.at = "list" /\ p.todo = {}
           THEN Well ELSE Mishap
        /\ passes' = [passes EXCEPT ![n] = Idle]
        /\ UNCHANGED <<season, overlapped, today, dayOf, buffer, flushing, folded, verdicts,
                       segments, rollups, reader, landed, late, pruned, dropped>>

----------------------------------------------------------------------------
(* query_package over one day-shard (read_day_shard): every tag's rollup    *)
(* from the pinned bucket, then the segments of the buckets that have none. *)
QueryFrozen ==
    /\ reader = Idle
    /\ \E b \in Stores, x \in Queries :
          /\ reader' = [at |-> "open", day |-> x[1], shard |-> x[2],
                        frozen |-> {a \in Stores : key_of(x[1], x[2], a) \in Held(b)},
                        got |-> [e \in Events |->
                            MapThenSumSet(LAMBDA a : Counted(b, key_of(x[1], x[2], a), e), Stores)]]
    /\ UNCHANGED <<season, overlapped, today, dayOf, buffer, flushing, folded, verdicts, segments,
                   rollups, passes, landed, late, pruned, dropped, mishaps>>
\* mutant: a frozen bucket's leftover segments are summed as well
OpenEverywhere(r) == Stores
OpenStores(r) == Stores \ r.frozen
Answer(r) == [e \in Events |-> r.got[e] + MapThenSumSet(LAMBDA b :
    sum_segments({seg \in segments[b] : SegDay(seg) = r.day /\ SegShard(seg) = r.shard})[e],
    OpenStores(r))]
QueryOpen ==
    /\ reader # Idle
    /\ reader' = Idle
    /\ UNCHANGED <<season, overlapped, today, dayOf, buffer, flushing, folded, verdicts, segments,
                   rollups, passes, landed, late, pruned, dropped, mishaps>>

(* query_summaries for a frozen day: the sum of every tag's summary. *)
query_summaries(b, d) == [e \in Events |->
    MapThenSumSet(LAMBDA a : Counted(b, key_of(d, Summary, a), e), Stores)]

----------------------------------------------------------------------------
CompactStep(n) ==
    \/ CompactList(n) \/ SweepFrozen(n) \/ SumShard(n) \/ FreezeShard(n) \/ SweepShard(n)
    \/ Summarize(n) \/ Retain(n) \/ Reseed(n) \/ CompactEnd(n)
FlushStep(n) == FlushStart(n) \/ DropUnprovable(n) \/ FlushPut(n) \/ FlushEnd(n)

CountersNext ==
    \/ \E n \in Counting :
          \/ \E e \in Events : Record(n, e)
          \/ FlushStart(n) \/ DropUnprovable(n) \/ FlushPut(n) \/ FlushEnd(n)
    \/ \E n \in Compacting :
          \/ CompactStart(n)
          \/ CompactList(n) \/ SweepFrozen(n) \/ SumShard(n) \/ FreezeShard(n)
          \/ SweepShard(n) \/ Summarize(n) \/ Retain(n) \/ Reseed(n) \/ CompactEnd(n)
    \/ NextDay
    \/ QueryFrozen \/ QueryOpen

(* Every node flushes on its interval, a leader compacts on its interval,   *)
(* and days pass; failures are transient (season.mishaps).                      *)
CountersFairness ==
    /\ \A n \in Counting : WF_counterVars(FlushStep(n))
    /\ \A n \in Compacting : WF_counterVars(CompactStep(n)) /\ WF_counterVars(CompactStart(n))
    /\ WF_counterVars(NextDay)
CountersSpec == CountersInit /\ [][CountersNext]_counterVars /\ CountersFairness

----------------------------------------------------------------------------
(* Types: an event is in at most one buffer, and a rollup counts with the   *)
(* number of segments an event can be in.                                   *)
CountersTypeOK ==
    /\ today \in Days /\ mishaps \in 0..season.mishaps
    /\ dayOf \in [Events -> 0..Unborn]
    /\ \A m, n \in Counting : m # n =>
          (buffer[m] \cup flushing[m].owed) \cap (buffer[n] \cup flushing[n].owed) = {}
    /\ \A n \in Counting : flushing[n].failed \subseteq flushing[n].owed
StoresTyped ==
    /\ \A b \in Stores, k \in RollupKeys : rollups[b][k] \in Tallies \cup {Absent}
    /\ \A b \in Stores : \A seg \in segments[b] : seg.events # {}

(* "A frozen file always wins over the segment dir at read time, so a crash *)
(* mid-compaction can neither double-count nor shrink a total": an event    *)
(* that was not flushed late and whose day is kept is counted, in every     *)
(* bucket, exactly once for each segment it ever landed in there, the       *)
(* bucket's rollup standing for its segments as soon as it exists.          *)
CountsExact ==
    \A b \in Stores : \A e \in Events \ (late \cup pruned) :
        landed[b][e] = IF dayOf[e] \in Days /\ FrozenBy(b, e)
                       THEN rollups[b][key_of(dayOf[e], season.shard[e], b)][e]
                       ELSE sum_segments(segments[b])[e]

(* A per-package query that races a freeze, a sweep and a reseed may miss   *)
(* an event, but never counts one more often than it was written.           *)
NoDoubleCount ==
    [][reader # Idle /\ reader' = Idle =>
          \A e \in Events :
             Answer(reader)[e] <= MapThenSumSet(LAMBDA b : landed[b][e], Stores)]_counterVars

(* "Two buckets never hold different bytes for one key": what makes copying *)
(* a rollup only where it is absent sound, for as long as the key is kept:  *)
(* past retention one bucket may freeze anew a shard it has dropped, from   *)
(* what a failed delete left, while another still holds the old copy.  A    *)
(* flush that comes after its day closed has the day's summary rewritten    *)
(* once copies of it are out (OneTruth); the frozen shards agree even then. *)
Agree(k) == \A a, b \in Stores :
    rollups[a][k] = Absent \/ rollups[b][k] = Absent \/ rollups[a][k] = rollups[b][k]
Kept(k) == k.day + RetentionDays >= today
MirrorsAgree ==
    \A k \in RollupKeys : Kept(k) /\ (k.stem # Summary \/ ~ season.late) => Agree(k)

(* What reseed_rollups says of every key, the summaries included.           *)
OneTruth == \A k \in RollupKeys : Agree(k)

(* "Only a landed PUT ever consumes counts", and "a storage blip must never *)
(* silently delete a window of honest downloads": through failed checks,    *)
(* failed PUTs and cancelled flushes, an event stays in memory until a      *)
(* segment holds it, unless its key names no stored file.                   *)
OnlyLandingConsumes ==
    \A e \in Events :
       dayOf[e] = Unborn \/ (\E b \in Stores : landed[b][e] > 0)
       \/ e \in Unflushed \/ e \in dropped \cap Forged

(* counters.rs, "Only a landed PUT ever consumes counts" and "a crash mid-compaction
   can neither double-count nor shrink a total": a download is in memory until a
   segment holds it, and from then on is counted once for each segment it landed in,
   by segments or rollup, with one truth for each frozen key.  The counts hold for as
   long as no node began a pass while another node's was running: a pass reads no
   lease, sums the segments that are still there and freezes with an unconditional
   PUT, so a second one may replace a rollup by what the first one's sweep left. *)
CountersSafe ==
    /\ CountersTypeOK /\ OnlyLandingConsumes
    /\ ~ overlapped => StoresTyped /\ CountsExact /\ MirrorsAgree
=============================================================================
