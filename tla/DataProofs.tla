----------------------------- MODULE DataProofs -----------------------------
(***************************************************************************)
(* The download counters are exact, for every number of nodes, buckets,    *)
(* events, days and failures, until two nodes' compactions overlap.        *)
(* The quarantined set settles on the blocked projects, for every number   *)
(* of nodes, buckets, projects, status writes, sweeps and faults, and what *)
(* a node serves by never goes back to an older set.                       *)
(***************************************************************************)
EXTENDS Counters, Quarantine, FiniteSetTheorems, TLAPS

-----------------------------------------------------------------------------
(* The inductive invariant of the counters: what is in memory.              *)

Holding(n) == buffer[n] \cup flushing[n].owed
Closed(d) == d + GraceDays < today
Current(d) == d + RetentionDays >= today

ClockOK ==
    /\ season \in Seasons /\ today \in 0..season.last /\ mishaps \in 0..season.mishaps
    /\ dayOf \in [Events -> 0..Unborn]
    /\ \A e \in Events : dayOf[e] # Unborn => dayOf[e] <= today
    /\ \A e \in Events : dayOf[e] + RetentionDays < today => e \in pruned
Flights == [at : {"idle", "check", "put"}, owed : SUBSET Events, failed : SUBSET Events]
MemoryOK ==
    /\ buffer \in [Counting -> SUBSET Events] /\ flushing \in [Counting -> Flights]
    /\ \A n \in Counting : flushing[n].failed \subseteq flushing[n].owed
    /\ \A n \in Counting : flushing[n].at = "idle" => flushing[n].owed = {}
    /\ \A n \in Counting : \A e \in Holding(n) : dayOf[e] # Unborn
    /\ \A n \in Counting : \A e \in Holding(n) : season.late \/ ~ Closed(dayOf[e])
    /\ \A m, n \in Counting : m # n => Holding(m) \cap Holding(n) = {}
    /\ \A n \in Counting : verdicts[n].fake \subseteq Forged
    /\ DOMAIN verdicts = Counting
    /\ landed \in [Stores -> [Events -> Nat]]
    /\ OnlyLandingConsumes

-----------------------------------------------------------------------------
(* What the buckets hold.                                                   *)

Segs == [events : SUBSET Events, nth : Nat]
Rep(seg) == CHOOSE e \in seg.events : TRUE
\* A segment holds events of one day and one shard.
SegOK(seg) ==
    /\ seg \in Segs /\ seg.events # {}
    /\ \A e \in seg.events : /\ dayOf[e] = SegDay(seg) /\ season.shard[e] = SegShard(seg)
                             /\ dayOf[e] # Unborn
BucketsOK ==
    /\ segments \in [Stores -> SUBSET Segs] /\ landed \in [Stores -> [Events -> Nat]]
    /\ rollups \in [Stores -> [RollupKeys -> Tallies \cup {Absent}]]
    /\ \A b \in Stores : IsFiniteSet(segments[b])
    /\ \A b \in Stores : \A seg \in segments[b] : SegOK(seg) /\ seg.nth < landed[b][Rep(seg)]
    /\ ~ season.late => late = {}

\* Only closed days are frozen, and a bucket that lost its own rollup dropped it as expired.
Has(b, k) == rollups[b][k] # Absent
Orphan(a, k) == Has(a, k) /\ ~ Has(k.author, k)
KeysOK ==
    /\ \A b \in Stores : \A k \in RollupKeys : Has(b, k) => Closed(k.day)
    /\ \A a \in Stores : \A k \in RollupKeys : Orphan(a, k) => ~ Kept(k)
\* A day is summarized once all its shards are frozen; a failed delete may part them
\* again once the day is past retention.
SummaryFinal ==
    ~ season.late => \A b \in Stores : \A seg \in segments[b] :
        Current(SegDay(seg)) /\ Has(b, key_of(SegDay(seg), Summary, b))
            => Has(b, key_of(SegDay(seg), SegShard(seg), b))

-----------------------------------------------------------------------------
(* What a compaction pass knows.                                            *)

Passing == [at : {"list", "freeze", "store", "sweep", "retain", "reseed"}, todo : SUBSET Stores,
            bucket : Stores, mesh : UNION {[D -> SUBSET RollupKeys] : D \in SUBSET Stores},
            asof : Days, listed : SUBSET Segs, held : SUBSET RollupKeys,
            shards : SUBSET (Days \X Shards), unfinished : SUBSET Days, fresh : SUBSET Days,
            total : [key : Days \X Shards, of : Tallies] \cup {Absent}]
InBucket(p) == p.at \in {"freeze", "store", "sweep", "retain"}
InFreeze(p) == p.at \in {"freeze", "store", "sweep"}
Mine(p, x) == key_of(x[1], x[2], p.bucket)
MySummary(p, d) == key_of(d, Summary, p.bucket)

PassShape(p) ==
    /\ p \in Passing /\ p.asof <= today /\ DOMAIN p.mesh \cap p.todo = {}
    /\ InBucket(p) => p.bucket \notin DOMAIN p.mesh \cup p.todo
\* The keys, seen from the pass's first instant.  What the bucket holds and the pass does
\* not know of is a shard whose freeze stands although its answer was lost.
PassKeys(p) ==
    /\ \A b \in Stores : \A k \in RollupKeys : Has(b, k) => Closeable(p, k.day)
    /\ \A a \in Stores : \A k \in RollupKeys : Orphan(a, k) => Expired(p, k.day)
    /\ InBucket(p) =>
          /\ p.held \subseteq Held(p.bucket)
          /\ \A k \in Held(p.bucket) \ p.held : k.stem # Summary /\ <<k.day, k.stem>> \notin p.shards
\* The listing holds every segment of a day that was closed, but for late flushes.
PassListing(p) ==
    InBucket(p) =>
        /\ \A seg \in p.listed : SegOK(seg)
        /\ \A seg \in segments[p.bucket] : \A e \in seg.events :
              Closeable(p, dayOf[e]) /\ e \notin late /\ (InFreeze(p) \/ ~ season.late) => seg \in p.listed
        /\ \A seg \in p.listed : \/ <<SegDay(seg), SegShard(seg)>> \in p.shards
                                 \/ Mine(p, <<SegDay(seg), SegShard(seg)>>) \in p.held
                                 \/ SegDay(seg) \in p.unfinished \/ p.at = "retain"
PassTotal(p) ==
    /\ p.at = "store" =>
          /\ p.total \in [key : Days \X Shards, of : Tallies] /\ p.total.key \in p.shards
          /\ Closeable(p, p.total.key[1]) /\ Mine(p, p.total.key) \notin p.held
          /\ \A e \in Events \ (late \cup pruned) :
                <<dayOf[e], season.shard[e]>> = p.total.key => p.total.of[e] = landed[p.bucket][e]
    /\ p.at = "sweep" =>
          /\ p.total \in [key : Days \X Shards, of : Tallies]
          /\ Mine(p, p.total.key) \in p.held
\* A day that is summarized has no shard left to freeze, unless a flush was late.
PassFresh(p) ==
    InFreeze(p) =>
        /\ \A d \in p.fresh : Closeable(p, d)
        /\ ~ season.late =>
              /\ \A d \in p.fresh : Current(d) => MySummary(p, d) \notin p.held
              /\ \A x \in p.shards : Current(x[1]) /\ MySummary(p, x[1]) \in p.held
                                        => Mine(p, x) \in p.held
PassInv(p) == PassShape(p) /\ PassKeys(p) /\ PassListing(p) /\ PassTotal(p) /\ PassFresh(p)

\* Passes have not overlapped, so at most one runs.
RunsAlone == \A m, n \in Compacting : passes[m] # Idle /\ passes[n] # Idle => m = n
PassesOK ==
    /\ DOMAIN passes = Compacting /\ RunsAlone
    /\ \A n \in Compacting : \A p \in {passes[n]} : p = Idle \/ PassInv(p)

CountersInv ==
    /\ ClockOK /\ MemoryOK /\ BucketsOK /\ KeysOK /\ SummaryFinal /\ CountsExact /\ MirrorsAgree
    /\ PassesOK

-----------------------------------------------------------------------------
(* Facts about the constants, the keys and the counts.                      *)

LEMMA Constants ==
  /\ GraceDays \in Nat /\ MaxDay \in Nat /\ RetentionDays \in Nat /\ RetentionDays > 0
  /\ Unborn \in Nat /\ Unborn = MaxDay + 1 /\ Days = 0..MaxDay /\ Summary \notin Shards
  /\ \A s \in Seasons : /\ s.shard \in [Events -> Shards] /\ s.last \in 0..MaxDay
                        /\ s.mishaps \in Nat /\ s.late \in BOOLEAN
  BY CountersAssumption DEF Unborn, Days, Summary

LEMMA AbsentTally == Absent \notin Tallies
<1>1. PICK e \in Events : TRUE
  BY CountersAssumption
<1>2. Absent[e] = -1
  BY <1>1 DEF Absent
<1> QED
  BY <1>1, <1>2 DEF Tallies

LEMMA KeyFacts ==
  ASSUME NEW d \in Days, NEW s \in Shards \cup {Summary}, NEW b \in Stores
  PROVE  /\ key_of(d, s, b) \in RollupKeys /\ key_of(d, s, b).day = d
         /\ key_of(d, s, b).stem = s /\ key_of(d, s, b).author = b
  BY DEF key_of, RollupKeys

LEMMA KeyParts ==
  ASSUME NEW k \in RollupKeys
  PROVE  /\ k.day \in Days /\ k.stem \in Shards \cup {Summary} /\ k.author \in Stores
         /\ k = key_of(k.day, k.stem, k.author)
  BY DEF key_of, RollupKeys

LEMMA Counts ==
  ASSUME NEW segs, NEW e \in Events
  PROVE  sum_segments(segs)[e] = Cardinality({seg \in segs : e \in seg.events})
  BY DEF sum_segments

LEMMA CountNat ==
  ASSUME NEW segs, IsFiniteSet(segs), NEW e \in Events
  PROVE  sum_segments(segs)[e] \in Nat
<1>1. IsFiniteSet({seg \in segs : e \in seg.events})
  BY FS_Subset
<1> QED
  BY <1>1, FS_CardinalityType, Counts

LEMMA CountAdd ==
  ASSUME NEW segs, IsFiniteSet(segs), NEW x, x \notin segs, NEW e \in Events
  PROVE  sum_segments(segs \cup {x})[e] =
             IF e \in x.events THEN sum_segments(segs)[e] + 1 ELSE sum_segments(segs)[e]
<1> DEFINE S == {seg \in segs : e \in seg.events}
           T == {seg \in segs \cup {x} : e \in seg.events}
<1>1. IsFiniteSet(S) /\ x \notin S
  BY FS_Subset
<1>2. CASE e \in x.events
  <2>1. T = S \cup {x}
    BY <1>2
  <2>2. Cardinality(S \cup {x}) = Cardinality(S) + 1
    BY <1>1, FS_AddElement
  <2>3. sum_segments(segs)[e] = Cardinality(S)
    BY Counts
  <2>4. sum_segments(segs \cup {x})[e] = Cardinality(T)
    BY Counts
  <2> HIDE DEF S, T
  <2> QED
    BY <1>2, <2>1, <2>2, <2>3, <2>4
<1>3. CASE e \notin x.events
  <2>1. T = S
    BY <1>3
  <2> QED
    BY <1>3, <2>1, Counts
<1> QED
  BY <1>2, <1>3

\* A count depends on the segments that hold the event only.
LEMMA CountSame ==
  ASSUME NEW S, NEW T, NEW e \in Events,
         \A seg \in S : e \in seg.events => seg \in T,
         \A seg \in T : e \in seg.events => seg \in S
  PROVE  sum_segments(S)[e] = sum_segments(T)[e]
<1>1. {seg \in S : e \in seg.events} = {seg \in T : e \in seg.events}
  OBVIOUS
<1> QED
  BY <1>1, Counts

-----------------------------------------------------------------------------
(* The clock and the memory.                                                *)

LEMMA ClockStep ==
  ASSUME ClockOK, CountersNext
  PROVE  ClockOK' /\ season' = season /\ today' >= today /\ today' \in Nat /\ today \in Nat
<1> USE Constants
<1>1. ClockOK
  OBVIOUS
<1>2. /\ season \in Seasons /\ season.last \in 0..MaxDay /\ today \in 0..season.last /\ today \in 0..MaxDay
      /\ mishaps \in 0..season.mishaps /\ season.mishaps \in Nat /\ dayOf \in [Events -> 0..Unborn]
  BY <1>1 DEF ClockOK
<1>3. mishaps' = mishaps \/ Mishap => mishaps' \in 0..season.mishaps
  BY <1>2 DEF Mishap
<1>4. \A e \in Events : dayOf[e] + RetentionDays < today => e \in pruned
  BY <1>1 DEF ClockOK
<1>a. ASSUME UNCHANGED <<season, today, dayOf, pruned>>, mishaps' = mishaps \/ Mishap
      PROVE  ClockOK' /\ season' = season /\ today' >= today /\ today' \in Nat /\ today \in Nat
  BY <1>1, <1>2, <1>3, <1>a DEF ClockOK
<1>5. ASSUME NEW n \in Counting, NEW e \in Events, Record(n, e)
      PROVE  ClockOK' /\ season' = season /\ today' >= today /\ today' \in Nat /\ today \in Nat
  <2>1. /\ season' = season /\ today' = today /\ pruned' = pruned /\ mishaps' = mishaps
        /\ dayOf' = [dayOf EXCEPT ![e] = today]
    BY <1>5 DEF Record
  <2>2. dayOf' \in [Events -> 0..Unborn]
    BY <1>2, <2>1
  <2>3. \A f \in Events : dayOf'[f] # Unborn => dayOf'[f] <= today
    BY <1>1, <1>2, <2>1 DEF ClockOK
  <2>4. \A f \in Events : dayOf'[f] + RetentionDays < today => f \in pruned
    BY <1>2, <1>4, <2>1
  <2> QED
    BY <1>2, <2>1, <2>2, <2>3, <2>4 DEF ClockOK
<1>6. ASSUME NextDay
      PROVE  ClockOK' /\ season' = season /\ today' >= today /\ today' \in Nat /\ today \in Nat
  <2>1. /\ season' = season /\ today' = today + 1 /\ today < season.last /\ mishaps' = mishaps
        /\ dayOf' = dayOf
        /\ pruned' = pruned \cup {e \in Events : dayOf[e] + RetentionDays < today + 1}
    BY <1>6 DEF NextDay
  <2>2. \A f \in Events : dayOf[f] # Unborn => dayOf[f] <= today + 1
    BY <1>1, <1>2 DEF ClockOK
  <2> QED
    BY <1>2, <2>1, <2>2 DEF ClockOK
<1>7. ASSUME NEW n \in Counting, FlushStep(n)
      PROVE  UNCHANGED <<season, today, dayOf, pruned>> /\ (mishaps' = mishaps \/ Mishap)
  BY <1>7 DEF FlushStep, FlushStart, DropUnprovable, FlushPut, FlushEnd, Well
<1>8. ASSUME NEW n \in Compacting, CompactStart(n) \/ CompactStep(n)
      PROVE  UNCHANGED <<season, today, dayOf, pruned>> /\ (mishaps' = mishaps \/ Mishap)
  BY <1>8 DEF CompactStart, CompactStep, CompactList, SweepFrozen, SumShard, FreezeShard, SweepShard,
              Summarize, Retain, Reseed, CompactEnd, Well
<1>9. ASSUME QueryFrozen \/ QueryOpen
      PROVE  UNCHANGED <<season, today, dayOf, pruned>> /\ (mishaps' = mishaps \/ Mishap)
  BY <1>9 DEF QueryFrozen, QueryOpen
<1> QED
  BY <1>a, <1>5, <1>6, <1>7, <1>8, <1>9 DEF CountersNext, FlushStep, CompactStep

LEMMA MemoryStep ==
  ASSUME ClockOK, MemoryOK, CountersNext
  PROVE  MemoryOK'
<1> USE Constants
<1>1. ClockOK /\ MemoryOK /\ ClockOK' /\ season' = season /\ today' >= today /\ today \in Nat /\ today' \in Nat
  BY ClockStep
<1>2. /\ season \in Seasons /\ season.last \in 0..MaxDay /\ today \in 0..MaxDay
      /\ dayOf \in [Events -> 0..Unborn]
  BY <1>1 DEF ClockOK
<1>3. /\ buffer \in [Counting -> SUBSET Events] /\ flushing \in [Counting -> Flights]
      /\ landed \in [Stores -> [Events -> Nat]] /\ DOMAIN verdicts = Counting
  BY <1>1 DEF MemoryOK
<1>4. \A n \in Counting :
          /\ flushing[n].owed \subseteq Events /\ flushing[n].failed \subseteq flushing[n].owed
          /\ flushing[n].at = "idle" => flushing[n].owed = {}
  BY <1>1, <1>3 DEF MemoryOK, Flights
<1>5. \A e \in Events : dayOf[e] = Unborn \/ (\E b \in Stores : landed[b][e] > 0)
         \/ (\E n \in Counting : e \in Holding(n)) \/ e \in dropped \cap Forged
  BY <1>1 DEF MemoryOK, OnlyLandingConsumes, Holding, Unflushed
<1>6. \A n \in Counting : \A e \in Holding(n) : e \in Events /\ dayOf[e] # Unborn /\ (season.late \/ ~ Closed(dayOf[e]))
  BY <1>1, <1>3, <1>4 DEF MemoryOK, Holding
<1>7. \A m, n \in Counting : m # n => Holding(m) \cap Holding(n) = {}
  BY <1>1 DEF MemoryOK
<1>8. \A n \in Counting : verdicts[n].fake \subseteq Forged
  BY <1>1 DEF MemoryOK
<1>a. ASSUME UNCHANGED <<season, today, dayOf, buffer, flushing, verdicts, landed, dropped>>
      PROVE  MemoryOK'
  BY <1>1, <1>a DEF MemoryOK, OnlyLandingConsumes, Holding, Unflushed, Closed
<1>b. ASSUME NEW n \in Counting, NEW e \in Events, Record(n, e)
      PROVE  MemoryOK'
  <2>1. /\ season' = season /\ today' = today /\ flushing' = flushing /\ verdicts' = verdicts
        /\ landed' = landed /\ dropped' = dropped /\ dayOf[e] = Unborn
        /\ dayOf' = [dayOf EXCEPT ![e] = today] /\ buffer' = [buffer EXCEPT ![n] = @ \cup {e}]
    BY <1>b DEF Record
  <2>2. buffer' \in [Counting -> SUBSET Events]
    BY <1>3, <2>1
  <2>3. \A m \in Counting : Holding(m)' = IF m = n THEN Holding(m) \cup {e} ELSE Holding(m)
    BY <1>3, <2>1 DEF Holding
  <2>4. \A m \in Counting : e \notin Holding(m)
    BY <1>6, <2>1
  <2>5. \A f \in Events : dayOf'[f] = IF f = e THEN today ELSE dayOf[f]
    BY <1>2, <2>1
  <2>6. ~ Closed(today)
    BY <1>1 DEF Closed
  <2>7. \A d : Closed(d)' <=> Closed(d)
    BY <2>1 DEF Closed
  <2>8. \A m \in Counting : \A f \in Holding(m)' : dayOf'[f] # Unborn /\ (season.late \/ ~ Closed(dayOf'[f]))
    <3> SUFFICES ASSUME NEW m \in Counting, NEW f \in Holding(m)'
                 PROVE  dayOf'[f] # Unborn /\ (season.late \/ ~ Closed(dayOf'[f]))
      OBVIOUS
    <3>1. CASE f = e
      BY <1>2, <2>5, <2>6, <3>1
    <3>2. CASE f # e
      BY <1>6, <2>3, <2>5, <3>2
    <3> QED
      BY <3>1, <3>2
  <2>9. \A m, k \in Counting : m # k => Holding(m)' \cap Holding(k)' = {}
    BY <1>7, <2>3, <2>4
  <2>10. OnlyLandingConsumes'
    <3>1. \A f \in Events : dayOf'[f] = Unborn \/ (\E b \in Stores : landed[b][f] > 0)
              \/ (\E m \in Counting : f \in Holding(m)') \/ f \in dropped \cap Forged
      BY <1>5, <2>3, <2>5
    <3> QED
      BY <2>1, <3>1 DEF OnlyLandingConsumes, Holding, Unflushed
  <2>11. /\ \A m \in Counting : \A f \in Holding(m)' : dayOf'[f] # Unborn
         /\ \A m \in Counting : \A f \in Holding(m)' : season'.late \/ ~ Closed(dayOf[f])'
    BY <2>1, <2>7, <2>8 DEF Closed
  <2> QED
    BY <1>3, <1>4, <1>8, <2>1, <2>2, <2>9, <2>10, <2>11 DEF MemoryOK
<1>c. ASSUME UNCHANGED <<season, today, dayOf>>, DOMAIN verdicts' = Counting,
             landed' \in [Stores -> [Events -> Nat]],
             buffer' \in [Counting -> SUBSET Events], flushing' \in [Counting -> Flights],
             \A m \in Counting : flushing'[m].failed \subseteq flushing'[m].owed,
             \A m \in Counting : flushing'[m].at = "idle" => flushing'[m].owed = {},
             \A m \in Counting : verdicts'[m].fake \subseteq Forged,
             \A m \in Counting : Holding(m)' \subseteq Holding(m),
             dropped \subseteq dropped',
             \A b \in Stores, e \in Events : landed[b][e] > 0 => landed'[b][e] > 0,
             \A m \in Counting : \A e \in Holding(m) :
                e \in Holding(m)' \/ (\E b \in Stores : landed'[b][e] > 0) \/ e \in dropped' \cap Forged
      PROVE  MemoryOK'
  <2>1. /\ \A m \in Counting : \A f \in Holding(m)' : dayOf'[f] # Unborn
        /\ \A m \in Counting : \A f \in Holding(m)' : season'.late \/ ~ Closed(dayOf[f])'
    BY <1>6, <1>c DEF Closed
  <2>2. \A m, k \in Counting : m # k => Holding(m)' \cap Holding(k)' = {}
    BY <1>7, <1>c
  <2>3. OnlyLandingConsumes'
    <3>1. \A f \in Events : dayOf'[f] = Unborn \/ (\E b \in Stores : landed'[b][f] > 0)
              \/ (\E m \in Counting : f \in Holding(m)') \/ f \in dropped' \cap Forged
      BY <1>5, <1>c
    <3> QED
      BY <3>1 DEF OnlyLandingConsumes, Holding, Unflushed
  <2> QED
    BY <1>c, <2>1, <2>2, <2>3 DEF MemoryOK
<1>d. ASSUME NEW n \in Counting, FlushStart(n)
      PROVE  MemoryOK'
  <2>1. /\ UNCHANGED <<season, today, dayOf, verdicts, landed, dropped>> /\ flushing[n].at = "idle"
        /\ flushing' = [flushing EXCEPT ![n] = [at |-> "check", owed |-> buffer[n], failed |-> {}]]
        /\ buffer' = [buffer EXCEPT ![n] = {}]
    BY <1>d DEF FlushStart
  <2>2. buffer' \in [Counting -> SUBSET Events] /\ flushing' \in [Counting -> Flights]
    BY <1>3, <2>1 DEF Flights
  <2>3. \A m \in Counting : Holding(m)' = Holding(m)
    BY <1>3, <1>4, <2>1 DEF Holding
  <2>4. \A m \in Counting : /\ flushing'[m].failed \subseteq flushing'[m].owed
                            /\ flushing'[m].at = "idle" => flushing'[m].owed = {}
    BY <1>3, <1>4, <2>1
  <2> QED
    BY <1>c, <1>3, <1>8, <2>1, <2>2, <2>3, <2>4
<1>e. ASSUME NEW n \in Counting, DropUnprovable(n)
      PROVE  MemoryOK'
  <2>1. PICK checked, failed :
           /\ verdicts' = [verdicts EXCEPT ![n] = [real |-> Vetted(n, checked, failed).real,
                                                   fake |-> Vetted(n, checked, failed).fake]]
           /\ flushing' = [flushing EXCEPT ![n] =
                 [at |-> "put", owed |-> @.owed \ Vetted(n, checked, failed).drop, failed |-> {}]]
           /\ dropped' = dropped \cup Vetted(n, checked, failed).drop
    BY <1>e DEF DropUnprovable
  <2>2. UNCHANGED <<season, today, dayOf, buffer, landed>>
    BY <1>e DEF DropUnprovable
  <2>3. PICK drop, fake : /\ drop = Vetted(n, checked, failed).drop
                          /\ fake = Vetted(n, checked, failed).fake
    OBVIOUS
  <2>4. fake \subseteq Forged /\ drop \subseteq fake
    BY <1>8, <2>3 DEF Vetted
  <2>5. flushing' = [flushing EXCEPT ![n] = [at |-> "put", owed |-> flushing[n].owed \ drop, failed |-> {}]]
    BY <1>3, <2>1, <2>3
  <2>6. flushing' \in [Counting -> Flights]
    BY <1>3, <1>4, <2>5 DEF Flights
  <2>7. \A m \in Counting : /\ Holding(m)' \subseteq Holding(m)
                            /\ \A e \in Holding(m) : e \in Holding(m)' \/ e \in drop
                            /\ flushing'[m].failed \subseteq flushing'[m].owed
                            /\ flushing'[m].at = "idle" => flushing'[m].owed = {}
    BY <1>3, <1>4, <2>2, <2>5 DEF Holding
  <2>8. DOMAIN verdicts' = Counting /\ \A m \in Counting : verdicts'[m].fake \subseteq Forged
    BY <1>3, <1>8, <2>1, <2>3, <2>4
  <2>9. \A e \in drop : e \in dropped' \cap Forged
    BY <2>1, <2>3, <2>4
  <2> QED
    BY <1>c, <1>3, <2>1, <2>2, <2>6, <2>7, <2>8, <2>9
<1>f. ASSUME NEW n \in Counting, FlushPut(n)
      PROVE  MemoryOK'
  <2>1. PICK batch \in Batches(n), b \in Stores, answer \in {"ok", "refused", "lost"} :
           /\ flushing' = IF answer = "ok" THEN [flushing EXCEPT ![n].owed = @ \ batch]
                          ELSE [flushing EXCEPT ![n].failed = @ \cup batch]
           /\ landed' = IF answer = "refused" THEN landed
                        ELSE [landed EXCEPT ![b] = [e \in Events |->
                                IF e \in batch THEN @[e] + 1 ELSE @[e]]]
    BY <1>f DEF FlushPut, PutSegment
  <2>2. UNCHANGED <<season, today, dayOf, buffer, verdicts, dropped>> /\ flushing[n].at = "put"
    BY <1>f DEF FlushPut
  <2>3. batch \subseteq flushing[n].owed \ flushing[n].failed
    BY <2>1 DEF Batches
  <2>4. flushing' \in [Counting -> Flights]
    <3>1. flushing[n] \in Flights /\ batch \subseteq Events
      BY <1>3, <1>4, <2>3
    <3>2. /\ [flushing[n] EXCEPT !.owed = @ \ batch] \in Flights
          /\ [flushing[n] EXCEPT !.failed = @ \cup batch] \in Flights
      BY <3>1 DEF Flights
    <3> QED
      BY <1>3, <2>1, <3>2
  <2>a. \A m \in Counting : m # n => flushing'[m] = flushing[m]
    BY <1>3, <2>1
  <2>b. /\ flushing'[n].at = "put"
        /\ flushing'[n].owed = IF answer = "ok" THEN flushing[n].owed \ batch ELSE flushing[n].owed
        /\ flushing'[n].failed \subseteq flushing[n].failed \cup batch
        /\ answer = "ok" => flushing'[n].failed = flushing[n].failed
    <3>1. flushing[n] \in Flights
      BY <1>3
    <3>2. CASE answer = "ok"
      BY <1>3, <2>1, <2>2, <3>1, <3>2 DEF Flights
    <3>3. CASE answer # "ok"
      BY <1>3, <2>1, <2>2, <3>1, <3>3 DEF Flights
    <3> QED
      BY <3>2, <3>3
  <2>5. \A m \in Counting : /\ Holding(m)' \subseteq Holding(m)
                            /\ \A e \in Holding(m) : e \in Holding(m)' \/ (e \in batch /\ answer = "ok")
                            /\ flushing'[m].failed \subseteq flushing'[m].owed
                            /\ flushing'[m].at = "idle" => flushing'[m].owed = {}
    <3>1. /\ Holding(n)' \subseteq Holding(n)
          /\ \A e \in Holding(n) : e \in Holding(n)' \/ (e \in batch /\ answer = "ok")
          /\ flushing'[n].failed \subseteq flushing'[n].owed
      BY <1>4, <2>2, <2>3, <2>b DEF Holding
    <3> QED
      BY <1>4, <2>2, <2>a, <2>b, <3>1 DEF Holding
  <2>6. \A c \in Stores, e \in Events : landed[c][e] \in Nat
    BY <1>3
  <2>7. \A c \in Stores, e \in Events : landed[c][e] > 0 => landed'[c][e] > 0
    BY <1>3, <2>1, <2>6
  <2>8. answer = "ok" => \A e \in batch : landed'[b][e] > 0
    BY <1>3, <1>4, <2>1, <2>3, <2>6
  <2>9. landed' \in [Stores -> [Events -> Nat]]
    BY <1>3, <2>1
  <2> QED
    BY <1>c, <1>3, <1>8, <2>2, <2>4, <2>5, <2>7, <2>8, <2>9
<1>g. ASSUME NEW n \in Counting, FlushEnd(n)
      PROVE  MemoryOK'
  <2>1. /\ UNCHANGED <<season, today, dayOf, verdicts, landed, dropped>>
        /\ flushing' = [flushing EXCEPT ![n] = [at |-> "idle", owed |-> {}, failed |-> {}]]
        /\ buffer' = [buffer EXCEPT ![n] = @ \cup flushing[n].owed]
    BY <1>g DEF FlushEnd
  <2>2. buffer' \in [Counting -> SUBSET Events] /\ flushing' \in [Counting -> Flights]
    BY <1>3, <1>4, <2>1 DEF Flights
  <2>3. \A m \in Counting : Holding(m)' = Holding(m)
    BY <1>3, <1>4, <2>1 DEF Holding
  <2>4. \A m \in Counting : /\ flushing'[m].failed \subseteq flushing'[m].owed
                            /\ flushing'[m].at = "idle" => flushing'[m].owed = {}
    BY <1>3, <1>4, <2>1
  <2> QED
    BY <1>c, <1>3, <1>8, <2>1, <2>2, <2>3, <2>4
<1>h. ASSUME NextDay
      PROVE  MemoryOK'
  <2>1. UNCHANGED <<season, dayOf, buffer, flushing, verdicts, landed, dropped>> /\ today' = today + 1
    BY <1>h DEF NextDay
  <2>2. \A n \in Counting : \A e \in Holding(n) : season.late \/ ~ (dayOf[e] + GraceDays < today + 1)
    BY <1>h DEF NextDay, Unflushed, Holding
  <2>3. \A n \in Counting : \A e \in Holding(n)' : season'.late \/ ~ Closed(dayOf[e])'
    BY <2>1, <2>2 DEF Closed, Holding
  <2>4. OnlyLandingConsumes'
    BY <1>1, <2>1 DEF MemoryOK, OnlyLandingConsumes, Unflushed
  <2>5. \A n \in Counting : Holding(n)' = Holding(n)
    BY <2>1 DEF Holding
  <2> QED
    BY <1>3, <1>4, <1>6, <1>7, <1>8, <2>1, <2>3, <2>4, <2>5 DEF MemoryOK
<1>i. ASSUME NEW n \in Compacting, CompactStart(n) \/ CompactStep(n)
      PROVE  UNCHANGED <<season, today, dayOf, buffer, flushing, verdicts, landed, dropped>>
  BY <1>i DEF CompactStart, CompactStep, CompactList, SweepFrozen, SumShard, FreezeShard, SweepShard,
              Summarize, Retain, Reseed, CompactEnd
<1>j. ASSUME QueryFrozen \/ QueryOpen
      PROVE  UNCHANGED <<season, today, dayOf, buffer, flushing, verdicts, landed, dropped>>
  BY <1>j DEF QueryFrozen, QueryOpen
<1> QED
  BY <1>a, <1>b, <1>d, <1>e, <1>f, <1>g, <1>h, <1>i, <1>j DEF CountersNext, CompactStep

-----------------------------------------------------------------------------
(* Steps that leave the buckets and the pass alone.                         *)

LEMMA SegFacts ==
  ASSUME NEW seg, SegOK(seg)
  PROVE  Rep(seg) \in seg.events /\ SegDay(seg) = dayOf[Rep(seg)] /\ SegShard(seg) = season.shard[Rep(seg)]
  BY DEF SegOK, Rep, SegDay, SegShard

Quiet ==
    /\ UNCHANGED <<season, segments, rollups, passes, landed, late>>
    /\ today \in Nat /\ today' \in Nat /\ today' >= today /\ pruned \subseteq pruned'
    /\ \A e \in Events : dayOf[e] # Unborn => dayOf'[e] = dayOf[e]
    /\ \A e \in Events : dayOf[e] = Unborn => dayOf'[e] \in {Unborn, today}

LEMMA QuietSegs ==
  ASSUME CountersInv, Quiet
  PROVE  \A seg : SegOK(seg) => SegOK(seg)' /\ SegDay(seg)' = SegDay(seg) /\ SegShard(seg)' = SegShard(seg)
<1> SUFFICES ASSUME NEW seg, SegOK(seg)
             PROVE  SegOK(seg)' /\ SegDay(seg)' = SegDay(seg) /\ SegShard(seg)' = SegShard(seg)
  OBVIOUS
<1>1. Rep(seg) \in seg.events /\ SegDay(seg) = dayOf[Rep(seg)] /\ SegShard(seg) = season.shard[Rep(seg)]
  BY SegFacts
<1>2. SegDay(seg)' = dayOf'[Rep(seg)] /\ SegShard(seg)' = season'.shard[Rep(seg)]
  BY DEF SegDay, SegShard, Rep
<1>3. seg \in Segs /\ seg.events \subseteq Events
  BY DEF SegOK, Segs
<1>4. \A e \in seg.events : dayOf[e] # Unborn /\ dayOf'[e] = dayOf[e]
  BY <1>3 DEF SegOK, Quiet
<1>5. season' = season
  BY DEF Quiet
<1>6. SegDay(seg)' = SegDay(seg) /\ SegShard(seg)' = SegShard(seg)
  BY <1>1, <1>2, <1>4, <1>5
<1>7. SegOK(seg)'
  BY <1>4, <1>5, <1>6 DEF SegOK
<1> QED
  BY <1>6, <1>7

LEMMA QuietStep ==
  ASSUME CountersInv, Quiet
  PROVE  BucketsOK' /\ KeysOK' /\ SummaryFinal' /\ CountsExact' /\ MirrorsAgree' /\ PassesOK'
<1> USE Constants
<1>1. ClockOK /\ BucketsOK /\ KeysOK /\ SummaryFinal /\ CountsExact /\ MirrorsAgree /\ PassesOK
  BY DEF CountersInv
<1>2. /\ season' = season /\ segments' = segments /\ rollups' = rollups /\ passes' = passes
      /\ landed' = landed /\ late' = late /\ pruned \subseteq pruned'
      /\ today \in Nat /\ today' \in Nat /\ today' >= today
  BY DEF Quiet
<1>3. \A seg : SegOK(seg) => SegOK(seg)' /\ SegDay(seg)' = SegDay(seg) /\ SegShard(seg)' = SegShard(seg)
  BY QuietSegs
<1>4. \A b \in Stores : \A seg \in segments[b] : SegOK(seg)
  BY <1>1 DEF BucketsOK
<1>5. \A b, k : Has(b, k)' <=> Has(b, k)
  BY <1>2 DEF Has
<1>6. \A a, k : Orphan(a, k)' <=> Orphan(a, k)
  BY <1>5 DEF Orphan, Has
<1>7. \A k \in RollupKeys : (Closed(k.day) => Closed(k.day)') /\ (~ Kept(k) => ~ Kept(k)')
  <2> SUFFICES ASSUME NEW k \in RollupKeys
               PROVE  (Closed(k.day) => Closed(k.day)') /\ (~ Kept(k) => ~ Kept(k)')
    OBVIOUS
  <2>1. k.day \in Nat
    BY KeyParts
  <2> QED
    BY <1>2, <2>1 DEF Closed, Kept
<1>a. \A d \in Nat : Current(d)' => Current(d)
  BY <1>2 DEF Current
<1>8. BucketsOK'
  BY <1>1, <1>2, <1>3 DEF BucketsOK
<1>9. KeysOK'
  <2>1. \A b \in Stores : \A k \in RollupKeys : Has(b, k)' => Closed(k.day)'
    BY <1>1, <1>5, <1>7 DEF KeysOK
  <2>2. \A a \in Stores : \A k \in RollupKeys : Orphan(a, k)' => ~ Kept(k)'
    BY <1>1, <1>6, <1>7 DEF KeysOK
  <2> QED
    BY <1>2, <2>1, <2>2 DEF KeysOK
<1>10. SummaryFinal'
  <2> SUFFICES ASSUME ~ season.late, NEW b \in Stores, NEW seg \in segments[b],
                      Current(SegDay(seg))', Has(b, key_of(SegDay(seg)', Summary, b))
               PROVE  Has(b, key_of(SegDay(seg)', SegShard(seg)', b))
    BY <1>2 DEF SummaryFinal, Has
  <2>1. SegDay(seg)' = SegDay(seg) /\ SegShard(seg)' = SegShard(seg) /\ SegOK(seg)
    BY <1>3, <1>4
  <2>2. SegDay(seg) \in Nat
    BY <1>1, <2>1, SegFacts DEF ClockOK, SegOK, Segs
  <2>3. Current(SegDay(seg))
    BY <1>2, <2>1, <2>2 DEF Current
  <2> QED
    BY <1>1, <2>1, <2>3 DEF SummaryFinal
<1>11. MirrorsAgree'
  BY <1>1, <1>2, <1>7 DEF MirrorsAgree, Agree
<1>12. CountsExact'
  <2> SUFFICES ASSUME NEW b \in Stores, NEW e \in Events \ (late \cup pruned')
               PROVE  landed[b][e] = IF dayOf'[e] \in Days /\ Has(b, key_of(dayOf'[e], season.shard[e], b))
                                     THEN rollups[b][key_of(dayOf'[e], season.shard[e], b)][e]
                                     ELSE sum_segments(segments[b])[e]
    BY <1>2 DEF CountsExact, FrozenBy, Has, sum_segments
  <2>1. landed[b][e] = IF dayOf[e] \in Days /\ Has(b, key_of(dayOf[e], season.shard[e], b))
                       THEN rollups[b][key_of(dayOf[e], season.shard[e], b)][e]
                       ELSE sum_segments(segments[b])[e]
    BY <1>1, <1>2 DEF CountsExact, FrozenBy, Has
  <2>2. CASE dayOf'[e] = dayOf[e]
    BY <2>1, <2>2
  <2>3. CASE dayOf[e] = Unborn /\ dayOf'[e] = today
    <3>1. today \in Days /\ season.shard[e] \in Shards
      BY <1>1 DEF ClockOK
    <3>2. key_of(today, season.shard[e], b) \in RollupKeys /\ key_of(today, season.shard[e], b).day = today
      BY <3>1, KeyFacts
    <3>3. ~ Has(b, key_of(today, season.shard[e], b))
      BY <1>1, <1>2, <3>2 DEF KeysOK, Closed
    <3> QED
      BY <2>1, <2>3, <3>3
  <2> QED
    BY <2>2, <2>3 DEF Quiet
<1>13. PassesOK'
  <2> SUFFICES ASSUME NEW n \in Compacting, NEW p, p = passes[n], p # Idle
               PROVE  PassInv(p)'
    BY <1>1, <1>2 DEF PassesOK, RunsAlone
  <2>1. PassInv(p)
    BY <1>1 DEF PassesOK
  <2>2. PassShape(p)'
    BY <1>2, <2>1 DEF PassInv, PassShape, Passing, InBucket, Days
  <2>3. PassKeys(p)'
    BY <1>2, <1>5, <1>6, <2>1 DEF PassInv, PassKeys, Held, Closeable, Expired
  <2>4. p \in Passing /\ p.asof \in Nat /\ p.asof <= today
    BY <2>1 DEF PassInv, PassShape, Passing
  <2>5. PassListing(p)'
    <3> SUFFICES ASSUME InBucket(p)
                 PROVE  PassListing(p)'
      BY DEF PassListing
    <3>1. p.bucket \in Stores
      BY <2>4 DEF Passing
    <3>2. \A seg \in p.listed : SegOK(seg)
      BY <2>1 DEF PassInv, PassListing
    <3>3. \A seg \in segments[p.bucket] : \A e \in seg.events : dayOf'[e] = dayOf[e]
      BY <1>4, <3>1 DEF SegOK, Segs, Quiet
    <3>4. \A seg \in segments[p.bucket] : \A e \in seg.events :
              Closeable(p, dayOf'[e]) /\ e \notin late /\ (InFreeze(p) \/ ~ season.late) => seg \in p.listed
      BY <2>1, <3>3 DEF PassInv, PassListing
    <3>5. \A seg \in p.listed : \/ <<SegDay(seg)', SegShard(seg)'>> \in p.shards
                                 \/ Mine(p, <<SegDay(seg)', SegShard(seg)'>>) \in p.held
                                 \/ SegDay(seg)' \in p.unfinished \/ p.at = "retain"
      BY <1>3, <2>1, <3>2 DEF PassInv, PassListing
    <3> QED
      BY <1>2, <1>3, <3>2, <3>4, <3>5 DEF PassListing, Closeable, InFreeze, Mine
  <2>6. PassTotal(p)'
    <3>1. CASE p.at = "store"
      <4>1. /\ p.total \in [key : Days \X Shards, of : Tallies] /\ p.total.key \in p.shards
            /\ Closeable(p, p.total.key[1]) /\ Mine(p, p.total.key) \notin p.held
        BY <2>1, <3>1 DEF PassInv, PassTotal
      <4>2. \A e \in Events \ (late \cup pruned) :
                <<dayOf[e], season.shard[e]>> = p.total.key => p.total.of[e] = landed[p.bucket][e]
        BY <2>1, <3>1 DEF PassInv, PassTotal
      <4>3. p.total.key[1] # today
        BY <1>2, <2>4, <4>1 DEF Closeable
      <4>4. p.total.key[1] # Unborn
        BY <4>1
      <4>5. \A e \in Events \ (late \cup pruned') :
                <<dayOf'[e], season.shard[e]>> = p.total.key => p.total.of[e] = landed[p.bucket][e]
        BY <1>2, <4>2, <4>3, <4>4 DEF Quiet
      <4> QED
        BY <1>2, <3>1, <4>1, <4>5 DEF PassTotal, Closeable, Mine
    <3>2. CASE p.at # "store"
      BY <2>1, <3>2 DEF PassInv, PassTotal, Mine
    <3> QED
      BY <3>1, <3>2
  <2>7. PassFresh(p)'
    <3>1. p.fresh \subseteq Nat /\ \A x \in p.shards : x[1] \in Nat
      BY <2>4 DEF Passing
    <3> QED
      BY <1>2, <1>a, <2>1, <3>1 DEF PassInv, PassFresh, InFreeze, Closeable, MySummary, Mine
  <2> QED
    BY <2>2, <2>3, <2>5, <2>6, <2>7 DEF PassInv
<1> QED
  BY <1>8, <1>9, <1>10, <1>11, <1>12, <1>13

-----------------------------------------------------------------------------
(* A segment is written.                                                    *)

LEMMA PutStep ==
  ASSUME CountersInv, NEW n \in Counting, FlushPut(n)
  PROVE  BucketsOK' /\ KeysOK' /\ SummaryFinal' /\ CountsExact' /\ MirrorsAgree' /\ PassesOK'
<1> USE Constants
<1>1. /\ ClockOK /\ MemoryOK /\ BucketsOK /\ KeysOK /\ SummaryFinal /\ CountsExact /\ MirrorsAgree
      /\ PassesOK
  BY DEF CountersInv
<1>2. UNCHANGED <<season, today, dayOf, rollups, passes, pruned>>
  BY DEF FlushPut
<1>3. PICK batch \in Batches(n), b \in Stores, answer \in {"ok", "refused", "lost"} :
         /\ PutSegment(n, batch, b, answer)
         /\ landed' = IF answer = "refused" THEN landed
                      ELSE [landed EXCEPT ![b] = [e \in Events |->
                              IF e \in batch THEN @[e] + 1 ELSE @[e]]]
         /\ late' = IF answer = "refused" THEN late
                    ELSE late \cup {e \in batch : FrozenBy(b, e) \/ Freezing(b, e)}
  BY DEF FlushPut
<1>4. today \in Nat /\ season \in Seasons /\ dayOf \in [Events -> 0..Unborn]
  BY <1>1 DEF ClockOK
<1>5. CASE answer = "refused"
  <2>1. segments' = segments /\ landed' = landed /\ late' = late
    BY <1>3, <1>5 DEF PutSegment
  <2>2. Quiet
    BY <1>2, <1>4, <2>1 DEF Quiet
  <2> QED
    BY <2>2, QuietStep
<1>6. CASE answer # "refused"
  <2>1. PICK x : x = [events |-> batch, nth |-> landed[b][CHOOSE e \in batch : TRUE]]
    OBVIOUS
  <2>2. /\ segments' = [segments EXCEPT ![b] = @ \cup {x}]
        /\ landed' = [landed EXCEPT ![b] = [e \in Events |-> IF e \in batch THEN @[e] + 1 ELSE @[e]]]
        /\ late' = late \cup {e \in batch : FrozenBy(b, e) \/ Freezing(b, e)}
    BY <1>3, <1>6, <2>1 DEF PutSegment
  <2>3. PICK d \in Days, s \in Shards :
           batch = {e \in flushing[n].owed \ flushing[n].failed : dayOf[e] = d /\ season.shard[e] = s}
    BY <1>3 DEF Batches
  <2>4. batch # {} /\ batch \subseteq Holding(n) /\ batch \subseteq Events
    BY <1>1, <1>3, <2>3 DEF Batches, Holding, MemoryOK, Flights
  <2>5. \A e \in batch : dayOf[e] = d /\ season.shard[e] = s
    BY <2>3
  <2>6. /\ segments \in [Stores -> SUBSET Segs] /\ landed \in [Stores -> [Events -> Nat]]
        /\ rollups \in [Stores -> [RollupKeys -> Tallies \cup {Absent}]]
    BY <1>1 DEF BucketsOK
  <2>7. x.events = batch /\ x.nth = landed[b][Rep(x)] /\ Rep(x) \in batch /\ x \in Segs
    <3>1. (CHOOSE e \in batch : TRUE) \in batch
      BY <2>4
    <3>2. landed[b][CHOOSE e \in batch : TRUE] \in Nat
      BY <2>4, <2>6, <3>1
    <3>3. x.events = batch /\ x.nth = landed[b][CHOOSE e \in batch : TRUE]
      BY <2>1
    <3>4. Rep(x) = CHOOSE e \in batch : TRUE
      BY <3>3 DEF Rep
    <3>5. x \in Segs
      BY <2>1, <2>4, <3>2 DEF Segs
    <3> QED
      BY <3>1, <3>3, <3>4, <3>5
  <2>8. SegDay(x) = d /\ SegShard(x) = s
    BY <2>5, <2>7 DEF SegDay, SegShard, Rep
  <2>9. SegOK(x)
    BY <2>4, <2>5, <2>7, <2>8 DEF SegOK
  <2>10. x \notin segments[b]
    BY <1>1, <2>6, <2>7, <2>4 DEF BucketsOK
  <2>11. ~ season.late => ~ Closed(d)
    BY <1>1, <2>4, <2>5 DEF MemoryOK
  <2>12. \A c \in Stores : segments'[c] = IF c = b THEN segments[b] \cup {x} ELSE segments[c]
    BY <2>2, <2>6
  <2>13. \A c \in Stores : \A e \in Events :
            landed'[c][e] = IF c = b /\ e \in batch THEN landed[c][e] + 1 ELSE landed[c][e]
    BY <2>2, <2>6
  <2>14. \A seg : /\ SegOK(seg)' <=> SegOK(seg)
                  /\ SegDay(seg)' = SegDay(seg) /\ SegShard(seg)' = SegShard(seg)
    BY <1>2 DEF SegOK, SegDay, SegShard
  <2>15. \A a, k : (Has(a, k)' <=> Has(a, k)) /\ (Orphan(a, k)' <=> Orphan(a, k))
    BY <1>2 DEF Has, Orphan
  <2>16. \A a \in Stores : \A k \in RollupKeys : Has(a, k) => Closed(k.day)
    BY <1>1 DEF KeysOK
  <2>17. \A m \in Compacting : \A p \in {passes[m]} :
            p # Idle /\ Closeable(p, d) => Closed(d)
    <3> SUFFICES ASSUME NEW m \in Compacting, NEW p, p = passes[m], p # Idle, Closeable(p, d)
                 PROVE  Closed(d)
      OBVIOUS
    <3>1. p.asof \in Nat /\ p.asof <= today
      BY <1>1 DEF PassesOK, PassInv, PassShape, Passing
    <3> QED
      BY <1>4, <3>1 DEF Closeable, Closed
  <2>18. \A e \in batch : ~ season.late => ~ FrozenBy(b, e) /\ ~ Freezing(b, e)
    <3> SUFFICES ASSUME NEW e \in batch, ~ season.late
                 PROVE  ~ FrozenBy(b, e) /\ ~ Freezing(b, e)
      OBVIOUS
    <3>1. ~ FrozenBy(b, e)
      <4>1. key_of(d, s, b) \in RollupKeys /\ key_of(d, s, b).day = d
        BY KeyFacts
      <4>2. ~ Has(b, key_of(d, s, b))
        BY <2>11, <2>16, <4>1
      <4> QED
        BY <2>5, <4>2 DEF FrozenBy, Has
    <3>2. ~ Freezing(b, e)
      BY <2>5, <2>11, <2>17 DEF Freezing, Idle
    <3> QED
      BY <3>1, <3>2
  <2>19. BucketsOK'
    <3>1. segments' \in [Stores -> SUBSET Segs]
      BY <2>2, <2>6, <2>7
    <3>2. landed' \in [Stores -> [Events -> Nat]]
      BY <2>2, <2>6
    <3>3. \A c \in Stores : IsFiniteSet(segments'[c])
      <4>1. IsFiniteSet(segments[b] \cup {x})
        BY <1>1, FS_AddElement DEF BucketsOK
      <4> QED
        BY <1>1, <2>12, <4>1 DEF BucketsOK
    <3>4. \A c \in Stores : \A seg \in segments'[c] : SegOK(seg)' /\ seg.nth < landed'[c][Rep(seg)]
      <4> SUFFICES ASSUME NEW c \in Stores, NEW seg \in segments'[c]
                   PROVE  SegOK(seg)' /\ seg.nth < landed'[c][Rep(seg)]
        OBVIOUS
      <4>1. CASE seg \in segments[c]
        <5>1. SegOK(seg) /\ seg.nth < landed[c][Rep(seg)] /\ seg.nth \in Nat /\ Rep(seg) \in Events
          BY <1>1, <4>1, SegFacts DEF BucketsOK, SegOK, Segs
        <5>2. landed[c][Rep(seg)] \in Nat
          BY <2>6, <5>1
        <5> QED
          BY <2>13, <2>14, <5>1, <5>2
      <4>2. CASE c = b /\ seg = x
        <5>1. landed[b][Rep(x)] \in Nat /\ Rep(x) \in Events
          BY <2>4, <2>6, <2>7
        <5> QED
          BY <2>7, <2>9, <2>13, <2>14, <4>2, <5>1
      <4> QED
        BY <2>12, <4>1, <4>2
    <3>5. ~ season.late => late' = {}
      BY <1>1, <2>2, <2>18 DEF BucketsOK
    <3> QED
      BY <1>2, <2>6, <3>1, <3>2, <3>3, <3>4, <3>5 DEF BucketsOK
  <2>20. KeysOK'
    BY <1>1, <1>2, <2>15 DEF KeysOK, Closed, Kept
  <2>21. SummaryFinal'
    <3> SUFFICES ASSUME ~ season.late, NEW c \in Stores, NEW seg \in segments'[c],
                        Current(SegDay(seg)), Has(c, key_of(SegDay(seg), Summary, c))
                 PROVE  Has(c, key_of(SegDay(seg), SegShard(seg), c))
      BY <1>2, <2>14, <2>15 DEF SummaryFinal, Current
    <3>1. CASE seg \in segments[c]
      BY <1>1, <3>1 DEF SummaryFinal
    <3>2. CASE seg = x
      BY <2>8, <2>11, <2>16, <3>2, KeyFacts
    <3> QED
      BY <2>12, <3>1, <3>2
  <2>22. MirrorsAgree'
    BY <1>1, <1>2 DEF MirrorsAgree, Agree, Kept
  <2>23. CountsExact'
    <3> SUFFICES ASSUME NEW c \in Stores, NEW e \in Events \ (late' \cup pruned)
                 PROVE  landed'[c][e] = IF dayOf[e] \in Days /\ FrozenBy(c, e)
                                        THEN rollups[c][key_of(dayOf[e], season.shard[e], c)][e]
                                        ELSE sum_segments(segments'[c])[e]
      BY <1>2 DEF CountsExact, FrozenBy, sum_segments
    <3>1. landed[c][e] = IF dayOf[e] \in Days /\ FrozenBy(c, e)
                         THEN rollups[c][key_of(dayOf[e], season.shard[e], c)][e]
                         ELSE sum_segments(segments[c])[e]
      BY <1>1, <2>2 DEF CountsExact
    <3>2. CASE c # b
      BY <2>12, <2>13, <3>1, <3>2
    <3>3. CASE c = b
      <4>1. sum_segments(segments'[b])[e] =
               IF e \in batch THEN sum_segments(segments[b])[e] + 1 ELSE sum_segments(segments[b])[e]
        <5>1. IsFiniteSet(segments[b]) /\ segments'[b] = segments[b] \cup {x} /\ e \in Events
          BY <1>1, <2>12 DEF BucketsOK
        <5> QED
          BY <2>7, <2>10, <5>1, CountAdd
      <4>2. e \in batch => ~ FrozenBy(b, e)
        BY <2>2
      <4> QED
        BY <2>13, <3>1, <3>3, <4>1, <4>2
    <3> QED
      BY <3>2, <3>3
  <2>24. PassesOK'
    <3> SUFFICES ASSUME NEW m \in Compacting, NEW p, p = passes[m], p # Idle
                 PROVE  PassInv(p)'
      BY <1>1, <1>2 DEF PassesOK, RunsAlone
    <3>1. PassInv(p)
      BY <1>1 DEF PassesOK
    <3>2. PassShape(p)'
      BY <1>2, <3>1 DEF PassInv, PassShape
    <3>3. PassKeys(p)'
      BY <1>2, <2>15, <3>1 DEF PassInv, PassKeys, Held
    <3>4. PassFresh(p)'
      BY <1>2, <3>1 DEF PassInv, PassFresh, Current
    <3>5. p \in Passing /\ p.bucket \in Stores
      BY <3>1 DEF PassInv, PassShape, Passing
    <3>6. ASSUME InFreeze(p), p.bucket = b, NEW e \in batch, Closeable(p, dayOf[e])
          PROVE  e \in late'
      BY <2>2, <3>6 DEF Freezing, InFreeze
    <3>7. PassListing(p)'
      <4> SUFFICES ASSUME InBucket(p)
                   PROVE  PassListing(p)'
        BY DEF PassListing
      <4>1. \A seg \in segments'[p.bucket] : \A e \in seg.events :
              Closeable(p, dayOf[e]) /\ e \notin late' /\ (InFreeze(p) \/ ~ season.late) => seg \in p.listed
        <5> SUFFICES ASSUME NEW seg \in segments'[p.bucket], NEW e \in seg.events, e \notin late',
                            Closeable(p, dayOf[e]), InFreeze(p) \/ ~ season.late
                     PROVE  seg \in p.listed
          OBVIOUS
        <5>1. CASE seg \in segments[p.bucket]
          BY <2>2, <3>1, <5>1 DEF PassInv, PassListing
        <5>2. CASE p.bucket = b /\ seg = x
          <6>1. e \in batch /\ dayOf[e] = d
            BY <2>5, <2>7, <5>2
          <6>2. ~ InFreeze(p)
            BY <3>6, <5>2, <6>1
          <6>3. Closed(d)
            BY <2>17, <6>1
          <6> QED
            BY <2>11, <6>2, <6>3
        <5> QED
          BY <2>12, <3>5, <5>1, <5>2
      <4>2. \A seg \in p.listed : SegOK(seg)
        BY <3>1 DEF PassInv, PassListing
      <4>3. \A seg \in p.listed : \/ <<SegDay(seg), SegShard(seg)>> \in p.shards
                                 \/ Mine(p, <<SegDay(seg), SegShard(seg)>>) \in p.held
                                 \/ SegDay(seg) \in p.unfinished \/ p.at = "retain"
        BY <3>1 DEF PassInv, PassListing
      <4> QED
        BY <1>2, <2>14, <4>1, <4>2, <4>3 DEF PassListing, Mine
    <3>8. PassTotal(p)'
      <4>1. CASE p.at = "store"
        <5>1. \A e \in Events \ (late' \cup pruned) :
                <<dayOf[e], season.shard[e]>> = p.total.key => p.total.of[e] = landed'[p.bucket][e]
          <6> SUFFICES ASSUME NEW e \in Events \ (late' \cup pruned),
                              <<dayOf[e], season.shard[e]>> = p.total.key
                       PROVE  p.total.of[e] = landed'[p.bucket][e]
            OBVIOUS
          <6>1. p.total.of[e] = landed[p.bucket][e] /\ Closeable(p, dayOf[e])
            BY <2>2, <3>1, <4>1 DEF PassInv, PassTotal
          <6>2. ~ (p.bucket = b /\ e \in batch)
            BY <3>6, <4>1, <6>1 DEF InFreeze
          <6> QED
            BY <2>13, <3>5, <6>1, <6>2
        <5> QED
          BY <1>2, <3>1, <4>1, <5>1 DEF PassInv, PassTotal
      <4>2. CASE p.at # "store"
        BY <3>1, <4>2 DEF PassInv, PassTotal
      <4> QED
        BY <4>1, <4>2
    <3> QED
      BY <3>2, <3>3, <3>4, <3>7, <3>8 DEF PassInv
  <2> QED
    BY <2>19, <2>20, <2>21, <2>22, <2>23, <2>24
<1> QED
  BY <1>5, <1>6

-----------------------------------------------------------------------------
(* The pass: what all its steps leave alone, and the steps that only move   *)
(* the pass itself.                                                         *)

\* After a step of node n's pass, no other node has one.
Alone(n) == \A m \in Compacting \ {n} : passes'[m] = Idle

Frame == UNCHANGED <<season, today, dayOf, landed, late, pruned>>

LEMMA FrameSegs ==
  ASSUME Frame
  PROVE  \A seg : /\ SegOK(seg)' <=> SegOK(seg)
                  /\ SegDay(seg)' = SegDay(seg) /\ SegShard(seg)' = SegShard(seg)
  BY DEF Frame, SegOK, SegDay, SegShard

LEMMA PassFrame ==
  ASSUME Frame, UNCHANGED <<segments, rollups>>, NEW q, PassInv(q)
  PROVE  PassInv(q)'
<1>1. \A a, k : (Has(a, k)' <=> Has(a, k)) /\ (Orphan(a, k)' <=> Orphan(a, k))
  BY DEF Has, Orphan
<1>2. PassShape(q)'
  BY DEF Frame, PassInv, PassShape
<1>3. PassKeys(q)'
  BY <1>1 DEF Frame, PassInv, PassKeys, Held
<1>4. PassListing(q)'
  <2> SUFFICES ASSUME InBucket(q)
               PROVE  PassListing(q)'
    BY DEF PassListing
  <2>1. /\ \A seg \in q.listed : SegOK(seg)
        /\ \A seg \in segments[q.bucket] : \A e \in seg.events :
              Closeable(q, dayOf[e]) /\ e \notin late /\ (InFreeze(q) \/ ~ season.late) => seg \in q.listed
        /\ \A seg \in q.listed : \/ <<SegDay(seg), SegShard(seg)>> \in q.shards
                                 \/ Mine(q, <<SegDay(seg), SegShard(seg)>>) \in q.held
                                 \/ SegDay(seg) \in q.unfinished \/ q.at = "retain"
    BY DEF PassInv, PassListing
  <2> QED
    BY <2>1, FrameSegs DEF Frame, PassListing, Mine
<1>5. PassTotal(q)'
  BY DEF Frame, PassInv, PassTotal
<1>6. PassFresh(q)'
  BY <1>1 DEF Frame, PassInv, PassFresh, Current
<1> QED
  BY <1>2, <1>3, <1>4, <1>5, <1>6 DEF PassInv

LEMMA StillFrame ==
  ASSUME CountersInv, Frame, UNCHANGED <<segments, rollups>>
  PROVE  BucketsOK' /\ KeysOK' /\ SummaryFinal' /\ CountsExact' /\ MirrorsAgree'
<1>1. BucketsOK /\ KeysOK /\ SummaryFinal /\ CountsExact /\ MirrorsAgree
  BY DEF CountersInv
<1>2. \A a, k : (Has(a, k)' <=> Has(a, k)) /\ (Orphan(a, k)' <=> Orphan(a, k))
  BY DEF Has, Orphan
<1>3. BucketsOK'
  BY <1>1, FrameSegs DEF BucketsOK, Frame
<1>4. KeysOK'
  BY <1>1, <1>2 DEF KeysOK, Frame, Closed, Kept
<1>5. SummaryFinal'
  BY <1>1, <1>2, FrameSegs DEF SummaryFinal, Frame, Current
<1>6. CountsExact'
  BY <1>1 DEF CountsExact, Frame, FrozenBy, sum_segments
<1>7. MirrorsAgree'
  BY <1>1 DEF MirrorsAgree, Frame, Agree, Kept
<1> QED
  BY <1>3, <1>4, <1>5, <1>6, <1>7

LEMMA OnePass ==
  ASSUME NEW n \in Compacting, Alone(n), DOMAIN passes' = Compacting, NEW q, passes'[n] = q,
         q = Idle \/ PassInv(q)'
  PROVE  PassesOK'
<1>1. RunsAlone'
  BY DEF RunsAlone, Alone
<1>2. ASSUME NEW m \in Compacting, NEW p, p = passes'[m]
      PROVE  p = Idle \/ PassInv(p)'
  BY <1>2 DEF Alone
<1> QED
  BY <1>1, <1>2 DEF PassesOK

LEMMA CompactFrame ==
  ASSUME NEW n \in Compacting, CompactStart(n) \/ CompactStep(n)
  PROVE  Frame
  BY DEF Frame, CompactStart, CompactStep, CompactList, SweepFrozen, SumShard, FreezeShard, SweepShard,
         Summarize, Retain, Reseed, CompactEnd

LEMMA StartStep ==
  ASSUME CountersInv, NEW n \in Compacting, CompactStart(n), Alone(n)
  PROVE  BucketsOK' /\ KeysOK' /\ SummaryFinal' /\ CountsExact' /\ MirrorsAgree' /\ PassesOK'
<1> USE Constants
<1>1. ClockOK /\ KeysOK /\ PassesOK
  BY DEF CountersInv
<1>2. Frame /\ UNCHANGED <<segments, rollups>>
  BY CompactFrame DEF CompactStart
<1>3. PICK close \in (SUBSET Stores) \ {{}} :
         passes' = [passes EXCEPT ![n] =
                [at |-> "list", todo |-> close, bucket |-> CHOOSE b \in Stores : TRUE,
                 mesh |-> [b \in {} |-> {}], asof |-> today, listed |-> {}, held |-> {},
                 shards |-> {}, unfinished |-> {}, fresh |-> {}, total |-> Absent]]
  BY DEF CompactStart
<1>4. PICK q : q = [at |-> "list", todo |-> close, bucket |-> CHOOSE b \in Stores : TRUE,
                    mesh |-> [b \in {} |-> {}], asof |-> today, listed |-> {}, held |-> {},
                    shards |-> {}, unfinished |-> {}, fresh |-> {}, total |-> Absent]
  OBVIOUS
<1>5. DOMAIN passes' = Compacting /\ passes'[n] = q
  BY <1>1, <1>3, <1>4 DEF PassesOK
<1>6. q.at = "list" /\ q.asof = today /\ DOMAIN q.mesh = {} /\ q.todo = close /\ today \in Days /\ today \in Nat
  BY <1>1, <1>4 DEF ClockOK
<1>7. q \in Passing
  <2>1. (CHOOSE b \in Stores : TRUE) \in Stores
    <3>1. \E b \in Stores : TRUE
      BY <1>3
    <3> QED
      BY <3>1
  <2>2. [b \in {} |-> {}] \in [{} -> SUBSET RollupKeys]
    OBVIOUS
  <2>3. [b \in {} |-> {}] \in UNION {[D -> SUBSET RollupKeys] : D \in SUBSET Stores}
    BY <2>2
  <2> QED
    BY <1>3, <1>4, <1>6, <2>1, <2>3 DEF Passing
<1>8. PassShape(q)
  BY <1>6, <1>7 DEF PassShape, InBucket
<1>9. PassKeys(q)
  <2>1. \A k \in RollupKeys : (Closed(k.day) => Closeable(q, k.day)) /\ (~ Kept(k) => Expired(q, k.day))
    <3> SUFFICES ASSUME NEW k \in RollupKeys
                 PROVE  (Closed(k.day) => Closeable(q, k.day)) /\ (~ Kept(k) => Expired(q, k.day))
      OBVIOUS
    <3>1. k.day \in Nat
      BY KeyParts
    <3> QED
      BY <1>6, <3>1 DEF Closed, Closeable, Kept, Expired
  <2> QED
    BY <1>1, <1>6, <2>1 DEF PassKeys, KeysOK, InBucket
<1>10. PassInv(q)
  BY <1>6, <1>8, <1>9 DEF PassInv, PassListing, PassTotal, PassFresh, InBucket, InFreeze
<1> QED
  BY <1>2, <1>5, <1>10, PassFrame, OnePass, StillFrame

LEMMA ListStep ==
  ASSUME CountersInv, NEW n \in Compacting, CompactList(n), Alone(n)
  PROVE  BucketsOK' /\ KeysOK' /\ SummaryFinal' /\ CountsExact' /\ MirrorsAgree' /\ PassesOK'
<1> USE Constants
<1>1. ClockOK /\ BucketsOK /\ KeysOK /\ SummaryFinal /\ PassesOK
  BY DEF CountersInv
<1>2. Frame /\ UNCHANGED <<segments, rollups>>
  BY CompactFrame DEF CompactList, CompactStep
<1>3. PICK p : p = passes[n]
  OBVIOUS
<1>4. p.at = "list" /\ PassInv(p)
  BY <1>1, <1>3 DEF CompactList, PassesOK, Idle
<1>5. p \in Passing /\ p.bucket \in Stores /\ p.asof <= today /\ DOMAIN p.mesh \cap p.todo = {} /\ p.todo \subseteq Stores
  BY <1>4 DEF PassInv, PassShape, Passing
<1>6. PICK b \in p.todo :
         \/ passes' = [passes EXCEPT ![n] = [p EXCEPT
                        !.at = "freeze", !.bucket = b, !.todo = @ \ {b},
                        !.listed = segments[b], !.held = Held(b), !.unfinished = {},
                        !.shards = {<<SegDay(seg), SegShard(seg)>> : seg \in segments[b]},
                        !.fresh = {}]]
         \/ passes' = [passes EXCEPT ![n].todo = @ \ {b}]
  BY <1>3 DEF CompactList
<1>7. CASE passes' = [passes EXCEPT ![n].todo = @ \ {b}]
  <2>1. PICK q : q = [p EXCEPT !.todo = p.todo \ {b}]
    OBVIOUS
  <2>2. DOMAIN passes' = Compacting /\ passes'[n] = q
    BY <1>1, <1>3, <1>7, <2>1 DEF PassesOK
  <2>3. q.at = "list" /\ q.asof = p.asof /\ q.mesh = p.mesh /\ q.todo = p.todo \ {b}
    BY <1>4, <1>5, <2>1 DEF Passing
  <2>4. q \in Passing
    BY <1>5, <2>1 DEF Passing
  <2>5. PassShape(q)
    BY <1>5, <2>3, <2>4 DEF PassShape, InBucket
  <2>6. PassKeys(q)
    BY <1>4, <2>3 DEF PassInv, PassKeys, InBucket, Closeable, Expired
  <2>7. PassInv(q)
    BY <2>3, <2>5, <2>6 DEF PassInv, PassListing, PassTotal, PassFresh, InBucket, InFreeze
  <2> QED
    BY <1>2, <2>2, <2>7, PassFrame, OnePass, StillFrame
<1>8. CASE passes' = [passes EXCEPT ![n] = [p EXCEPT
                        !.at = "freeze", !.bucket = b, !.todo = @ \ {b},
                        !.listed = segments[b], !.held = Held(b), !.unfinished = {},
                        !.shards = {<<SegDay(seg), SegShard(seg)>> : seg \in segments[b]},
                        !.fresh = {}]]
  <2>0. PICK x : x = {<<SegDay(seg), SegShard(seg)>> : seg \in segments[b]}
    OBVIOUS
  <2>1. PICK q : q = [p EXCEPT !.at = "freeze", !.bucket = b, !.todo = p.todo \ {b},
                        !.listed = segments[b], !.held = Held(b), !.unfinished = {},
                        !.shards = x, !.fresh = {}]
    OBVIOUS
  <2>2. DOMAIN passes' = Compacting /\ passes'[n] = q
    BY <1>1, <1>3, <1>8, <2>0, <2>1 DEF PassesOK
  <2>3. /\ q.at = "freeze" /\ q.asof = p.asof /\ q.mesh = p.mesh /\ q.todo = p.todo \ {b}
        /\ q.bucket = b /\ q.listed = segments[b] /\ q.held = Held(b) /\ q.unfinished = {}
        /\ q.shards = x /\ q.fresh = {}
    BY <1>5, <2>1 DEF Passing
  <2>4. b \in Stores /\ segments[b] \subseteq Segs /\ Held(b) \subseteq RollupKeys
    BY <1>1, <1>5, <1>6 DEF BucketsOK, Held
  <2>5. \A seg \in segments[b] : SegOK(seg) /\ SegDay(seg) \in Days /\ SegShard(seg) \in Shards
    <3> SUFFICES ASSUME NEW seg \in segments[b]
                 PROVE  SegOK(seg) /\ SegDay(seg) \in Days /\ SegShard(seg) \in Shards
      OBVIOUS
    <3>1. SegOK(seg)
      BY <1>1, <2>4 DEF BucketsOK
    <3>2. Rep(seg) \in Events /\ dayOf[Rep(seg)] # Unborn
      BY <3>1, SegFacts DEF SegOK, Segs
    <3>3. dayOf \in [Events -> 0..Unborn] /\ season.shard \in [Events -> Shards]
      BY <1>1 DEF ClockOK
    <3> QED
      BY <3>1, <3>2, <3>3, SegFacts
  <2>6. x \subseteq Days \X Shards
    BY <2>0, <2>5
  <2>7. q \in Passing
    BY <1>5, <2>1, <2>4, <2>6 DEF Passing
  <2>8. PassShape(q)
    BY <1>5, <1>6, <2>3, <2>7 DEF PassShape
  <2>9. PassKeys(q)
    BY <1>4, <2>3 DEF PassInv, PassKeys, Closeable, Expired
  <2>10. PassListing(q)
    BY <2>0, <2>3, <2>5 DEF PassListing
  <2>11. PassTotal(q)
    BY <2>3 DEF PassTotal
  <2>12. \A k \in RollupKeys : k \in Held(b) <=> Has(b, k)
    BY DEF Held, Has
  <2>13. PassFresh(q)
    <3>1. ASSUME ~ season.late, NEW y \in x, Current(y[1]), MySummary(q, y[1]) \in Held(b)
          PROVE  Mine(q, y) \in Held(b)
      <4>1. PICK seg \in segments[b] : y = <<SegDay(seg), SegShard(seg)>>
        BY <2>0, <3>1
      <4>2. MySummary(q, y[1]) = key_of(SegDay(seg), Summary, b) /\ Mine(q, y) = key_of(SegDay(seg), SegShard(seg), b)
        BY <2>3, <4>1 DEF MySummary, Mine
      <4>3. key_of(SegDay(seg), Summary, b) \in RollupKeys /\ key_of(SegDay(seg), SegShard(seg), b) \in RollupKeys
        BY <2>4, <2>5, KeyFacts
      <4>4. Has(b, key_of(SegDay(seg), SegShard(seg), b))
        BY <1>1, <2>4, <2>12, <3>1, <4>1, <4>2, <4>3 DEF SummaryFinal
      <4> QED
        BY <2>12, <4>2, <4>3, <4>4
    <3> QED
      BY <2>3, <3>1 DEF PassFresh
  <2> QED
    BY <1>2, <2>2, <2>8, <2>9, <2>10, <2>11, <2>13, PassFrame, OnePass, StillFrame DEF PassInv
<1> QED
  BY <1>6, <1>7, <1>8

LEMMA EndStep ==
  ASSUME CountersInv, NEW n \in Compacting, CompactEnd(n), Alone(n)
  PROVE  BucketsOK' /\ KeysOK' /\ SummaryFinal' /\ CountsExact' /\ MirrorsAgree' /\ PassesOK'
<1>1. Frame /\ UNCHANGED <<segments, rollups>>
  BY CompactFrame DEF CompactEnd, CompactStep
<1>2. DOMAIN passes' = Compacting /\ passes'[n] = Idle
  BY DEF CompactEnd, CountersInv, PassesOK
<1> QED
  BY <1>1, <1>2, OnePass, StillFrame

LEMMA FrozenKey ==
  ASSUME NEW p \in Passing, NEW x \in Days \X Shards
  PROVE  /\ Mine(p, x) \in RollupKeys /\ Mine(p, x).author = p.bucket /\ Mine(p, x).day = x[1]
         /\ Mine(p, x).stem = x[2]
         /\ IsFrozen(p, x[1], x[2]) <=> Mine(p, x) \in p.held
<1>1. p.bucket \in Stores /\ x[1] \in Days /\ x[2] \in Shards
  BY DEF Passing
<1>2. Mine(p, x) = key_of(x[1], x[2], p.bucket)
  BY DEF Mine
<1> QED
  BY <1>1, <1>2, KeyFacts DEF IsFrozen, Own

LEMMA HeldHas ==
  ASSUME NEW p, PassInv(p), InBucket(p), NEW k \in RollupKeys
  PROVE  /\ k \in p.held => Has(p.bucket, k)
         /\ k \notin p.held /\ (k.stem = Summary \/ <<k.day, k.stem>> \in p.shards) => ~ Has(p.bucket, k)
  BY DEF PassInv, PassKeys, Held, Has

LEMMA SumStep ==
  ASSUME CountersInv, NEW n \in Compacting, SumShard(n), Alone(n)
  PROVE  BucketsOK' /\ KeysOK' /\ SummaryFinal' /\ CountsExact' /\ MirrorsAgree' /\ PassesOK'
<1> USE Constants
<1>1. ClockOK /\ BucketsOK /\ KeysOK /\ CountsExact /\ PassesOK
  BY DEF CountersInv
<1>2. Frame /\ UNCHANGED <<segments, rollups>>
  BY CompactFrame DEF SumShard, CompactStep
<1>3. PICK p : p = passes[n]
  OBVIOUS
<1>4. p.at = "freeze" /\ PassInv(p) /\ InBucket(p) /\ InFreeze(p)
  BY <1>1, <1>3 DEF SumShard, PassesOK, Idle, InBucket, InFreeze
<1>5. p \in Passing /\ PassShape(p) /\ PassKeys(p) /\ PassListing(p) /\ PassFresh(p)
  BY <1>4 DEF PassInv, PassShape
<1>6. p.bucket \in Stores /\ p.shards \subseteq Days \X Shards /\ p.unfinished \subseteq Days
  BY <1>5 DEF Passing
<1>7. PICK x \in p.shards :
         /\ Closeable(p, x[1]) /\ ~ IsFrozen(p, x[1], x[2])
         /\ \/ passes' = [passes EXCEPT ![n] = [p EXCEPT !.at = "store",
                 !.total = [key |-> x,
                            of |-> sum_segments(Listed(p, x[1], x[2]) \cap segments[p.bucket])]]]
            \/ passes' = [passes EXCEPT ![n] = [p EXCEPT
                 !.shards = @ \ {x}, !.unfinished = @ \cup {x[1]}]]
  BY <1>3 DEF SumShard
<1>8. x \in Days \X Shards /\ x[1] \in Days /\ x[2] \in Shards /\ x = <<x[1], x[2]>>
  BY <1>6, <1>7
<1>9. Mine(p, x) \notin p.held /\ Mine(p, x) \in RollupKeys
  BY <1>5, <1>7, <1>8, FrozenKey
<1>10. CASE passes' = [passes EXCEPT ![n] = [p EXCEPT !.shards = @ \ {x}, !.unfinished = @ \cup {x[1]}]]
  <2>1. PICK q : q = [p EXCEPT !.shards = p.shards \ {x}, !.unfinished = p.unfinished \cup {x[1]}]
    OBVIOUS
  <2>2. DOMAIN passes' = Compacting /\ passes'[n] = q
    BY <1>1, <1>10, <2>1 DEF PassesOK
  <2>3. /\ q.at = "freeze" /\ q.asof = p.asof /\ q.mesh = p.mesh /\ q.todo = p.todo
        /\ q.bucket = p.bucket /\ q.listed = p.listed /\ q.held = p.held /\ q.fresh = p.fresh
        /\ q.unfinished = p.unfinished \cup {x[1]} /\ q.shards = p.shards \ {x}
    BY <1>4, <1>5, <2>1 DEF Passing
  <2>4. q \in Passing
    BY <1>5, <1>6, <1>8, <2>1 DEF Passing
  <2>5. PassShape(q)
    BY <1>4, <1>5, <2>3, <2>4 DEF PassShape
  <2>6. PassKeys(q)
    BY <1>4, <1>5, <2>3 DEF PassKeys, Closeable, Expired
  <2>7. PassListing(q)
    <3>1. \A seg \in p.listed : \/ <<SegDay(seg), SegShard(seg)>> \in q.shards
                                \/ Mine(p, <<SegDay(seg), SegShard(seg)>>) \in p.held
                                \/ SegDay(seg) \in q.unfinished
      BY <1>4, <1>5, <1>8, <2>3 DEF PassListing
    <3> QED
      BY <1>4, <1>5, <2>3, <3>1 DEF PassListing, Closeable, Mine, InFreeze
  <2>8. PassTotal(q)
    BY <2>3 DEF PassTotal
  <2>9. PassFresh(q)
    BY <1>4, <1>5, <2>3 DEF PassFresh, Closeable, MySummary, Mine
  <2> QED
    BY <1>2, <2>2, <2>5, <2>6, <2>7, <2>8, <2>9, PassFrame, OnePass, StillFrame DEF PassInv
<1>11. CASE passes' = [passes EXCEPT ![n] = [p EXCEPT !.at = "store",
                 !.total = [key |-> x,
                            of |-> sum_segments(Listed(p, x[1], x[2]) \cap segments[p.bucket])]]]
  <2>0. PICK T : T = Listed(p, x[1], x[2]) \cap segments[p.bucket]
    OBVIOUS
  <2>1. PICK sum : sum = [key |-> x, of |-> sum_segments(T)]
    OBVIOUS
  <2>2. PICK q : q = [p EXCEPT !.at = "store", !.total = sum]
    OBVIOUS
  <2>3. DOMAIN passes' = Compacting /\ passes'[n] = q
    BY <1>1, <1>11, <2>0, <2>1, <2>2 DEF PassesOK
  <2>4. /\ q.at = "store" /\ q.asof = p.asof /\ q.mesh = p.mesh /\ q.todo = p.todo
        /\ q.bucket = p.bucket /\ q.listed = p.listed /\ q.held = p.held /\ q.fresh = p.fresh
        /\ q.unfinished = p.unfinished /\ q.shards = p.shards /\ q.total = sum
    BY <1>5, <2>2 DEF Passing
  <2>5. sum_segments(T) \in Tallies
    <3>1. IsFiniteSet(T)
      BY <1>1, <1>6, <2>0, FS_Subset DEF BucketsOK
    <3>2. \A e \in Events : sum_segments(T)[e] \in Nat
      BY <3>1, CountNat
    <3>3. sum_segments(T) = [e \in Events |-> sum_segments(T)[e]]
      BY DEF sum_segments
    <3> QED
      BY <3>2, <3>3 DEF Tallies
  <2>6. sum \in [key : Days \X Shards, of : Tallies] /\ sum.key = x /\ sum.of = sum_segments(T)
    BY <1>8, <2>1, <2>5
  <2>7. q \in Passing
    BY <1>5, <2>2, <2>6 DEF Passing
  <2>8. PassShape(q)
    BY <1>4, <1>5, <2>4, <2>7 DEF PassShape, InBucket
  <2>9. PassKeys(q)
    BY <1>4, <1>5, <2>4 DEF PassKeys, Closeable, Expired, InBucket
  <2>10. PassListing(q)
    BY <1>4, <1>5, <2>4 DEF PassListing, Closeable, Mine, InFreeze
  <2>11. PassFresh(q)
    BY <1>4, <1>5, <2>4 DEF PassFresh, Closeable, MySummary, Mine
  <2>12. \A e \in Events \ (late \cup pruned) :
            <<dayOf[e], season.shard[e]>> = x => sum_segments(T)[e] = landed[p.bucket][e]
    <3> SUFFICES ASSUME NEW e \in Events \ (late \cup pruned), <<dayOf[e], season.shard[e]>> = x
                 PROVE  sum_segments(T)[e] = landed[p.bucket][e]
      OBVIOUS
    <3>1. dayOf[e] = x[1] /\ season.shard[e] = x[2] /\ Closeable(p, dayOf[e])
      BY <1>7
    <3>2. ~ FrozenBy(p.bucket, e)
      <4>1. ~ Has(p.bucket, Mine(p, x))
        <5>1. <<Mine(p, x).day, Mine(p, x).stem>> \in p.shards
          BY <1>5, <1>7, <1>8, FrozenKey
        <5> QED
          BY <1>4, <1>9, <5>1, HeldHas
      <4>2. Mine(p, x) = key_of(dayOf[e], season.shard[e], p.bucket)
        BY <3>1 DEF Mine
      <4> QED
        BY <4>1, <4>2 DEF FrozenBy, Has
    <3>3. landed[p.bucket][e] = sum_segments(segments[p.bucket])[e]
      BY <1>1, <1>6, <3>2 DEF CountsExact
    <3>4. \A seg \in segments[p.bucket] : e \in seg.events => seg \in T
      <4> SUFFICES ASSUME NEW seg \in segments[p.bucket], e \in seg.events
                   PROVE  seg \in T
        OBVIOUS
      <4>1. seg \in p.listed
        BY <1>4, <1>5, <3>1 DEF PassListing
      <4>2. SegDay(seg) = x[1] /\ SegShard(seg) = x[2]
        BY <1>1, <1>6, <3>1 DEF BucketsOK, SegOK
      <4> QED
        BY <2>0, <4>1, <4>2 DEF Listed
    <3>5. \A seg \in T : e \in seg.events => seg \in segments[p.bucket]
      BY <2>0
    <3>6. sum_segments(T)[e] = sum_segments(segments[p.bucket])[e]
      <4>1. PICK U : U = segments[p.bucket]
        OBVIOUS
      <4>2. e \in Events
        OBVIOUS
      <4>3. sum_segments(T)[e] = sum_segments(U)[e]
        BY <3>4, <3>5, <4>1, <4>2, CountSame
      <4> QED
        BY <4>1, <4>3
    <3> QED
      BY <3>3, <3>6
  <2>13. PassTotal(q)
    BY <1>7, <1>9, <2>4, <2>6, <2>12 DEF PassTotal, Closeable, Mine
  <2> QED
    BY <1>2, <2>3, <2>8, <2>9, <2>10, <2>11, <2>13, PassFrame, OnePass, StillFrame DEF PassInv
<1> QED
  BY <1>7, <1>10, <1>11

-----------------------------------------------------------------------------
(* Steps that sweep segments.                                               *)

LEMMA Shrink ==
  ASSUME CountersInv, Frame, UNCHANGED rollups, NEW b \in Stores, NEW gone,
         segments' = [segments EXCEPT ![b] = @ \ gone],
         \A seg \in segments[b] \cap gone : \A e \in seg.events :
            e \in pruned \/ Has(b, key_of(dayOf[e], season.shard[e], b))
  PROVE  /\ BucketsOK' /\ KeysOK' /\ SummaryFinal' /\ CountsExact' /\ MirrorsAgree'
         /\ \A q : q \in Passing /\ PassInv(q) => PassInv(q)'
<1> USE Constants
<1>1. ClockOK /\ BucketsOK /\ KeysOK /\ SummaryFinal /\ CountsExact /\ MirrorsAgree
  BY DEF CountersInv
<1>2. \A a, k : (Has(a, k)' <=> Has(a, k)) /\ (Orphan(a, k)' <=> Orphan(a, k))
  BY DEF Has, Orphan
<1>3. /\ segments \in [Stores -> SUBSET Segs] /\ landed \in [Stores -> [Events -> Nat]]
      /\ \A c \in Stores : segments'[c] = IF c = b THEN segments[c] \ gone ELSE segments[c]
      /\ segments' \in [Stores -> SUBSET Segs]
  BY <1>1 DEF BucketsOK
<1>4. \A c \in Stores : segments'[c] \subseteq segments[c]
  BY <1>3
<1>5. BucketsOK'
  <2>1. \A c \in Stores : IsFiniteSet(segments'[c])
    BY <1>1, <1>4, FS_Subset DEF BucketsOK
  <2>2. \A c \in Stores : \A seg \in segments'[c] : SegOK(seg) /\ seg.nth < landed[c][Rep(seg)]
    BY <1>1, <1>4 DEF BucketsOK
  <2> QED
    BY <1>1, <1>3, <2>1, <2>2, FrameSegs DEF BucketsOK, Frame
<1>6. KeysOK'
  BY <1>1, <1>2 DEF KeysOK, Frame, Closed, Kept
<1>7. SummaryFinal'
  <2>1. ~ season.late => \A c \in Stores : \A seg \in segments'[c] :
          Current(SegDay(seg)) /\ Has(c, key_of(SegDay(seg), Summary, c))
             => Has(c, key_of(SegDay(seg), SegShard(seg), c))
    BY <1>1, <1>4 DEF SummaryFinal
  <2> QED
    BY <1>2, <2>1, FrameSegs DEF SummaryFinal, Frame, Current
<1>8. CountsExact'
  <2> SUFFICES ASSUME NEW c \in Stores, NEW e \in Events \ (late \cup pruned)
               PROVE  landed[c][e] = IF dayOf[e] \in Days /\ FrozenBy(c, e)
                                     THEN rollups[c][key_of(dayOf[e], season.shard[e], c)][e]
                                     ELSE sum_segments(segments'[c])[e]
    BY DEF Frame, CountsExact, FrozenBy, sum_segments
  <2>1. landed[c][e] = IF dayOf[e] \in Days /\ FrozenBy(c, e)
                       THEN rollups[c][key_of(dayOf[e], season.shard[e], c)][e]
                       ELSE sum_segments(segments[c])[e]
    BY <1>1 DEF CountsExact
  <2>2. CASE dayOf[e] \in Days /\ FrozenBy(c, e)
    BY <2>1, <2>2
  <2>3. CASE ~ (dayOf[e] \in Days /\ FrozenBy(c, e))
    <3>1. PICK S, T : S = segments[c] /\ T = segments'[c]
      OBVIOUS
    <3>2. \A seg \in S : e \in seg.events => seg \in T
      <4> SUFFICES ASSUME NEW seg \in segments[c], e \in seg.events
                   PROVE  seg \in segments'[c]
        BY <3>1
      <4>1. SegOK(seg) /\ dayOf[e] # Unborn /\ dayOf[e] \in 0..Unborn
        BY <1>1 DEF BucketsOK, SegOK, ClockOK
      <4>2. dayOf[e] \in Days
        BY <4>1
      <4>3. ~ Has(c, key_of(dayOf[e], season.shard[e], c))
        BY <2>3, <4>2 DEF FrozenBy, Has
      <4> QED
        BY <1>3, <4>3
    <3>3. \A seg \in T : e \in seg.events => seg \in S
      BY <1>4, <3>1
    <3>4. e \in Events
      OBVIOUS
    <3>5. sum_segments(S)[e] = sum_segments(T)[e]
      BY <3>2, <3>3, <3>4, CountSame
    <3> QED
      BY <2>1, <2>3, <3>1, <3>5
  <2> QED
    BY <2>2, <2>3
<1>9. MirrorsAgree'
  BY <1>1 DEF MirrorsAgree, Frame, Agree, Kept
<1>10. ASSUME NEW q \in Passing, PassInv(q)
       PROVE  PassInv(q)'
  <2>1. PassShape(q)'
    BY <1>10 DEF Frame, PassInv, PassShape
  <2>2. PassKeys(q)'
    BY <1>2, <1>10 DEF Frame, PassInv, PassKeys, Held
  <2>3. PassListing(q)'
    <3> SUFFICES ASSUME InBucket(q)
                 PROVE  PassListing(q)'
      BY DEF PassListing
    <3>1. /\ \A seg \in q.listed : SegOK(seg)
          /\ \A seg \in segments[q.bucket] : \A e \in seg.events :
                Closeable(q, dayOf[e]) /\ e \notin late /\ (InFreeze(q) \/ ~ season.late) => seg \in q.listed
          /\ \A seg \in q.listed : \/ <<SegDay(seg), SegShard(seg)>> \in q.shards
                                   \/ Mine(q, <<SegDay(seg), SegShard(seg)>>) \in q.held
                                   \/ SegDay(seg) \in q.unfinished \/ q.at = "retain"
      BY <1>10 DEF PassInv, PassListing
    <3>2. segments'[q.bucket] \subseteq segments[q.bucket]
      BY <1>4, <1>10 DEF Passing
    <3>3. \A seg \in segments'[q.bucket] : \A e \in seg.events :
                Closeable(q, dayOf[e]) /\ e \notin late /\ (InFreeze(q) \/ ~ season.late) => seg \in q.listed
      BY <3>1, <3>2
    <3> QED
      BY <3>1, <3>3, FrameSegs DEF Frame, PassListing, Mine
  <2>4. PassTotal(q)'
    BY <1>10 DEF Frame, PassInv, PassTotal
  <2>5. PassFresh(q)'
    BY <1>2, <1>10 DEF Frame, PassInv, PassFresh, Current
  <2> QED
    BY <2>1, <2>2, <2>3, <2>4, <2>5 DEF PassInv
<1> QED
  BY <1>5, <1>6, <1>7, <1>8, <1>9, <1>10

\* The segments a pass listed for one of its own frozen shards are counted by the rollup.
LEMMA SweptCounted ==
  ASSUME NEW p, PassInv(p), InBucket(p), NEW x \in Days \X Shards, Mine(p, x) \in p.held
  PROVE  \A seg \in Listed(p, x[1], x[2]) : \A e \in seg.events :
            Has(p.bucket, key_of(dayOf[e], season.shard[e], p.bucket))
<1> SUFFICES ASSUME NEW seg \in Listed(p, x[1], x[2]), NEW e \in seg.events
             PROVE  Has(p.bucket, key_of(dayOf[e], season.shard[e], p.bucket))
  OBVIOUS
<1>1. SegOK(seg) /\ SegDay(seg) = x[1] /\ SegShard(seg) = x[2]
  BY DEF Listed, PassInv, PassListing
<1>2. dayOf[e] = x[1] /\ season.shard[e] = x[2]
  BY <1>1 DEF SegOK
<1>3. p \in Passing
  BY DEF PassInv, PassShape
<1>4. Has(p.bucket, Mine(p, x))
  BY <1>3, FrozenKey, HeldHas
<1> QED
  BY <1>2, <1>4 DEF Mine

LEMMA SweepFrozenStep ==
  ASSUME CountersInv, NEW n \in Compacting, SweepFrozen(n), Alone(n)
  PROVE  BucketsOK' /\ KeysOK' /\ SummaryFinal' /\ CountsExact' /\ MirrorsAgree' /\ PassesOK'
<1>1. PassesOK
  BY DEF CountersInv
<1>2. Frame /\ UNCHANGED rollups
  BY CompactFrame DEF SweepFrozen, CompactStep
<1>3. PICK p : p = passes[n]
  OBVIOUS
<1>4. p.at = "freeze" /\ PassInv(p) /\ InBucket(p) /\ InFreeze(p)
  BY <1>1, <1>3 DEF SweepFrozen, PassesOK, Idle, InBucket, InFreeze
<1>5. p \in Passing /\ PassShape(p) /\ PassKeys(p) /\ PassListing(p) /\ PassFresh(p)
  BY <1>4 DEF PassInv, PassShape
<1>6. p.bucket \in Stores /\ p.shards \subseteq Days \X Shards
  BY <1>5 DEF Passing
<1>7. PICK x \in p.shards :
         /\ IsFrozen(p, x[1], x[2])
         /\ passes' = [passes EXCEPT ![n].shards = @ \ {x}]
         /\ \/ segments' = [segments EXCEPT ![p.bucket] = @ \ Listed(p, x[1], x[2])]
            \/ UNCHANGED segments
  BY <1>3 DEF SweepFrozen
<1>8. x \in Days \X Shards /\ x = <<x[1], x[2]>> /\ Mine(p, x) \in p.held
  BY <1>5, <1>6, <1>7, FrozenKey
<1>9. PICK q : q = [p EXCEPT !.shards = p.shards \ {x}]
  OBVIOUS
<1>10. DOMAIN passes' = Compacting /\ passes'[n] = q
  BY <1>1, <1>3, <1>7, <1>9 DEF PassesOK
<1>11. /\ q.at = "freeze" /\ q.asof = p.asof /\ q.mesh = p.mesh /\ q.todo = p.todo
       /\ q.bucket = p.bucket /\ q.listed = p.listed /\ q.held = p.held /\ q.fresh = p.fresh
       /\ q.unfinished = p.unfinished /\ q.shards = p.shards \ {x} /\ q \in Passing
  BY <1>4, <1>5, <1>9 DEF Passing
<1>12. PassInv(q)
  <2>1. PassShape(q)
    BY <1>4, <1>5, <1>11 DEF PassShape
  <2>2. PassKeys(q)
    BY <1>4, <1>5, <1>11 DEF PassKeys, Closeable, Expired
  <2>3. PassListing(q)
    <3>1. \A seg \in p.listed : \/ <<SegDay(seg), SegShard(seg)>> \in q.shards
                                \/ Mine(p, <<SegDay(seg), SegShard(seg)>>) \in p.held
                                \/ SegDay(seg) \in q.unfinished
      BY <1>4, <1>5, <1>8, <1>11 DEF PassListing
    <3> QED
      BY <1>4, <1>5, <1>11, <3>1 DEF PassListing, Closeable, Mine, InFreeze
  <2>4. PassTotal(q)
    BY <1>11 DEF PassTotal
  <2>5. PassFresh(q)
    BY <1>4, <1>5, <1>11 DEF PassFresh, Closeable, MySummary, Mine
  <2> QED
    BY <2>1, <2>2, <2>3, <2>4, <2>5 DEF PassInv
<1>13. CASE UNCHANGED segments
  BY <1>2, <1>10, <1>12, <1>13, PassFrame, OnePass, StillFrame
<1>14. CASE segments' = [segments EXCEPT ![p.bucket] = @ \ Listed(p, x[1], x[2])]
  <2>1. PICK gone, b : gone = Listed(p, x[1], x[2]) /\ b = p.bucket
    OBVIOUS
  <2>2. \A seg \in segments[b] \cap gone : \A e \in seg.events :
            e \in pruned \/ Has(b, key_of(dayOf[e], season.shard[e], b))
    BY <1>4, <1>8, <2>1, SweptCounted
  <2>3. /\ BucketsOK' /\ KeysOK' /\ SummaryFinal' /\ CountsExact' /\ MirrorsAgree'
        /\ PassInv(q)'
    BY <1>2, <1>6, <1>11, <1>12, <1>14, <2>1, <2>2, Shrink
  <2> QED
    BY <1>10, <2>3, OnePass
<1> QED
  BY <1>7, <1>13, <1>14

LEMMA SweepShardStep ==
  ASSUME CountersInv, NEW n \in Compacting, SweepShard(n), Alone(n)
  PROVE  BucketsOK' /\ KeysOK' /\ SummaryFinal' /\ CountsExact' /\ MirrorsAgree' /\ PassesOK'
<1>1. PassesOK
  BY DEF CountersInv
<1>2. Frame /\ UNCHANGED rollups
  BY CompactFrame DEF SweepShard, CompactStep
<1>3. PICK p : p = passes[n]
  OBVIOUS
<1>4. p.at = "sweep" /\ PassInv(p) /\ InBucket(p) /\ InFreeze(p)
  BY <1>1, <1>3 DEF SweepShard, PassesOK, Idle, InBucket, InFreeze
<1>5. /\ p \in Passing /\ PassShape(p) /\ PassKeys(p) /\ PassListing(p) /\ PassFresh(p)
      /\ p.total \in [key : Days \X Shards, of : Tallies] /\ Mine(p, p.total.key) \in p.held
  BY <1>4 DEF PassInv, PassShape, PassTotal
<1>6. PICK x : x = p.total.key
  OBVIOUS
<1>7. p.bucket \in Stores /\ p.shards \subseteq Days \X Shards
  BY <1>5 DEF Passing
<1>8. x \in Days \X Shards /\ x = <<x[1], x[2]>> /\ Mine(p, x) \in p.held
  BY <1>5, <1>6
<1>9. PICK q : q = [p EXCEPT !.at = "freeze", !.shards = p.shards \ {x}, !.total = Absent]
  OBVIOUS
<1>10. DOMAIN passes' = Compacting /\ passes'[n] = q
  BY <1>1, <1>3, <1>6, <1>9 DEF PassesOK, SweepShard
<1>11. /\ q.at = "freeze" /\ q.asof = p.asof /\ q.mesh = p.mesh /\ q.todo = p.todo
       /\ q.bucket = p.bucket /\ q.listed = p.listed /\ q.held = p.held /\ q.fresh = p.fresh
       /\ q.unfinished = p.unfinished /\ q.shards = p.shards \ {x} /\ q \in Passing
  BY <1>5, <1>9 DEF Passing
<1>12. PassInv(q)
  <2>1. PassShape(q)
    BY <1>4, <1>5, <1>11 DEF PassShape, InBucket
  <2>2. PassKeys(q)
    BY <1>4, <1>5, <1>11 DEF PassKeys, Closeable, Expired
  <2>3. PassListing(q)
    <3>1. \A seg \in p.listed : \/ <<SegDay(seg), SegShard(seg)>> \in q.shards
                                \/ Mine(p, <<SegDay(seg), SegShard(seg)>>) \in p.held
                                \/ SegDay(seg) \in q.unfinished
      BY <1>4, <1>5, <1>8, <1>11 DEF PassListing
    <3> QED
      BY <1>4, <1>5, <1>11, <3>1 DEF PassListing, Closeable, Mine, InFreeze
  <2>4. PassTotal(q)
    BY <1>11 DEF PassTotal
  <2>5. PassFresh(q)
    BY <1>4, <1>5, <1>11 DEF PassFresh, Closeable, MySummary, Mine
  <2> QED
    BY <2>1, <2>2, <2>3, <2>4, <2>5 DEF PassInv
<1>13. CASE UNCHANGED segments
  BY <1>2, <1>10, <1>12, <1>13, PassFrame, OnePass, StillFrame
<1>14. CASE segments' = [segments EXCEPT ![p.bucket] = @ \ Listed(p, x[1], x[2])]
  <2>1. PICK gone, b : gone = Listed(p, x[1], x[2]) /\ b = p.bucket
    OBVIOUS
  <2>2. \A seg \in segments[b] \cap gone : \A e \in seg.events :
            e \in pruned \/ Has(b, key_of(dayOf[e], season.shard[e], b))
    BY <1>4, <1>8, <2>1, SweptCounted
  <2>3. /\ BucketsOK' /\ KeysOK' /\ SummaryFinal' /\ CountsExact' /\ MirrorsAgree'
        /\ PassInv(q)'
    BY <1>2, <1>7, <1>11, <1>12, <1>14, <2>1, <2>2, Shrink
  <2> QED
    BY <1>10, <2>3, OnePass
<1> QED
  BY <1>3, <1>6, <1>13, <1>14 DEF SweepShard, Swept

-----------------------------------------------------------------------------
(* Steps that write rollups.                                                *)

\* The keys in K are written to bucket b, and what may be written: an own key that counts
\* exactly and that no other bucket holds with another value, or a copy of a key its
\* author still holds.
Writes(b, K) ==
    /\ rollups' \in [Stores -> [RollupKeys -> Tallies \cup {Absent}]]
    /\ \A c \in Stores : \A k \in RollupKeys : c # b \/ k \notin K => rollups'[c][k] = rollups[c][k]
    /\ \A k \in K : rollups'[b][k] # Absent /\ Closed(k.day)
WritesSound(b, K) ==
    /\ \A k \in K : k.author = b \/ Has(k.author, k)
    /\ ~ season.late => \A seg \in segments[b] :
          Current(SegDay(seg)) /\ key_of(SegDay(seg), Summary, b) \in K
             => rollups'[b][key_of(SegDay(seg), SegShard(seg), b)] # Absent
    /\ \A k \in K : \A e \in Events \ (late \cup pruned) :
          k = key_of(dayOf[e], season.shard[e], b) => rollups'[b][k][e] = landed[b][e]
    /\ \A k \in K : Kept(k) /\ (k.stem # Summary \/ ~ season.late) =>
          \A a \in Stores : a # b => ~ Has(a, k) \/ rollups[a][k] = rollups'[b][k]

LEMMA WriteHas ==
  ASSUME NEW b \in Stores, NEW K \in SUBSET RollupKeys, Writes(b, K), WritesSound(b, K)
  PROVE  /\ \A c \in Stores : \A k \in RollupKeys : Has(c, k)' <=> Has(c, k) \/ (c = b /\ k \in K)
         /\ \A a \in Stores : \A k \in RollupKeys :
               Orphan(a, k)' => Orphan(a, k) \/ (a = b /\ k \in K /\ k.author # b /\ ~ Has(k.author, k))
<1>1. \A c \in Stores : \A k \in RollupKeys : Has(c, k)' <=> Has(c, k) \/ (c = b /\ k \in K)
  BY DEF Writes, Has
<1>2. ASSUME NEW a \in Stores, NEW k \in RollupKeys, Orphan(a, k)'
      PROVE  Orphan(a, k) \/ (a = b /\ k \in K /\ k.author # b /\ ~ Has(k.author, k))
  <2>1. k.author \in Stores
    BY KeyParts
  <2>2. Has(a, k)' /\ ~ Has(k.author, k)'
    BY <1>2 DEF Orphan, Has
  <2> QED
    BY <1>1, <2>1, <2>2 DEF Orphan
<1> QED
  BY <1>1, <1>2

LEMMA Grow ==
  ASSUME CountersInv, Frame, UNCHANGED segments, NEW b \in Stores, NEW K \in SUBSET RollupKeys,
         Writes(b, K), WritesSound(b, K)
  PROVE  /\ BucketsOK' /\ KeysOK' /\ SummaryFinal' /\ CountsExact' /\ MirrorsAgree'
         /\ \A c \in Stores : \A k \in RollupKeys : Has(c, k)' <=> Has(c, k) \/ (c = b /\ k \in K)
         /\ \A a \in Stores : \A k \in RollupKeys : Orphan(a, k)' => Orphan(a, k)
<1> USE Constants
<1>1. ClockOK /\ BucketsOK /\ KeysOK /\ SummaryFinal /\ CountsExact /\ MirrorsAgree
  BY DEF CountersInv
<1>2. \A c \in Stores : \A k \in RollupKeys : Has(c, k)' <=> Has(c, k) \/ (c = b /\ k \in K)
  BY WriteHas
<1>3. \A a \in Stores : \A k \in RollupKeys : Orphan(a, k)' => Orphan(a, k)
  BY WriteHas DEF WritesSound
<1>4. BucketsOK'
  BY <1>1, FrameSegs DEF BucketsOK, Frame, Writes
<1>5. KeysOK'
  <2>1. \A c \in Stores : \A k \in RollupKeys : Has(c, k)' => Closed(k.day)
    BY <1>1, <1>2 DEF KeysOK, Writes
  <2>2. \A a \in Stores : \A k \in RollupKeys : Orphan(a, k)' => ~ Kept(k)
    BY <1>1, <1>3 DEF KeysOK
  <2> QED
    BY <2>1, <2>2 DEF KeysOK, Frame, Closed, Kept
<1>6. \A c \in Stores : \A seg \in segments[c] : SegOK(seg) /\ SegDay(seg) \in Days /\ SegShard(seg) \in Shards
  <2> SUFFICES ASSUME NEW c \in Stores, NEW seg \in segments[c]
               PROVE  SegOK(seg) /\ SegDay(seg) \in Days /\ SegShard(seg) \in Shards
    OBVIOUS
  <2>1. SegOK(seg)
    BY <1>1 DEF BucketsOK
  <2>2. Rep(seg) \in Events /\ dayOf[Rep(seg)] # Unborn
    BY <2>1, SegFacts DEF SegOK, Segs
  <2>3. dayOf \in [Events -> 0..Unborn] /\ season.shard \in [Events -> Shards]
    BY <1>1 DEF ClockOK
  <2> QED
    BY <2>1, <2>2, <2>3, SegFacts
<1>7. SummaryFinal'
  <2>1. ASSUME ~ season.late, NEW c \in Stores, NEW seg \in segments[c], Current(SegDay(seg)),
               Has(c, key_of(SegDay(seg), Summary, c))'
        PROVE  Has(c, key_of(SegDay(seg), SegShard(seg), c))'
    <3>1. PICK u, v : u = key_of(SegDay(seg), Summary, c) /\ v = key_of(SegDay(seg), SegShard(seg), c)
      OBVIOUS
    <3>2. u \in RollupKeys /\ v \in RollupKeys
      BY <1>6, <3>1, KeyFacts
    <3>3. SegDay(seg)' = SegDay(seg) /\ SegShard(seg)' = SegShard(seg)
      BY FrameSegs
    <3>4. rollups'[c][u] # Absent
      BY <2>1, <3>1, <3>3 DEF Has
    <3>5. Has(c, u) \/ (c = b /\ u \in K)
      BY <1>2, <3>2, <3>4 DEF Has
    <3>6. CASE Has(c, u)
      <4>1. Has(c, v)
        BY <1>1, <2>1, <3>1, <3>6 DEF SummaryFinal
      <4>2. rollups'[c][v] # Absent
        BY <1>2, <3>2, <4>1 DEF Has
      <4> QED
        BY <3>1, <3>3, <4>2 DEF Has
    <3>7. CASE c = b /\ u \in K
      <4>1. rollups'[c][v] # Absent
        BY <2>1, <3>1, <3>7 DEF WritesSound
      <4> QED
        BY <3>1, <3>3, <4>1 DEF Has
    <3> QED
      BY <3>5, <3>6, <3>7
  <2> QED
    BY <2>1, FrameSegs DEF SummaryFinal, Frame, Current
<1>8. CountsExact'
  <2> SUFFICES ASSUME NEW c \in Stores, NEW e \in Events \ (late \cup pruned)
               PROVE  landed[c][e] =
                        IF dayOf[e] \in Days /\ rollups'[c][key_of(dayOf[e], season.shard[e], c)] # Absent
                        THEN rollups'[c][key_of(dayOf[e], season.shard[e], c)][e]
                        ELSE sum_segments(segments[c])[e]
    BY DEF Frame, CountsExact, FrozenBy, sum_segments
  <2>1. PICK k : k = key_of(dayOf[e], season.shard[e], c)
    OBVIOUS
  <2>2. landed[c][e] = IF dayOf[e] \in Days /\ rollups[c][k] # Absent
                       THEN rollups[c][k][e] ELSE sum_segments(segments[c])[e]
    BY <1>1, <2>1 DEF CountsExact, FrozenBy
  <2>3. CASE dayOf[e] \notin Days
    BY <2>2, <2>3
  <2>4. CASE dayOf[e] \in Days
    <3>1. k \in RollupKeys
      BY <1>1, <2>1, <2>4, KeyFacts DEF ClockOK
    <3>2. CASE c = b /\ k \in K
      BY <2>1, <2>4, <3>2 DEF Writes, WritesSound
    <3>3. CASE ~ (c = b /\ k \in K)
      BY <2>1, <2>2, <3>1, <3>3 DEF Writes
    <3> QED
      BY <3>2, <3>3
  <2> QED
    BY <2>3, <2>4
<1>9. MirrorsAgree'
  <2> SUFFICES ASSUME NEW k \in RollupKeys, Kept(k) /\ (k.stem # Summary \/ ~ season.late)
               PROVE  Agree(k)'
    BY DEF MirrorsAgree, Frame, Kept
  <2>1. Agree(k)
    BY <1>1 DEF MirrorsAgree
  <2>2. CASE k \in K
    <3>1. \A a \in Stores : a # b => rollups'[a][k] = rollups[a][k]
      BY DEF Writes
    <3>2. \A a \in Stores : a # b => rollups[a][k] = Absent \/ rollups[a][k] = rollups'[b][k]
      BY <2>2 DEF WritesSound, Has
    <3> QED
      BY <2>1, <3>1, <3>2 DEF Agree
  <2>3. CASE k \notin K
    BY <2>1, <2>3 DEF Writes, Agree
  <2> QED
    BY <2>2, <2>3
<1> QED
  BY <1>2, <1>3, <1>4, <1>5, <1>7, <1>8, <1>9

\* What a pass knows of the keys after a write to the bucket it is in.
LEMMA PassKeysWrite ==
  ASSUME NEW p, PassInv(p), InBucket(p), Frame, NEW K \in SUBSET RollupKeys, NEW q,
         q.asof = p.asof, q.bucket = p.bucket, q.shards \subseteq p.shards,
         p.held \subseteq q.held, q.held \subseteq p.held \cup K,
         \A k \in K \ q.held : k.stem # Summary /\ <<k.day, k.stem>> \notin q.shards,
         \A k \in K : Closeable(p, k.day),
         \A c \in Stores : \A k \in RollupKeys : Has(c, k)' <=> Has(c, k) \/ (c = p.bucket /\ k \in K),
         \A a \in Stores : \A k \in RollupKeys : Orphan(a, k)' => Orphan(a, k)
  PROVE  PassKeys(q)'
<1>1. PassKeys(p) /\ p \in Passing /\ p.bucket \in Stores
  BY DEF PassInv, PassShape, Passing
<1>2. \A c \in Stores : Held(c)' = IF c = p.bucket THEN Held(c) \cup K ELSE Held(c)
  BY DEF Held, Has
<1>3. \A c \in Stores : \A k \in RollupKeys : Has(c, k)' => Closeable(q, k.day)
  BY <1>1 DEF PassKeys, Closeable
<1>4. \A a \in Stores : \A k \in RollupKeys : Orphan(a, k)' => Expired(q, k.day)
  BY <1>1 DEF PassKeys, Expired
<1>5. p.held \subseteq Held(p.bucket) /\ \A k \in Held(p.bucket) \ p.held :
         k.stem # Summary /\ <<k.day, k.stem>> \notin p.shards
  BY <1>1 DEF PassKeys
<1>6. q.held \subseteq Held(q.bucket)' /\ \A k \in Held(q.bucket)' \ q.held :
         k.stem # Summary /\ <<k.day, k.stem>> \notin q.shards
  BY <1>1, <1>2, <1>5
<1> QED
  BY <1>3, <1>4, <1>6 DEF PassKeys, Closeable, Expired

LEMMA FreezeStep ==
  ASSUME CountersInv, NEW n \in Compacting, FreezeShard(n), Alone(n)
  PROVE  BucketsOK' /\ KeysOK' /\ SummaryFinal' /\ CountsExact' /\ MirrorsAgree' /\ PassesOK'
<1> USE Constants
<1>1. ClockOK /\ BucketsOK /\ KeysOK /\ CountsExact /\ PassesOK
  BY DEF CountersInv
<1>2. Frame /\ UNCHANGED segments
  BY CompactFrame DEF FreezeShard, CompactStep
<1>3. PICK p : p = passes[n]
  OBVIOUS
<1>4. p.at = "store" /\ PassInv(p) /\ InBucket(p) /\ InFreeze(p)
  BY <1>1, <1>3 DEF FreezeShard, PassesOK, Idle, InBucket, InFreeze
<1>5. /\ p \in Passing /\ PassShape(p) /\ PassKeys(p) /\ PassListing(p) /\ PassFresh(p) /\ PassTotal(p)
      /\ p.asof \in Nat /\ p.asof <= today /\ today \in Nat
  BY <1>1, <1>4 DEF PassInv, PassShape, Passing, ClockOK
<1>6. p.total \in [key : Days \X Shards, of : Tallies] /\ p.total.key \in p.shards
  BY <1>4, <1>5 DEF PassTotal
<1>7. PICK x, k : x = p.total.key /\ k = Mine(p, x)
  OBVIOUS
<1>8. /\ p.bucket \in Stores /\ p.shards \subseteq Days \X Shards /\ p.unfinished \subseteq Days
      /\ p.held \subseteq RollupKeys /\ p.fresh \subseteq Days
  BY <1>5 DEF Passing
<1>9. x \in Days \X Shards /\ x[1] \in Days /\ x[2] \in Shards /\ x = <<x[1], x[2]>> /\ x \in p.shards
  BY <1>6, <1>7
<1>10. /\ k \in RollupKeys /\ k.author = p.bucket /\ k.day = x[1] /\ k.stem = x[2] /\ k.stem # Summary
       /\ k = key_of(x[1], x[2], p.bucket) /\ k \notin p.held
  <2>1. k = key_of(x[1], x[2], p.bucket)
    BY <1>7 DEF Mine
  <2>2. k \notin p.held
    BY <1>4, <1>5, <1>7 DEF PassTotal
  <2>3. k \in RollupKeys /\ k.author = p.bucket /\ k.day = x[1] /\ k.stem = x[2]
    BY <1>5, <1>7, <1>9, FrozenKey
  <2>4. x[2] # Summary
    BY <1>9
  <2> QED
    BY <2>1, <2>2, <2>3, <2>4
<1>11. Closeable(p, x[1]) /\ Closed(x[1])
  <2>1. Closeable(p, x[1])
    BY <1>4, <1>5, <1>7 DEF PassTotal
  <2> QED
    BY <1>5, <1>9, <2>1 DEF Closeable, Closed
<1>12. \/ /\ rollups' = [rollups EXCEPT ![p.bucket][k] = p.total.of]
          /\ passes' = [passes EXCEPT ![n] = [p EXCEPT !.at = "sweep",
                            !.held = @ \cup {k}, !.fresh = @ \cup {x[1]}]]
       \/ /\ rollups' \in {rollups, [rollups EXCEPT ![p.bucket][k] = p.total.of]}
          /\ passes' = [passes EXCEPT ![n] = [p EXCEPT !.at = "freeze",
                 !.shards = @ \ {x}, !.unfinished = @ \cup {x[1]}, !.total = Absent]]
  BY <1>3, <1>7, <1>10 DEF FreezeShard
<1>13. ~ Has(p.bucket, k)
  <2>1. <<k.day, k.stem>> \in p.shards
    BY <1>9, <1>10
  <2> QED
    BY <1>4, <1>10, <2>1, HeldHas
<1>14. ASSUME rollups' = [rollups EXCEPT ![p.bucket][k] = p.total.of]
       PROVE  /\ BucketsOK' /\ KeysOK' /\ SummaryFinal' /\ CountsExact' /\ MirrorsAgree'
              /\ \A c \in Stores : \A j \in RollupKeys : Has(c, j)' <=> Has(c, j) \/ (c = p.bucket /\ j \in {k})
              /\ \A a \in Stores : \A j \in RollupKeys : Orphan(a, j)' => Orphan(a, j)
  <2>4. PICK f : f = p.total.of
    OBVIOUS
  <2>5. f \in Tallies /\ f # Absent
    BY <1>6, <2>4, AbsentTally
  <2>7. rollups \in [Stores -> [RollupKeys -> Tallies \cup {Absent}]]
    BY <1>1 DEF BucketsOK
  <2>8. /\ rollups' \in [Stores -> [RollupKeys -> Tallies \cup {Absent}]]
        /\ rollups'[p.bucket][k] = f
        /\ \A c \in Stores : \A j \in RollupKeys : c # p.bucket \/ j # k => rollups'[c][j] = rollups[c][j]
    BY <1>8, <1>10, <1>14, <2>4, <2>5, <2>7
  <2>9. Writes(p.bucket, {k})
    BY <1>10, <1>11, <2>5, <2>8 DEF Writes
  <2>10. \A a \in Stores : Has(a, k) => Orphan(a, k)
    BY <1>10, <1>13 DEF Orphan
  <2>11. \A e \in Events \ (late \cup pruned) :
            k = key_of(dayOf[e], season.shard[e], p.bucket) => f[e] = landed[p.bucket][e]
    <3> SUFFICES ASSUME NEW e \in Events \ (late \cup pruned),
                        k = key_of(dayOf[e], season.shard[e], p.bucket)
                 PROVE  f[e] = landed[p.bucket][e]
      OBVIOUS
    <3>1. dayOf[e] = k.day /\ season.shard[e] = k.stem
      BY DEF key_of
    <3>2. <<dayOf[e], season.shard[e]>> = p.total.key
      BY <1>7, <1>9, <1>10, <3>1
    <3> QED
      BY <1>4, <1>5, <2>4, <3>2 DEF PassTotal
  <2>12. \A seg : key_of(SegDay(seg), Summary, p.bucket) # k
    BY <1>10 DEF key_of
  <2>13. Kept(k) => \A a \in Stores : ~ Has(a, k)
    BY <1>1, <1>10, <2>10 DEF KeysOK
  <2>14. WritesSound(p.bucket, {k})
    BY <1>10, <2>8, <2>11, <2>12, <2>13 DEF WritesSound
  <2>15. PICK b, K : b = p.bucket /\ K = {k}
    OBVIOUS
  <2>16. /\ BucketsOK' /\ KeysOK' /\ SummaryFinal' /\ CountsExact' /\ MirrorsAgree'
         /\ \A c \in Stores : \A j \in RollupKeys : Has(c, j)' <=> Has(c, j) \/ (c = b /\ j \in K)
         /\ \A a \in Stores : \A j \in RollupKeys : Orphan(a, j)' => Orphan(a, j)
    BY <1>2, <1>8, <1>10, <2>9, <2>14, <2>15, Grow
  <2> QED
    BY <2>15, <2>16
<1>15. ASSUME NEW q, q = [p EXCEPT !.at = "freeze", !.shards = p.shards \ {x},
                               !.unfinished = p.unfinished \cup {x[1]}, !.total = Absent]
       PROVE  /\ q.at = "freeze" /\ q.asof = p.asof /\ q.mesh = p.mesh /\ q.todo = p.todo
              /\ q.bucket = p.bucket /\ q.listed = p.listed /\ q.held = p.held /\ q.fresh = p.fresh
              /\ q.unfinished = p.unfinished \cup {x[1]} /\ q.shards = p.shards \ {x} /\ q \in Passing
              /\ PassShape(q) /\ PassListing(q) /\ PassTotal(q) /\ PassFresh(q)
  <2>3. /\ q.at = "freeze" /\ q.asof = p.asof /\ q.mesh = p.mesh /\ q.todo = p.todo
        /\ q.bucket = p.bucket /\ q.listed = p.listed /\ q.held = p.held /\ q.fresh = p.fresh
        /\ q.unfinished = p.unfinished \cup {x[1]} /\ q.shards = p.shards \ {x} /\ q \in Passing
    BY <1>5, <1>8, <1>9, <1>15 DEF Passing
  <2>4. PassShape(q)
    BY <1>4, <1>5, <2>3 DEF PassShape, InBucket
  <2>6. PassListing(q)
    <3>1. \A seg \in p.listed : \/ <<SegDay(seg), SegShard(seg)>> \in q.shards
                                \/ Mine(p, <<SegDay(seg), SegShard(seg)>>) \in p.held
                                \/ SegDay(seg) \in q.unfinished
      BY <1>4, <1>5, <1>9, <2>3 DEF PassListing
    <3> QED
      BY <1>4, <1>5, <2>3, <3>1 DEF PassListing, Closeable, Mine, InFreeze
  <2>7. PassTotal(q)
    BY <2>3 DEF PassTotal
  <2>8. PassFresh(q)
    BY <1>4, <1>5, <2>3 DEF PassFresh, Closeable, MySummary, Mine
  <2> QED
    BY <2>3, <2>4, <2>6, <2>7, <2>8
<1>16. CASE /\ rollups' \in {rollups, [rollups EXCEPT ![p.bucket][k] = p.total.of]}
            /\ passes' = [passes EXCEPT ![n] = [p EXCEPT !.at = "freeze",
                   !.shards = @ \ {x}, !.unfinished = @ \cup {x[1]}, !.total = Absent]]
  <2>1. PICK q : q = [p EXCEPT !.at = "freeze", !.shards = p.shards \ {x},
                         !.unfinished = p.unfinished \cup {x[1]}, !.total = Absent]
    OBVIOUS
  <2>2. DOMAIN passes' = Compacting /\ passes'[n] = q
    BY <1>1, <1>16, <2>1 DEF PassesOK
  <2>3. /\ q.at = "freeze" /\ q.asof = p.asof /\ q.mesh = p.mesh /\ q.todo = p.todo
        /\ q.bucket = p.bucket /\ q.listed = p.listed /\ q.held = p.held /\ q.fresh = p.fresh
        /\ q.unfinished = p.unfinished \cup {x[1]} /\ q.shards = p.shards \ {x} /\ q \in Passing
    BY <1>15, <2>1
  <2>4. PassShape(q) /\ PassListing(q) /\ PassTotal(q) /\ PassFresh(q)
    BY <1>15, <2>1
  <2>5. CASE UNCHANGED rollups
    <3>1. PassKeys(q)
      BY <1>4, <1>5, <2>3 DEF PassKeys, Closeable, Expired
    <3> QED
      BY <1>2, <2>2, <2>4, <2>5, <3>1, PassFrame, OnePass, StillFrame DEF PassInv
  <2>6. CASE rollups' = [rollups EXCEPT ![p.bucket][k] = p.total.of]
    <3>1. PICK K : K = {k}
      OBVIOUS
    <3>2. /\ BucketsOK' /\ KeysOK' /\ SummaryFinal' /\ CountsExact' /\ MirrorsAgree'
          /\ \A c \in Stores : \A j \in RollupKeys : Has(c, j)' <=> Has(c, j) \/ (c = p.bucket /\ j \in K)
          /\ \A a \in Stores : \A j \in RollupKeys : Orphan(a, j)' => Orphan(a, j)
      BY <1>14, <2>6, <3>1
    <3>3. PassKeys(q)'
      <4>1. /\ K \in SUBSET RollupKeys /\ \A j \in K : Closeable(p, j.day)
            /\ p.held \subseteq q.held /\ q.held \subseteq p.held \cup K /\ q.shards \subseteq p.shards
            /\ \A j \in K \ q.held : j.stem # Summary /\ <<j.day, j.stem>> \notin q.shards
        BY <1>9, <1>10, <1>11, <2>3, <3>1
      <4>2. q.asof = p.asof /\ q.bucket = p.bucket
        BY <2>3
      <4> QED
        BY <1>2, <1>4, <3>2, <4>1, <4>2, PassKeysWrite
    <3>4. PassShape(q)'
      BY <1>2, <2>4 DEF PassShape, Frame
    <3>5. PassListing(q)'
      BY <1>2, <2>4, FrameSegs DEF Frame, PassListing, Mine
    <3>6. PassTotal(q)'
      BY <2>3 DEF PassTotal
    <3>7. PassFresh(q)'
      BY <1>2, <2>4 DEF Frame, PassFresh, Current
    <3> QED
      BY <2>2, <3>2, <3>3, <3>4, <3>5, <3>6, <3>7, OnePass DEF PassInv
  <2> QED
    BY <1>16, <2>5, <2>6
<1>17. CASE /\ rollups' = [rollups EXCEPT ![p.bucket][k] = p.total.of]
            /\ passes' = [passes EXCEPT ![n] = [p EXCEPT !.at = "sweep",
                              !.held = @ \cup {k}, !.fresh = @ \cup {x[1]}]]
  <2>1. PICK q : q = [p EXCEPT !.at = "sweep", !.held = p.held \cup {k}, !.fresh = p.fresh \cup {x[1]}]
    OBVIOUS
  <2>2. DOMAIN passes' = Compacting /\ passes'[n] = q
    BY <1>1, <1>17, <2>1 DEF PassesOK
  <2>3. /\ q.at = "sweep" /\ q.asof = p.asof /\ q.mesh = p.mesh /\ q.todo = p.todo
        /\ q.bucket = p.bucket /\ q.listed = p.listed /\ q.held = p.held \cup {k}
        /\ q.fresh = p.fresh \cup {x[1]} /\ q.unfinished = p.unfinished /\ q.shards = p.shards
        /\ q.total = p.total /\ q \in Passing
    BY <1>5, <1>8, <1>9, <1>10, <2>1 DEF Passing
  <2>15. PICK K : K = {k}
    OBVIOUS
  <2>16. /\ BucketsOK' /\ KeysOK' /\ SummaryFinal' /\ CountsExact' /\ MirrorsAgree'
         /\ \A c \in Stores : \A j \in RollupKeys : Has(c, j)' <=> Has(c, j) \/ (c = p.bucket /\ j \in K)
         /\ \A a \in Stores : \A j \in RollupKeys : Orphan(a, j)' => Orphan(a, j)
    BY <1>14, <1>17, <2>15
  <2>17. PassShape(q)'
    BY <1>2, <1>4, <1>5, <2>3 DEF PassShape, InBucket, Frame
  <2>18. PassKeys(q)'
    <3>1. /\ K \in SUBSET RollupKeys /\ \A j \in K : Closeable(p, j.day)
          /\ p.held \subseteq q.held /\ q.held \subseteq p.held \cup K /\ q.shards \subseteq p.shards
          /\ \A j \in K \ q.held : j.stem # Summary /\ <<j.day, j.stem>> \notin q.shards
      BY <1>10, <1>11, <2>3, <2>15
    <3>2. q.asof = p.asof /\ q.bucket = p.bucket
      BY <2>3
    <3> QED
      BY <1>2, <1>4, <2>16, <3>1, <3>2, PassKeysWrite
  <2>19. PassListing(q)'
    <3>1. /\ \A seg \in q.listed : SegOK(seg)
          /\ \A seg \in segments[q.bucket] : \A e \in seg.events :
                Closeable(q, dayOf[e]) /\ e \notin late /\ (InFreeze(q) \/ ~ season.late) => seg \in q.listed
          /\ \A seg \in q.listed : \/ <<SegDay(seg), SegShard(seg)>> \in q.shards
                                   \/ Mine(q, <<SegDay(seg), SegShard(seg)>>) \in q.held
                                   \/ SegDay(seg) \in q.unfinished \/ q.at = "retain"
      BY <1>4, <1>5, <2>3 DEF PassListing, Closeable, Mine, InFreeze
    <3> QED
      BY <1>2, <3>1, FrameSegs DEF Frame, PassListing, Mine
  <2>20. PassTotal(q)'
    BY <1>6, <1>7, <2>3 DEF PassTotal, Mine
  <2>21. PassFresh(q)'
    <3>1. \A d \in q.fresh : Closeable(q, d)
      BY <1>4, <1>5, <1>11, <2>3 DEF PassFresh, Closeable
    <3>2. \A d \in Days : MySummary(q, d) # k /\ MySummary(q, d) = MySummary(p, d)
      <4> SUFFICES ASSUME NEW d \in Days
                   PROVE  MySummary(q, d) # k /\ MySummary(q, d) = MySummary(p, d)
        OBVIOUS
      <4>1. key_of(d, Summary, p.bucket).stem = Summary
        BY <1>8, KeyFacts
      <4> QED
        BY <1>10, <2>3, <4>1 DEF MySummary
    <3>3. ASSUME ~ season.late, NEW d \in q.fresh, Current(d)
          PROVE  MySummary(q, d) \notin q.held
      <4>1. d \in Days
        BY <1>8, <1>9, <2>3, <3>3
      <4>2. MySummary(p, d) \notin p.held
        BY <1>4, <1>5, <1>7, <1>9, <1>10, <2>3, <3>3 DEF PassFresh
      <4> QED
        BY <2>3, <3>2, <4>1, <4>2
    <3>4. ASSUME ~ season.late, NEW y \in q.shards, Current(y[1]), MySummary(q, y[1]) \in q.held
          PROVE  Mine(q, y) \in q.held
      <4>1. y[1] \in Days /\ y \in p.shards
        BY <1>8, <2>3
      <4> QED
        BY <1>4, <1>5, <2>3, <3>2, <3>4, <4>1 DEF PassFresh, Mine
    <3> QED
      BY <1>2, <3>1, <3>3, <3>4 DEF PassFresh, Frame, Closeable, MySummary, Mine, Current
  <2>22. PassInv(q)'
    BY <2>17, <2>18, <2>19, <2>20, <2>21 DEF PassInv
  <2> QED
    BY <2>2, <2>16, <2>22, OnePass
<1> QED
  BY <1>12, <1>16, <1>17

\* What a summary adds up.
LEMMA SummaryTally ==
  ASSUME BucketsOK, ClockOK, NEW b \in Stores, NEW d \in Days
  PROVE  write_summary(b, d) \in Tallies
<1> USE Constants
<1>1. \A e \in Events : Counted(b, key_of(d, season.shard[e], b), e) \in Nat
  <2> SUFFICES ASSUME NEW e \in Events
               PROVE  Counted(b, key_of(d, season.shard[e], b), e) \in Nat
    OBVIOUS
  <2>1. season.shard[e] \in Shards
    BY DEF ClockOK
  <2>2. key_of(d, season.shard[e], b) \in RollupKeys
    BY <2>1, KeyFacts
  <2>3. rollups[b][key_of(d, season.shard[e], b)] \in Tallies \cup {Absent}
    BY <2>2 DEF BucketsOK
  <2> QED
    BY <2>3 DEF Counted, Tallies
<1> QED
  BY <1>1 DEF write_summary, Tallies

LEMMA SummarizeStep ==
  ASSUME CountersInv, NEW n \in Compacting, Summarize(n), Alone(n)
  PROVE  BucketsOK' /\ KeysOK' /\ SummaryFinal' /\ CountsExact' /\ MirrorsAgree' /\ PassesOK'
<1> USE Constants
<1>1. ClockOK /\ BucketsOK /\ KeysOK /\ CountsExact /\ PassesOK
  BY DEF CountersInv
<1>2. Frame /\ UNCHANGED segments
  BY CompactFrame DEF Summarize, CompactStep
<1>3. PICK p : p = passes[n]
  OBVIOUS
<1>4. /\ p.at = "freeze" /\ PassInv(p) /\ InBucket(p) /\ InFreeze(p)
      /\ \A y \in p.shards : ~ Closeable(p, y[1])
  <2>1. p.at = "freeze" /\ {y \in p.shards : Closeable(p, y[1])} = {}
    BY <1>3 DEF Summarize
  <2> QED
    BY <1>1, <1>3, <2>1 DEF PassesOK, Idle, InBucket, InFreeze
<1>5. /\ p \in Passing /\ PassShape(p) /\ PassKeys(p) /\ PassListing(p) /\ PassFresh(p)
      /\ p.asof \in Nat /\ p.asof <= today /\ today \in Nat
  BY <1>1, <1>4 DEF PassInv, PassShape, Passing, ClockOK
<1>6. /\ p.bucket \in Stores /\ p.held \subseteq RollupKeys /\ p.fresh \subseteq Days
  BY <1>5 DEF Passing
<1>7. PICK T : T = ToSummarize(p)
  OBVIOUS
<1>8. PICK K : K = {k \in RollupKeys : k.stem = Summary /\ k.author = p.bucket /\ k.day \in T}
  OBVIOUS
<1>9. \/ /\ rollups' = [rollups EXCEPT ![p.bucket] = [k \in RollupKeys |->
                    IF k.stem = Summary /\ k.author = p.bucket /\ k.day \in T
                    THEN write_summary(p.bucket, k.day) ELSE @[k]]]
         /\ passes' = [passes EXCEPT ![n] = [p EXCEPT !.at = "retain",
                    !.held = @ \cup {key_of(d, Summary, p.bucket) : d \in T}]]
      \/ /\ UNCHANGED rollups
         /\ passes' = [passes EXCEPT ![n].at = "retain"]
  BY <1>3, <1>7 DEF Summarize
<1>10. CASE /\ UNCHANGED rollups
            /\ passes' = [passes EXCEPT ![n].at = "retain"]
  <2>1. PICK q : q = [p EXCEPT !.at = "retain"]
    OBVIOUS
  <2>2. DOMAIN passes' = Compacting /\ passes'[n] = q
    BY <1>1, <1>3, <1>10, <2>1 DEF PassesOK
  <2>3. /\ q.at = "retain" /\ q.asof = p.asof /\ q.mesh = p.mesh /\ q.todo = p.todo
        /\ q.bucket = p.bucket /\ q.listed = p.listed /\ q.held = p.held /\ q \in Passing
        /\ q.shards = p.shards
    BY <1>5, <2>1 DEF Passing
  <2>4. PassShape(q)
    BY <1>4, <1>5, <2>3 DEF PassShape, InBucket
  <2>5. PassKeys(q)
    BY <1>4, <1>5, <2>3 DEF PassKeys, Closeable, Expired
  <2>6. PassListing(q)
    BY <1>4, <1>5, <2>3 DEF PassListing, Closeable, InFreeze
  <2>7. PassTotal(q) /\ PassFresh(q)
    BY <2>3 DEF PassTotal, PassFresh, InFreeze
  <2> QED
    BY <1>2, <1>10, <2>2, <2>4, <2>5, <2>6, <2>7, PassFrame, OnePass, StillFrame DEF PassInv
<1>11. CASE /\ rollups' = [rollups EXCEPT ![p.bucket] = [k \in RollupKeys |->
                    IF k.stem = Summary /\ k.author = p.bucket /\ k.day \in T
                    THEN write_summary(p.bucket, k.day) ELSE @[k]]]
            /\ passes' = [passes EXCEPT ![n] = [p EXCEPT !.at = "retain",
                    !.held = @ \cup {key_of(d, Summary, p.bucket) : d \in T}]]
  <2>1. \A d \in T : /\ d \in Days /\ d \notin p.unfinished /\ Closeable(p, d)
                     /\ d \in p.fresh \/ (~ Expired(p, d) /\ MySummary(p, d) \notin p.held)
    <3> SUFFICES ASSUME NEW d \in T
                 PROVE  /\ d \in Days /\ d \notin p.unfinished /\ Closeable(p, d)
                        /\ d \in p.fresh \/ (~ Expired(p, d) /\ MySummary(p, d) \notin p.held)
      OBVIOUS
    <3>1. d \notin p.unfinished /\ (d \in p.fresh \/ \E k \in Own(p, p.bucket) :
             k.day = d /\ ~ Expired(p, k.day) /\ key_of(k.day, Summary, p.bucket) \notin p.held)
      BY <1>7 DEF ToSummarize
    <3>2. CASE d \in p.fresh
      BY <1>4, <1>5, <1>6, <3>1, <3>2 DEF PassFresh
    <3>3. CASE d \notin p.fresh
      <4>1. PICK k \in p.held :
               k.day = d /\ ~ Expired(p, k.day) /\ key_of(k.day, Summary, p.bucket) \notin p.held
        BY <3>1, <3>3 DEF Own
      <4>2. k \in RollupKeys /\ Has(p.bucket, k)
        BY <1>4, <1>6, <4>1, HeldHas
      <4>3. Closeable(p, k.day) /\ k.day \in Days
        BY <1>5, <1>6, <4>2, KeyParts DEF PassKeys
      <4> QED
        BY <3>1, <4>1, <4>3 DEF MySummary
    <3> QED
      BY <3>2, <3>3
  <2>2. {key_of(d, Summary, p.bucket) : d \in T} = K
    <3>1. \A d \in T : key_of(d, Summary, p.bucket) \in K
      BY <1>6, <1>8, <2>1, KeyFacts
    <3>2. \A k \in K : \E d \in T : k = key_of(d, Summary, p.bucket)
      BY <1>8, KeyParts
    <3> QED
      BY <3>1, <3>2
  <2>3. K \in SUBSET RollupKeys
    BY <1>8
  <2>4. PICK q : q = [p EXCEPT !.at = "retain", !.held = p.held \cup K]
    OBVIOUS
  <2>5. DOMAIN passes' = Compacting /\ passes'[n] = q
    BY <1>1, <1>11, <2>2, <2>4 DEF PassesOK
  <2>6. /\ q.at = "retain" /\ q.asof = p.asof /\ q.mesh = p.mesh /\ q.todo = p.todo
        /\ q.bucket = p.bucket /\ q.listed = p.listed /\ q.held = p.held \cup K /\ q \in Passing
        /\ q.shards = p.shards
    BY <1>5, <1>6, <2>3, <2>4 DEF Passing
  <2>7. rollups \in [Stores -> [RollupKeys -> Tallies \cup {Absent}]]
    BY <1>1 DEF BucketsOK
  <2>8. \A k \in K : k.day \in T /\ k.day \in Days /\ write_summary(p.bucket, k.day) \in Tallies
    BY <1>1, <1>6, <1>8, <2>1, SummaryTally
  <2>9. /\ rollups' = [rollups EXCEPT ![p.bucket] = [k \in RollupKeys |->
                IF k \in K THEN write_summary(p.bucket, k.day) ELSE rollups[p.bucket][k]]]
    BY <1>8, <1>11
  <2>10. /\ rollups' \in [Stores -> [RollupKeys -> Tallies \cup {Absent}]]
         /\ \A k \in K : rollups'[p.bucket][k] = write_summary(p.bucket, k.day)
         /\ \A c \in Stores : \A k \in RollupKeys : c # p.bucket \/ k \notin K => rollups'[c][k] = rollups[c][k]
    BY <1>6, <2>3, <2>7, <2>8, <2>9
  <2>11. \A k \in K : Closeable(p, k.day) /\ Closed(k.day)
    <3> SUFFICES ASSUME NEW k \in K
                 PROVE  Closeable(p, k.day) /\ Closed(k.day)
      OBVIOUS
    <3>1. Closeable(p, k.day) /\ k.day \in Nat
      BY <2>1, <2>8
    <3> QED
      BY <1>5, <3>1 DEF Closeable, Closed
  <2>12. Writes(p.bucket, K)
    BY <2>8, <2>10, <2>11, AbsentTally DEF Writes
  <2>13. \A k \in K : k.author = p.bucket /\ k.stem = Summary /\ k \in RollupKeys
    BY <1>8
  <2>14. ASSUME ~ season.late, NEW seg \in segments[p.bucket], key_of(SegDay(seg), Summary, p.bucket) \in K
         PROVE  rollups'[p.bucket][key_of(SegDay(seg), SegShard(seg), p.bucket)] # Absent
    <3>1. SegOK(seg)
      BY <1>1, <1>6 DEF BucketsOK
    <3>2. Rep(seg) \in seg.events /\ Rep(seg) \in Events /\ dayOf[Rep(seg)] = SegDay(seg)
      BY <3>1, SegFacts DEF SegOK, Segs
    <3>3. SegDay(seg) \in T /\ SegDay(seg) \in Days /\ SegShard(seg) \in Shards
      <4>1. key_of(SegDay(seg), Summary, p.bucket).day = SegDay(seg)
        BY DEF key_of
      <4> QED
        BY <1>1, <2>8, <2>14, <3>1, <3>2, <4>1, SegFacts DEF ClockOK
    <3>4. late = {}
      BY <1>1, <2>14 DEF BucketsOK
    <3>5. seg \in p.listed
      BY <1>4, <1>5, <2>1, <2>14, <3>2, <3>3, <3>4 DEF PassListing
    <3>6. \/ <<SegDay(seg), SegShard(seg)>> \in p.shards
          \/ Mine(p, <<SegDay(seg), SegShard(seg)>>) \in p.held
          \/ SegDay(seg) \in p.unfinished
      BY <1>4, <1>5, <3>5 DEF PassListing
    <3>7. SegDay(seg) \notin p.unfinished /\ Closeable(p, SegDay(seg))
      BY <2>1, <3>3
    <3>8. <<SegDay(seg), SegShard(seg)>> \notin p.shards
      BY <1>4, <3>7
    <3>9. PICK j : j = key_of(SegDay(seg), SegShard(seg), p.bucket)
      OBVIOUS
    <3>10. j \in p.held
      BY <3>6, <3>7, <3>8, <3>9 DEF Mine
    <3>11. j \in RollupKeys /\ j.stem # Summary
      BY <1>6, <3>3, <3>9, KeyFacts
    <3>12. Has(p.bucket, j)
      BY <1>4, <3>10, <3>11, HeldHas
    <3> QED
      BY <1>6, <2>10, <2>13, <3>9, <3>11, <3>12 DEF Has
  <2>15. \A k \in K : \A e \in Events : k # key_of(dayOf[e], season.shard[e], p.bucket)
    <3> SUFFICES ASSUME NEW k \in K, NEW e \in Events
                 PROVE  k # key_of(dayOf[e], season.shard[e], p.bucket)
      OBVIOUS
    <3>1. key_of(dayOf[e], season.shard[e], p.bucket).stem = season.shard[e]
      BY DEF key_of
    <3>2. season.shard[e] # Summary
      BY <1>1 DEF ClockOK
    <3> QED
      BY <2>13, <3>1, <3>2
  <2>16. ASSUME NEW k \in K, ~ season.late, Kept(k), NEW a \in Stores
         PROVE  ~ Has(a, k)
    <3>1. k = MySummary(p, k.day) /\ k.day \in T /\ k \in RollupKeys /\ k.author = p.bucket
      BY <2>8, <2>13, KeyParts DEF MySummary
    <3>2. Current(k.day)
      BY <2>16 DEF Kept, Current
    <3>3. k \notin p.held
      BY <1>4, <1>5, <2>1, <2>16, <3>1, <3>2 DEF PassFresh
    <3>4. ~ Has(p.bucket, k)
      BY <1>4, <2>13, <3>1, <3>3, HeldHas
    <3> QED
      BY <1>1, <2>16, <3>1, <3>4 DEF KeysOK, Orphan
  <2>17. WritesSound(p.bucket, K)
    BY <2>13, <2>14, <2>15, <2>16 DEF WritesSound
  <2>18. /\ BucketsOK' /\ KeysOK' /\ SummaryFinal' /\ CountsExact' /\ MirrorsAgree'
         /\ \A c \in Stores : \A k \in RollupKeys : Has(c, k)' <=> Has(c, k) \/ (c = p.bucket /\ k \in K)
         /\ \A a \in Stores : \A k \in RollupKeys : Orphan(a, k)' => Orphan(a, k)
    <3>1. PICK b : b = p.bucket
      OBVIOUS
    <3>2. /\ BucketsOK' /\ KeysOK' /\ SummaryFinal' /\ CountsExact' /\ MirrorsAgree'
          /\ \A c \in Stores : \A k \in RollupKeys : Has(c, k)' <=> Has(c, k) \/ (c = b /\ k \in K)
          /\ \A a \in Stores : \A k \in RollupKeys : Orphan(a, k)' => Orphan(a, k)
      BY <1>2, <1>6, <2>3, <2>12, <2>17, <3>1, Grow
    <3> QED
      BY <3>1, <3>2
  <2>19. PassShape(q)'
    BY <1>2, <1>4, <1>5, <2>6 DEF PassShape, InBucket, Frame
  <2>20. PassKeys(q)'
    <3>1. /\ q.asof = p.asof /\ q.bucket = p.bucket /\ q.shards \subseteq p.shards
          /\ p.held \subseteq q.held /\ q.held \subseteq p.held \cup K /\ K \ q.held = {}
      BY <2>6
    <3>2. \A k \in K : Closeable(p, k.day)
      BY <2>11
    <3> QED
      BY <1>2, <1>4, <2>3, <2>18, <3>1, <3>2, PassKeysWrite
  <2>21. PassListing(q)'
    <3>1. /\ \A seg \in q.listed : SegOK(seg)
          /\ \A seg \in segments[q.bucket] : \A e \in seg.events :
                Closeable(q, dayOf[e]) /\ e \notin late /\ (InFreeze(q) \/ ~ season.late) => seg \in q.listed
      BY <1>4, <1>5, <2>6 DEF PassListing, Closeable, InFreeze
    <3> QED
      BY <1>2, <2>6, <3>1, FrameSegs DEF Frame, PassListing
  <2>22. PassTotal(q)' /\ PassFresh(q)'
    BY <2>6 DEF PassTotal, PassFresh, InFreeze
  <2>23. PassInv(q)'
    BY <2>19, <2>20, <2>21, <2>22 DEF PassInv
  <2> QED
    BY <2>5, <2>18, <2>23, OnePass
<1> QED
  BY <1>9, <1>10, <1>11

LEMMA ReseedStep ==
  ASSUME CountersInv, NEW n \in Compacting, Reseed(n), Alone(n)
  PROVE  BucketsOK' /\ KeysOK' /\ SummaryFinal' /\ CountsExact' /\ MirrorsAgree' /\ PassesOK'
<1> USE Constants
<1>1. ClockOK /\ BucketsOK /\ KeysOK /\ SummaryFinal /\ CountsExact /\ MirrorsAgree /\ PassesOK
  BY DEF CountersInv
<1>2. Frame /\ UNCHANGED segments
  BY CompactFrame DEF Reseed, CompactStep
<1>3. PICK p : p = passes[n]
  OBVIOUS
<1>4. p.at = "reseed" /\ PassInv(p)
  BY <1>1, <1>3 DEF Reseed, PassesOK, Idle
<1>5. p \in Passing /\ PassShape(p) /\ PassKeys(p)
  BY <1>4 DEF PassInv, PassShape
<1>a. PICK b \in DOMAIN p.mesh : \E k \in Missing(p, b) :
         /\ passes' = [passes EXCEPT ![n].mesh[b] = @ \cup {k}]
         /\ \/ rollups' = IF rollups[SourceOf(p, k)][k] = Absent THEN rollups
                          ELSE [rollups EXCEPT ![b][k] = rollups[SourceOf(p, k)][k]]
            \/ UNCHANGED rollups
  BY <1>3, Zenon DEF Reseed
<1>b. PICK k \in Missing(p, b) :
         /\ passes' = [passes EXCEPT ![n].mesh[b] = @ \cup {k}]
         /\ \/ rollups' = IF rollups[SourceOf(p, k)][k] = Absent THEN rollups
                          ELSE [rollups EXCEPT ![b][k] = rollups[SourceOf(p, k)][k]]
            \/ UNCHANGED rollups
  BY <1>a
<1>6. PICK source :
         /\ source = SourceOf(p, k)
         /\ passes' = [passes EXCEPT ![n].mesh[b] = @ \cup {k}]
         /\ \/ rollups' = IF rollups[source][k] = Absent THEN rollups
                          ELSE [rollups EXCEPT ![b][k] = rollups[source][k]]
            \/ UNCHANGED rollups
  BY <1>b
<1>7. /\ DOMAIN p.mesh \subseteq Stores /\ p.mesh \in [DOMAIN p.mesh -> SUBSET RollupKeys]
      /\ b \in Stores
  BY <1>5, <1>6 DEF Passing
<1>8. /\ k \in RollupKeys /\ k \notin p.mesh[b] /\ ~ Expired(p, k.day)
      /\ source \in DOMAIN p.mesh /\ source \in Stores
  <2>1. PICK a \in DOMAIN p.mesh : k \in p.mesh[a]
    BY <1>6 DEF Missing
  <2>2. source \in DOMAIN p.mesh
    BY <1>6, <2>1 DEF SourceOf
  <2> QED
    BY <1>6, <1>7, <2>1, <2>2 DEF Missing
<1>9. PICK mesh : mesh = [p.mesh EXCEPT ![b] = p.mesh[b] \cup {k}]
  OBVIOUS
<1>10. PICK q : q = [p EXCEPT !.mesh = mesh]
  OBVIOUS
<1>11. DOMAIN passes' = Compacting /\ passes'[n] = q
  BY <1>1, <1>3, <1>6, <1>9, <1>10 DEF PassesOK
<1>12. /\ DOMAIN mesh = DOMAIN p.mesh /\ mesh \in [DOMAIN p.mesh -> SUBSET RollupKeys]
       /\ \A c \in DOMAIN p.mesh : mesh[c] = IF c = b THEN p.mesh[c] \cup {k} ELSE p.mesh[c]
  BY <1>6, <1>7, <1>8, <1>9
<1>13. /\ q.at = "reseed" /\ q.asof = p.asof /\ q.mesh = mesh /\ q.todo = p.todo /\ q.bucket = p.bucket
       /\ q \in Passing
  <2>1. mesh \in UNION {[D -> SUBSET RollupKeys] : D \in SUBSET Stores}
    BY <1>7, <1>12
  <2> QED
    BY <1>4, <1>5, <1>10, <2>1 DEF Passing
<1>14. PassShape(q)
  BY <1>5, <1>12, <1>13 DEF PassShape, InBucket
<1>15. CASE UNCHANGED rollups
  <2>1. PassKeys(q)
    BY <1>5, <1>13 DEF PassKeys, InBucket, Closeable, Expired
  <2>2. PassInv(q)
    BY <1>13, <1>14, <2>1 DEF PassInv, PassListing, PassTotal, PassFresh, InBucket, InFreeze
  <2> QED
    BY <1>2, <1>11, <1>15, <2>2, PassFrame, OnePass, StillFrame
<1>16. CASE Has(source, k) /\ rollups' = [rollups EXCEPT ![b][k] = rollups[source][k]]
  <2>1. Has(k.author, k) /\ k.author \in Stores
    BY <1>5, <1>8, <1>16, KeyParts DEF PassKeys, Orphan
  <2>4. PICK f : f = rollups[source][k]
    OBVIOUS
  <2>5. rollups \in [Stores -> [RollupKeys -> Tallies \cup {Absent}]] /\ f \in Tallies \cup {Absent} /\ f # Absent
    BY <1>1, <1>8, <1>16, <2>4 DEF BucketsOK, Has
  <2>6. /\ rollups' \in [Stores -> [RollupKeys -> Tallies \cup {Absent}]] /\ rollups'[b][k] = f
        /\ \A c \in Stores : \A j \in RollupKeys : c # b \/ j # k => rollups'[c][j] = rollups[c][j]
    BY <1>7, <1>8, <1>16, <2>4, <2>5
  <2>7. Closed(k.day)
    BY <1>1, <1>8, <1>16 DEF KeysOK
  <2>8. PICK K : K = {k}
    OBVIOUS
  <2>9. Writes(b, K) /\ K \in SUBSET RollupKeys
    BY <1>8, <2>5, <2>6, <2>7, <2>8 DEF Writes
  <2>10. Kept(k) /\ (k.stem # Summary \/ ~ season.late) =>
            \A a \in Stores : ~ Has(a, k) \/ rollups[a][k] = f
    <3>1. Kept(k) /\ (k.stem # Summary \/ ~ season.late) => Agree(k)
      BY <1>1, <1>8 DEF MirrorsAgree
    <3> QED
      BY <1>8, <2>4, <2>5, <3>1 DEF Agree, Has
  <2>11. ASSUME NEW e \in Events \ (late \cup pruned), k = key_of(dayOf[e], season.shard[e], b)
         PROVE  f[e] = landed[b][e]
    <3>1. k.day = dayOf[e] /\ k.stem = season.shard[e] /\ k.author = b
      BY <2>11 DEF key_of
    <3>2. season.shard[e] # Summary /\ dayOf[e] \in Days
      BY <1>1, <1>8, <3>1, KeyParts DEF ClockOK
    <3>3. Kept(k)
      BY <1>1, <3>1, <3>2 DEF ClockOK, Kept
    <3>4. rollups[b][k] = f /\ rollups[b][k] # Absent
      BY <1>7, <2>1, <2>10, <3>1, <3>2, <3>3 DEF Has
    <3> QED
      BY <1>1, <1>7, <2>11, <3>2, <3>4 DEF CountsExact, FrozenBy
  <2>a. ASSUME ~ season.late, NEW seg \in segments[b], Current(SegDay(seg)),
               k = key_of(SegDay(seg), Summary, b)
        PROVE  rollups'[b][key_of(SegDay(seg), SegShard(seg), b)] # Absent
    <3>1. PICK j : j = key_of(SegDay(seg), SegShard(seg), b)
      OBVIOUS
    <3>2. k.day = SegDay(seg) /\ k.stem = Summary /\ k.author = b
      BY <2>a DEF key_of
    <3>3. SegDay(seg) \in Days /\ SegShard(seg) \in Shards
      <4>1. SegOK(seg) /\ Rep(seg) \in Events
        BY <1>1, <1>7, SegFacts DEF BucketsOK, SegOK, Segs
      <4> QED
        BY <1>1, <1>8, <3>2, <4>1, KeyParts, SegFacts DEF ClockOK
    <3>4. j \in RollupKeys /\ j # k
      <4>1. j \in RollupKeys /\ j.stem = SegShard(seg)
        BY <1>7, <3>1, <3>3, KeyFacts
      <4> QED
        BY <3>2, <3>3, <4>1
    <3>5. Has(b, j)
      BY <1>1, <1>7, <2>1, <2>a, <3>1, <3>2 DEF SummaryFinal
    <3> QED
      BY <1>7, <2>6, <3>1, <3>4, <3>5 DEF Has
  <2>12. WritesSound(b, K)
    BY <2>1, <2>6, <2>8, <2>10, <2>11, <2>a DEF WritesSound
  <2>13. /\ BucketsOK' /\ KeysOK' /\ SummaryFinal' /\ CountsExact' /\ MirrorsAgree'
         /\ \A c \in Stores : \A j \in RollupKeys : Has(c, j)' <=> Has(c, j) \/ (c = b /\ j \in K)
         /\ \A a \in Stores : \A j \in RollupKeys : Orphan(a, j)' => Orphan(a, j)
    BY <1>2, <1>7, <2>9, <2>12, Grow
  <2>14. PassShape(q)'
    BY <1>2, <1>14 DEF PassShape, Frame
  <2>15. Closeable(p, k.day)
    BY <1>5, <1>8, <1>16 DEF PassKeys
  <2>16. PassKeys(q)'
    <3>1. \A c \in Stores : \A j \in RollupKeys : Has(c, j)' => Closeable(q, j.day)
      BY <1>5, <1>13, <2>8, <2>13, <2>15 DEF PassKeys, Closeable
    <3>2. \A a \in Stores : \A j \in RollupKeys : Orphan(a, j)' => Expired(q, j.day)
      BY <1>5, <1>13, <2>13 DEF PassKeys, Expired
    <3> QED
      BY <1>13, <3>1, <3>2 DEF PassKeys, InBucket, Closeable, Expired
  <2>17. PassInv(q)'
    BY <1>13, <2>14, <2>16 DEF PassInv, PassListing, PassTotal, PassFresh, InBucket, InFreeze
  <2> QED
    BY <1>11, <2>13, <2>17, OnePass
<1> QED
  BY <1>6, <1>15, <1>16 DEF Has

-----------------------------------------------------------------------------
(* Retention.                                                               *)

LEMMA RetainStep ==
  ASSUME CountersInv, NEW n \in Compacting, Retain(n), Alone(n)
  PROVE  BucketsOK' /\ KeysOK' /\ SummaryFinal' /\ CountsExact' /\ MirrorsAgree' /\ PassesOK'
<1> USE Constants
<1>1. ClockOK /\ BucketsOK /\ KeysOK /\ SummaryFinal /\ CountsExact /\ MirrorsAgree /\ PassesOK
  BY DEF CountersInv
<1>2. Frame
  BY CompactFrame DEF CompactStep
<1>3. PICK p : p = passes[n]
  OBVIOUS
<1>4. p.at = "retain" /\ PassInv(p) /\ InBucket(p)
  BY <1>1, <1>3 DEF Retain, PassesOK, Idle, InBucket
<1>5. /\ p \in Passing /\ PassShape(p) /\ PassKeys(p) /\ PassListing(p)
      /\ p.asof \in Nat /\ p.asof <= today /\ today \in Nat
  BY <1>1, <1>4 DEF PassInv, PassShape, Passing, ClockOK
<1>6. PICK b, stale, old :
         /\ b = p.bucket /\ stale = {k \in p.held : Expired(p, k.day)}
         /\ old = {seg \in p.listed : Expired(p, SegDay(seg))}
  OBVIOUS
<1>7. /\ b \in Stores /\ p.held \subseteq RollupKeys /\ b \notin p.todo /\ b \notin DOMAIN p.mesh
      /\ DOMAIN p.mesh \subseteq Stores /\ p.mesh \in [DOMAIN p.mesh -> SUBSET RollupKeys]
  BY <1>4, <1>5, <1>6 DEF Passing, PassShape
<1>8. PICK mesh : mesh = [c \in DOMAIN p.mesh \cup {b} |-> IF c = b THEN p.held \ stale ELSE p.mesh[c]]
  OBVIOUS
<1>9. PICK q : q = [p EXCEPT !.at = IF p.todo = {} THEN "reseed" ELSE "list", !.mesh = mesh,
                    !.listed = {}, !.held = {}, !.fresh = {}, !.unfinished = {}, !.shards = {}]
  OBVIOUS
<1>a. PICK keys \in SUBSET stale, gone \in SUBSET old :
         /\ rollups' = [rollups EXCEPT ![b] = [k \in RollupKeys |->
                            IF k \in keys THEN Absent ELSE rollups[b][k]]]
         /\ segments' = [segments EXCEPT ![b] = segments[b] \ gone]
  <2>1. PICK keys \in SUBSET {k \in passes[n].held : Expired(passes[n], k.day)},
             gone \in SUBSET {seg \in passes[n].listed : Expired(passes[n], SegDay(seg))} :
          /\ rollups' = [rollups EXCEPT ![passes[n].bucket] = [k \in RollupKeys |->
                             IF k \in keys THEN Absent ELSE rollups[passes[n].bucket][k]]]
          /\ segments' = [segments EXCEPT ![passes[n].bucket] = segments[passes[n].bucket] \ gone]
    BY Zenon DEF Retain
  <2>2. keys \in SUBSET stale /\ gone \in SUBSET old /\ passes[n].bucket = b
    BY <1>3, <1>6, <2>1
  <2> QED
    BY <2>1, <2>2
<1>10. /\ rollups' = [rollups EXCEPT ![b] = [k \in RollupKeys |->
                          IF k \in keys THEN Absent ELSE rollups[b][k]]]
       /\ segments' = [segments EXCEPT ![b] = segments[b] \ gone]
       /\ passes' = [passes EXCEPT ![n] = q]
  <2>1. passes' = [passes EXCEPT ![n] = q]
    BY <1>3, <1>6, <1>8, <1>9 DEF Retain
  <2> QED
    BY <1>a, <2>1
<1>11. DOMAIN passes' = Compacting /\ passes'[n] = q
  BY <1>1, <1>10 DEF PassesOK
<1>12. /\ segments \in [Stores -> SUBSET Segs] /\ rollups \in [Stores -> [RollupKeys -> Tallies \cup {Absent}]]
  BY <1>1 DEF BucketsOK
<1>13. /\ \A c \in Stores : segments'[c] = IF c = b THEN segments[c] \ gone ELSE segments[c]
       /\ segments' \in [Stores -> SUBSET Segs]
  BY <1>7, <1>10, <1>12
<1>14. /\ \A c \in Stores : \A k \in RollupKeys :
             rollups'[c][k] = IF c = b /\ k \in keys THEN Absent ELSE rollups[c][k]
       /\ rollups' \in [Stores -> [RollupKeys -> Tallies \cup {Absent}]]
  BY <1>7, <1>10, <1>12
<1>15. \A k \in keys : Expired(p, k.day)
  BY <1>6, <1>a
<1>16. \A c \in Stores : \A k \in RollupKeys : Has(c, k)' <=> Has(c, k) /\ ~ (c = b /\ k \in keys)
  BY <1>14 DEF Has
<1>17. \A a \in Stores : \A k \in RollupKeys : Orphan(a, k)' =>
          Has(a, k) /\ Expired(p, k.day)
  <2> SUFFICES ASSUME NEW a \in Stores, NEW k \in RollupKeys, Orphan(a, k)'
               PROVE  Has(a, k) /\ Expired(p, k.day)
    OBVIOUS
  <2>1. k.author \in Stores
    BY KeyParts
  <2>2. Has(a, k)' /\ ~ Has(k.author, k)'
    BY DEF Orphan, Has
  <2>3. CASE Has(k.author, k)
    BY <1>15, <1>16, <2>1, <2>2, <2>3
  <2>4. CASE ~ Has(k.author, k)
    BY <1>5, <1>16, <2>1, <2>2, <2>4 DEF Orphan, PassKeys
  <2> QED
    BY <2>3, <2>4
<1>18. \A c \in Stores : segments'[c] \subseteq segments[c]
  BY <1>13
<1>19. \A k \in RollupKeys : Expired(p, k.day) => ~ Kept(k)
  <2> SUFFICES ASSUME NEW k \in RollupKeys, Expired(p, k.day)
               PROVE  ~ Kept(k)
    OBVIOUS
  <2>1. k.day \in Nat
    BY KeyParts
  <2> QED
    BY <1>5, <2>1 DEF Expired, Kept
<1>20. \A e \in Events \ pruned : ~ Expired(p, dayOf[e])
  <2> SUFFICES ASSUME NEW e \in Events \ pruned
               PROVE  ~ Expired(p, dayOf[e])
    OBVIOUS
  <2>1. dayOf[e] \in Nat /\ ~ (dayOf[e] + RetentionDays < today)
    BY <1>1 DEF ClockOK
  <2> QED
    BY <1>5, <2>1 DEF Expired
<1>21. BucketsOK'
  <2>1. \A c \in Stores : IsFiniteSet(segments'[c])
    BY <1>1, <1>18, FS_Subset DEF BucketsOK
  <2>2. \A c \in Stores : \A seg \in segments'[c] : SegOK(seg) /\ seg.nth < landed[c][Rep(seg)]
    BY <1>1, <1>18 DEF BucketsOK
  <2> QED
    BY <1>1, <1>2, <1>13, <1>14, <2>1, <2>2, FrameSegs DEF BucketsOK, Frame
<1>22. KeysOK'
  <2>1. \A c \in Stores : \A k \in RollupKeys : Has(c, k)' => Closed(k.day)
    BY <1>1, <1>16 DEF KeysOK
  <2>2. \A a \in Stores : \A k \in RollupKeys : Orphan(a, k)' => ~ Kept(k)
    BY <1>17, <1>19
  <2> QED
    BY <1>2, <2>1, <2>2 DEF KeysOK, Frame, Closed, Kept
<1>23. SummaryFinal'
  <2> SUFFICES ASSUME ~ season.late, NEW c \in Stores, NEW seg \in segments'[c], NEW u, NEW v,
                      u = key_of(SegDay(seg), Summary, c), v = key_of(SegDay(seg), SegShard(seg), c),
                      Current(SegDay(seg)), Has(c, u)'
               PROVE  Has(c, v)'
    BY <1>2, FrameSegs DEF SummaryFinal, Frame, Has, Current
  <2>1. seg \in segments[c] /\ SegOK(seg) /\ Rep(seg) \in Events /\ dayOf[Rep(seg)] # Unborn
    BY <1>1, <1>18, SegFacts DEF BucketsOK, SegOK, Segs
  <2>2. SegDay(seg) \in Days /\ SegShard(seg) \in Shards
    BY <1>1, <2>1, SegFacts DEF ClockOK
  <2>3. u \in RollupKeys /\ u.day = SegDay(seg) /\ v \in RollupKeys /\ v.day = SegDay(seg)
    BY <2>2, KeyFacts
  <2>4. Has(c, u) /\ v \notin keys
    BY <1>15, <1>16, <1>19, <2>3 DEF Current, Kept
  <2>5. Has(c, v)
    BY <1>1, <2>1, <2>4 DEF SummaryFinal
  <2> QED
    BY <1>16, <2>3, <2>4, <2>5
<1>24. CountsExact'
  <2> SUFFICES ASSUME NEW c \in Stores, NEW e \in Events \ (late \cup pruned)
               PROVE  landed[c][e] =
                        IF dayOf[e] \in Days /\ rollups'[c][key_of(dayOf[e], season.shard[e], c)] # Absent
                        THEN rollups'[c][key_of(dayOf[e], season.shard[e], c)][e]
                        ELSE sum_segments(segments'[c])[e]
    BY <1>2 DEF Frame, CountsExact, FrozenBy, sum_segments
  <2>1. PICK k : k = key_of(dayOf[e], season.shard[e], c)
    OBVIOUS
  <2>2. landed[c][e] = IF dayOf[e] \in Days /\ rollups[c][k] # Absent
                       THEN rollups[c][k][e] ELSE sum_segments(segments[c])[e]
    BY <1>1, <2>1 DEF CountsExact, FrozenBy
  <2>3. dayOf[e] \in Days => rollups'[c][k] = rollups[c][k]
    <3> SUFFICES ASSUME dayOf[e] \in Days
                 PROVE  rollups'[c][k] = rollups[c][k]
      OBVIOUS
    <3>1. k \in RollupKeys /\ k.day = dayOf[e]
      BY <1>1, <2>1, KeyFacts DEF ClockOK
    <3> QED
      BY <1>14, <1>15, <1>20, <3>1
  <2>4. PICK S, T : S = segments[c] /\ T = segments'[c]
    OBVIOUS
  <2>5. \A seg \in S : e \in seg.events => seg \in T
    <3> SUFFICES ASSUME NEW seg \in segments[c], e \in seg.events
                 PROVE  seg \in segments'[c]
      BY <2>4
    <3>1. SegDay(seg) = dayOf[e]
      BY <1>1 DEF BucketsOK, SegOK
    <3> QED
      BY <1>6, <1>a, <1>13, <1>20, <3>1
  <2>6. \A seg \in T : e \in seg.events => seg \in S
    BY <1>18, <2>4
  <2>7. e \in Events
    OBVIOUS
  <2>8. sum_segments(S)[e] = sum_segments(T)[e]
    <3>1. {seg \in S : e \in seg.events} = {seg \in T : e \in seg.events}
      BY <2>5, <2>6
    <3> QED
      BY <2>7, <3>1, Counts
  <2> QED
    BY <2>1, <2>2, <2>3, <2>4, <2>8
<1>25. MirrorsAgree'
  <2> SUFFICES ASSUME NEW k \in RollupKeys, Kept(k) /\ (k.stem # Summary \/ ~ season.late)
               PROVE  Agree(k)'
    BY <1>2 DEF MirrorsAgree, Frame, Kept
  <2>1. Agree(k)
    BY <1>1 DEF MirrorsAgree
  <2> QED
    BY <1>14, <2>1 DEF Agree
<1>26. /\ DOMAIN mesh = DOMAIN p.mesh \cup {b} /\ mesh[b] = p.held \ stale
       /\ \A c \in DOMAIN p.mesh : mesh[c] = p.mesh[c]
       /\ mesh \in [DOMAIN p.mesh \cup {b} -> SUBSET RollupKeys]
  BY <1>7, <1>8
<1>27. /\ q.at \in {"reseed", "list"} /\ q.asof = p.asof /\ q.mesh = mesh /\ q.todo = p.todo
       /\ q \in Passing
  <2>1. mesh \in UNION {[D -> SUBSET RollupKeys] : D \in SUBSET Stores}
    <3>1. DOMAIN p.mesh \cup {b} \in SUBSET Stores
      BY <1>7
    <3> QED
      BY <1>26, <3>1
  <2> QED
    BY <1>5, <1>9, <2>1 DEF Passing
<1>28. PassShape(q)'
  BY <1>2, <1>5, <1>7, <1>26, <1>27 DEF PassShape, InBucket, Frame
<1>29. PassKeys(q)'
  <2>1. \A c \in Stores : \A k \in RollupKeys : Has(c, k)' => Closeable(q, k.day)
    BY <1>5, <1>16, <1>27 DEF PassKeys, Closeable
  <2>2. \A a \in Stores : \A k \in RollupKeys : Orphan(a, k)' => Expired(q, k.day)
    BY <1>17, <1>27 DEF Expired
  <2> QED
    BY <1>27, <2>1, <2>2 DEF PassKeys, InBucket, Closeable, Expired
<1>30. PassInv(q)'
  BY <1>27, <1>28, <1>29 DEF PassInv, PassListing, PassTotal, PassFresh, InBucket, InFreeze
<1> QED
  BY <1>11, <1>21, <1>22, <1>23, <1>24, <1>25, <1>30, OnePass

-----------------------------------------------------------------------------
(* The counters as a whole.                                                 *)

LEMMA QuietNode ==
  ASSUME CountersInv, NEW n \in Counting, NEW e \in Events,
         Record(n, e) \/ FlushStart(n) \/ DropUnprovable(n) \/ FlushEnd(n)
  PROVE  Quiet
<1> USE Constants
<1>1. ClockOK
  BY DEF CountersInv
<1>2. /\ season \in Seasons /\ season.last \in 0..MaxDay /\ today \in 0..season.last /\ today \in Nat
      /\ dayOf \in [Events -> 0..Unborn]
  BY <1>1, CountersAssumption DEF ClockOK
<1>3. CASE Record(n, e)
  BY <1>2, <1>3 DEF Record, Quiet
<1>4. CASE FlushStart(n) \/ DropUnprovable(n) \/ FlushEnd(n)
  <2>1. UNCHANGED <<season, segments, rollups, passes, landed, late, today, dayOf, pruned>>
    BY <1>4 DEF FlushStart, DropUnprovable, FlushEnd
  <2> QED
    BY <1>2, <2>1 DEF Quiet
<1> QED
  BY <1>3, <1>4

LEMMA QuietWorld ==
  ASSUME CountersInv, NextDay \/ QueryFrozen \/ QueryOpen
  PROVE  Quiet
<1> USE Constants
<1>1. ClockOK
  BY DEF CountersInv
<1>2. /\ season \in Seasons /\ season.last \in 0..MaxDay /\ today \in 0..season.last /\ today \in Nat
      /\ dayOf \in [Events -> 0..Unborn]
  BY <1>1, CountersAssumption DEF ClockOK
<1>3. CASE NextDay
  BY <1>2, <1>3 DEF NextDay, Quiet
<1>4. CASE QueryFrozen \/ QueryOpen
  <2>1. UNCHANGED <<season, segments, rollups, passes, landed, late, today, dayOf, pruned>>
    BY <1>4 DEF QueryFrozen, QueryOpen
  <2> QED
    BY <1>2, <2>1 DEF Quiet
<1> QED
  BY <1>3, <1>4

LEMMA StutterStep ==
  ASSUME CountersInv, UNCHANGED counterVars
  PROVE  CountersInv'
<1>1. UNCHANGED <<season, today, dayOf, buffer, flushing, verdicts, segments, rollups, passes, landed, late,
                  pruned, dropped, mishaps>>
  BY DEF counterVars
<1>2. ClockOK'
  BY <1>1 DEF CountersInv, ClockOK
<1>3. MemoryOK'
  BY <1>1 DEF CountersInv, MemoryOK, Holding, Closed, OnlyLandingConsumes, Unflushed
<1>4. Quiet
  BY <1>1, Constants DEF CountersInv, ClockOK, Quiet
<1> QED
  BY <1>2, <1>3, <1>4, QuietStep DEF CountersInv

\* Until passes overlap, the node that takes a step of its pass is the only one with a pass.
LEMMA PassAlone ==
  ASSUME CountersInv, ~ overlapped', NEW n \in Compacting, CompactStart(n) \/ CompactStep(n)
  PROVE  Alone(n)
<1>1. DOMAIN passes = Compacting /\ RunsAlone
  BY DEF CountersInv, PassesOK
<1>2. \A m \in Compacting \ {n} : passes'[m] = passes[m]
  <2>1. CASE CompactStart(n) \/ CompactList(n) \/ SweepFrozen(n) \/ SumShard(n) \/ FreezeShard(n)
    BY <1>1, <2>1 DEF CompactStart, CompactList, SweepFrozen, SumShard, FreezeShard
  <2>2. CASE SweepShard(n) \/ Summarize(n) \/ Retain(n) \/ Reseed(n) \/ CompactEnd(n)
    BY <1>1, <2>2 DEF SweepShard, Summarize, Retain, Reseed, CompactEnd
  <2> QED
    BY <2>1, <2>2 DEF CompactStep
<1>3. CASE CompactStart(n)
  BY <1>2, <1>3 DEF CompactStart, Alone
<1>4. CASE CompactStep(n)
  <2>1. passes[n] # Idle
    <3>1. CASE CompactList(n) \/ SweepFrozen(n) \/ SumShard(n)
      <4>1. passes[n].at \in {"list", "freeze"}
        BY <3>1, Zenon DEF CompactList, SweepFrozen, SumShard
      <4> QED
        BY <4>1 DEF Idle
    <3>2. CASE FreezeShard(n) \/ SweepShard(n) \/ Summarize(n)
      <4>1. passes[n].at \in {"store", "sweep", "freeze"}
        BY <3>2, Zenon DEF FreezeShard, SweepShard, Summarize
      <4> QED
        BY <4>1 DEF Idle
    <3>3. CASE Retain(n)
      BY <3>3 DEF Retain, Idle
    <3>4. CASE Reseed(n)
      <4>1. passes[n].at = "reseed"
        BY <3>4, Zenon DEF Reseed
      <4> QED
        BY <4>1 DEF Idle
    <3>5. CASE CompactEnd(n)
      BY <3>5, Zenon DEF CompactEnd
    <3> QED
      BY <1>4, <3>1, <3>2, <3>3, <3>4, <3>5 DEF CompactStep
  <2> QED
    BY <1>1, <1>2, <2>1 DEF RunsAlone, Alone
<1> QED
  BY <1>3, <1>4

LEMMA CountersInductive ==
  ASSUME CountersInv, ~ overlapped', CountersNext
  PROVE  CountersInv'
<1>1. ClockOK' /\ MemoryOK'
  BY ClockStep, MemoryStep DEF CountersInv
<1>2. ASSUME NEW n \in Counting, \/ \E e \in Events : Record(n, e)
                                 \/ FlushStart(n) \/ DropUnprovable(n) \/ FlushPut(n) \/ FlushEnd(n)
      PROVE  BucketsOK' /\ KeysOK' /\ SummaryFinal' /\ CountsExact' /\ MirrorsAgree' /\ PassesOK'
  <2>1. CASE FlushPut(n)
    BY <2>1, PutStep
  <2>2. CASE \/ \E e \in Events : Record(n, e)
             \/ FlushStart(n) \/ DropUnprovable(n) \/ FlushEnd(n)
    <3>1. PICK e \in Events : Record(n, e) \/ FlushStart(n) \/ DropUnprovable(n) \/ FlushEnd(n)
      BY <2>2, CountersAssumption
    <3>2. Quiet
      BY <3>1, QuietNode
    <3> QED
      BY <3>2, QuietStep
  <2> QED
    BY <1>2, <2>1, <2>2
<1>3. ASSUME NEW n \in Compacting, CompactStart(n) \/ CompactStep(n)
      PROVE  BucketsOK' /\ KeysOK' /\ SummaryFinal' /\ CountsExact' /\ MirrorsAgree' /\ PassesOK'
  <2>a. Alone(n)
    BY <1>3, PassAlone
  <2>1. CASE CompactStart(n)
    BY <2>a, <2>1, StartStep
  <2>2. CASE CompactList(n)
    BY <2>a, <2>2, ListStep
  <2>3. CASE SweepFrozen(n)
    BY <2>a, <2>3, SweepFrozenStep
  <2>4. CASE SumShard(n)
    BY <2>a, <2>4, SumStep
  <2>5. CASE FreezeShard(n)
    BY <2>a, <2>5, FreezeStep
  <2>6. CASE SweepShard(n)
    BY <2>a, <2>6, SweepShardStep
  <2>7. CASE Summarize(n)
    BY <2>a, <2>7, SummarizeStep
  <2>8. CASE Retain(n)
    BY <2>a, <2>8, RetainStep
  <2>9. CASE Reseed(n)
    BY <2>a, <2>9, ReseedStep
  <2>10. CASE CompactEnd(n)
    BY <2>a, <2>10, EndStep
  <2> QED
    BY <1>3, <2>1, <2>2, <2>3, <2>4, <2>5, <2>6, <2>7, <2>8, <2>9, <2>10 DEF CompactStep
<1>4. ASSUME NextDay \/ QueryFrozen \/ QueryOpen
      PROVE  BucketsOK' /\ KeysOK' /\ SummaryFinal' /\ CountsExact' /\ MirrorsAgree' /\ PassesOK'
  <2>1. Quiet
    BY <1>4, QuietWorld
  <2> QED
    BY <2>1, QuietStep
<1>5. BucketsOK' /\ KeysOK' /\ SummaryFinal' /\ CountsExact' /\ MirrorsAgree' /\ PassesOK'
  BY <1>2, <1>3, <1>4 DEF CountersNext, CompactStep
<1> QED
  BY <1>1, <1>5 DEF CountersInv

LEMMA CountersStart ==
  ASSUME CountersInit
  PROVE  CountersInv
<1> USE Constants
<1>1. season \in Seasons /\ season.last \in 0..MaxDay /\ season.mishaps \in Nat
  BY CountersAssumption DEF CountersInit
<1>2. \A e \in Events : dayOf[e] = Unborn
  BY DEF CountersInit
<1>3. ClockOK
  BY <1>1, <1>2 DEF CountersInit, ClockOK
<1>4. MemoryOK
  <2>1. /\ \A n \in Counting : Holding(n) = {}
        /\ \A n \in Counting : verdicts[n].fake = {}
    BY DEF CountersInit, Holding
  <2>2. buffer \in [Counting -> SUBSET Events] /\ flushing \in [Counting -> Flights]
    BY DEF CountersInit, Flights
  <2>3. OnlyLandingConsumes
    BY <1>2 DEF OnlyLandingConsumes
  <2>4. /\ \A n \in Counting : flushing[n].failed \subseteq flushing[n].owed
        /\ \A n \in Counting : flushing[n].at = "idle" => flushing[n].owed = {}
        /\ DOMAIN verdicts = Counting /\ landed \in [Stores -> [Events -> Nat]]
    BY DEF CountersInit
  <2> QED
    BY <2>1, <2>2, <2>3, <2>4 DEF MemoryOK
<1>5. /\ \A b \in Stores : segments[b] = {}
      /\ \A b \in Stores : \A k \in RollupKeys : ~ Has(b, k) /\ ~ Orphan(b, k)
  BY DEF CountersInit, Has, Orphan
<1>6. BucketsOK
  <2>1. \A b \in Stores : IsFiniteSet(segments[b])
    BY <1>5, FS_EmptySet
  <2> QED
    BY <1>5, <2>1 DEF CountersInit, BucketsOK
<1>7. KeysOK /\ SummaryFinal
  BY <1>5 DEF KeysOK, SummaryFinal
<1>8. CountsExact
  <2> SUFFICES ASSUME NEW b \in Stores, NEW e \in Events
               PROVE  landed[b][e] = IF dayOf[e] \in Days /\ FrozenBy(b, e)
                                     THEN rollups[b][key_of(dayOf[e], season.shard[e], b)][e]
                                     ELSE sum_segments(segments[b])[e]
    BY DEF CountsExact
  <2>1. dayOf[e] \notin Days
    BY <1>2
  <2>2. {seg \in segments[b] : e \in seg.events} = {}
    BY <1>5
  <2>3. sum_segments(segments[b])[e] = 0
    BY <2>2, FS_EmptySet DEF sum_segments
  <2>4. landed[b][e] = 0
    BY DEF CountersInit
  <2> QED
    BY <2>1, <2>3, <2>4
<1>9. MirrorsAgree
  BY DEF CountersInit, MirrorsAgree, Agree
<1>10. PassesOK
  BY DEF CountersInit, PassesOK, RunsAlone
<1> QED
  BY <1>3, <1>4, <1>6, <1>7, <1>8, <1>9, <1>10 DEF CountersInv

\* What holds whether passes overlap or not, and what holds until they do.
CountersIInv == ClockOK /\ MemoryOK /\ (~ overlapped => CountersInv)

LEMMA CountersIInvSafe ==
  ASSUME CountersIInv
  PROVE  CountersSafe
<1> USE Constants
<1>1. ClockOK /\ MemoryOK /\ OnlyLandingConsumes
  BY DEF CountersIInv, MemoryOK
<1>2. season.last \in 0..MaxDay
  BY <1>1, CountersAssumption DEF ClockOK
<1>3. today \in Days /\ mishaps \in 0..season.mishaps /\ dayOf \in [Events -> 0..Unborn]
  BY <1>1, <1>2 DEF ClockOK
<1>4. /\ \A m, n \in Counting : m # n =>
            (buffer[m] \cup flushing[m].owed) \cap (buffer[n] \cup flushing[n].owed) = {}
      /\ \A n \in Counting : flushing[n].failed \subseteq flushing[n].owed
  BY <1>1 DEF MemoryOK, Holding
<1>5. CountersTypeOK
  BY <1>3, <1>4 DEF CountersTypeOK
<1>6. ASSUME ~ overlapped
      PROVE  StoresTyped /\ CountsExact /\ MirrorsAgree
  <2>1. BucketsOK /\ CountsExact /\ MirrorsAgree
    BY <1>6 DEF CountersIInv, CountersInv
  <2> QED
    BY <2>1 DEF StoresTyped, BucketsOK, SegOK
<1> QED
  BY <1>1, <1>5, <1>6 DEF CountersSafe

LEMMA CountersIInvStep ==
  ASSUME CountersIInv, [CountersNext]_counterVars
  PROVE  CountersIInv'
<1>1. CASE UNCHANGED counterVars
  <2>1. UNCHANGED <<season, today, dayOf, buffer, flushing, verdicts, landed, pruned, dropped,
                    mishaps, overlapped>>
    BY <1>1 DEF counterVars
  <2>2. ClockOK'
    BY <2>1 DEF CountersIInv, ClockOK
  <2>3. MemoryOK'
    BY <2>1 DEF CountersIInv, MemoryOK, Holding, Closed, OnlyLandingConsumes, Unflushed
  <2> QED
    BY <1>1, <2>1, <2>2, <2>3, StutterStep DEF CountersIInv
<1>2. CASE CountersNext
  <2>1. ClockOK' /\ MemoryOK'
    BY <1>2, ClockStep, MemoryStep DEF CountersIInv
  <2>2. ~ overlapped' => ~ overlapped
    <3>1. ASSUME NEW n \in Counting, NEW e \in Events, Record(n, e) \/ FlushStep(n)
          PROVE  overlapped' = overlapped
      BY <3>1 DEF Record, FlushStep, FlushStart, DropUnprovable, FlushPut, FlushEnd
    <3>2. ASSUME NEW n \in Compacting, CompactStep(n)
          PROVE  overlapped' = overlapped
      BY <3>2 DEF CompactStep, CompactList, SweepFrozen, SumShard, FreezeShard, SweepShard,
                  Summarize, Retain, Reseed, CompactEnd
    <3>3. ASSUME NEW n \in Compacting, CompactStart(n)
          PROVE  ~ overlapped' => ~ overlapped
      BY <3>3 DEF CompactStart
    <3>4. ASSUME NextDay \/ QueryFrozen \/ QueryOpen
          PROVE  overlapped' = overlapped
      BY <3>4 DEF NextDay, QueryFrozen, QueryOpen
    <3>5. Events # {}
      BY CountersAssumption
    <3> QED
      BY <1>2, <3>1, <3>2, <3>3, <3>4, <3>5 DEF CountersNext, FlushStep, CompactStep
  <2> QED
    BY <1>2, <2>1, <2>2, CountersInductive DEF CountersIInv
<1> QED
  BY <1>1, <1>2

(* counters.rs, "only a landed PUT ever consumes counts", "a crash mid-compaction can
   neither double-count nor shrink a total" and "two buckets never hold different bytes
   for one key", for every number of nodes, buckets, downloads, days and failed or lost
   operations, with late flushes or without: a download stays in some node's memory until
   a segment holds it, whatever the passes do; and until one node begins a pass while
   another's is running, every bucket counts it exactly as often as it landed there
   whether its day-shard is frozen or not, and the copies of a kept rollup agree. *)
THEOREM CountersHold == CountersSpec => []CountersSafe
<1>1. CountersInit => CountersIInv
  BY CountersStart DEF CountersIInv, CountersInv
<1>2. CountersIInv /\ [CountersNext]_counterVars => CountersIInv'
  BY CountersIInvStep
<1>3. CountersIInv => CountersSafe
  BY CountersIInvSafe
<1> QED
  BY <1>1, <1>2, <1>3, PTL DEF CountersSpec

-----------------------------------------------------------------------------
(* The quarantined set: its inductive invariant.                            *)

Home == selected[Leader]
\* No node has moved: every task is on one bucket.
Still == left.switches = course.switches \/ Cardinality(InUse) = 1

Bodies == [names : SUBSET Projects, epoch : Nat \ {0}, tag : Nat]
Stages == {"arm", "read", "reread", "cas", "peers", "adopt", "done", "failed"}
Publishes(kind, N, B) ==
    [at : Stages, kind : {kind}, on : InUse, name : N, blocked : BOOLEAN, walked : SUBSET Projects,
     base : B, have : SUBSET Projects, behind : BOOLEAN, next : SUBSET Projects, epoch : Nat, tag : Nat,
     stored : Nat]
Bases == [names : SUBSET Projects, epoch : Nat]
SweepName == CHOOSE p \in Projects : TRUE

WorldOK ==
    /\ course \in Courses
    /\ left \in [edits : [Projects -> Nat], sweeps : Nat, switches : Nat, faults : Nat]
    /\ \A p \in Projects : left.edits[p] <= course.edits[p]
    /\ left.sweeps <= course.sweeps /\ left.switches <= course.switches
    /\ status \in [Projects -> BOOLEAN] /\ dirty \subseteq Projects
    /\ selected \in [Gates -> InUse] /\ shelf \in [InUse -> Bodies]
    /\ live \in [Gates -> [names : SUBSET Projects, epoch : Nat, tag : Nat, pending : BOOLEAN]]
    /\ DOMAIN edit = Gates /\ DOMAIN poll = Gates
    /\ Still => \A n \in Gates : selected[n] = Home

\* A set and its epoch, as seen from the shelves: not ahead of all of them, and at home
\* the very set that the bucket holds at that epoch.
Backed(names, epoch) ==
    /\ \E b \in InUse : epoch <= shelf[b].epoch
    /\ Still => epoch <= shelf[Home].epoch /\ (epoch = shelf[Home].epoch => names = shelf[Home].names)
LiveOK ==
    /\ \A n \in Gates : \E b \in InUse : live[n].epoch <= shelf[b].epoch
    /\ \A n \in Gates : Still => live[n].epoch <= shelf[Home].epoch
    /\ \A n \in Gates : Still /\ ~ live[n].pending => Backed(live[n].names, live[n].epoch)
    /\ \A n \in Gates : poll[n] = NoTask \/ /\ poll[n] \in [at : {"read"}, body : Bodies]
                                            /\ Backed(poll[n].body.names, poll[n].body.epoch)

\* What a publish remembers of the body it read and of the one it wrote.
TaskOK(t) ==
    /\ Still => t.on = Home
    /\ t.at \in {"reread", "cas"} =>
          /\ t.stored <= shelf[t.on].epoch /\ t.tag <= shelf[t.on].tag
          /\ t.stored = shelf[t.on].epoch \/ t.tag = shelf[t.on].tag =>
                /\ t.stored = shelf[t.on].epoch /\ t.tag = shelf[t.on].tag
                /\ ~ t.behind => t.have = shelf[t.on].names
          /\ Still => ~ t.behind
    /\ t.at = "cas" => t.epoch > t.stored
    /\ t.at \in {"peers", "adopt"} =>
          t.epoch <= shelf[t.on].epoch /\ (t.epoch = shelf[t.on].epoch => t.next = shelf[t.on].names)
OneName(t) == t.at = "cas" => \A q \in Projects \ {t.name} : q \in t.next <=> q \in t.have
EditOK(n) ==
    \A t \in {edit[n]} : t = NoTask \/ /\ t \in Publishes("one", Projects, {{}}) /\ t.at # "reread"
                                       /\ TaskOK(t) /\ OneName(t)
WorkOK ==
    \A t \in {work} : t = NoTask \/ /\ t \in Publishes("derive", Projects, {{}}) /\ t.at # "arm"
                                    /\ TaskOK(t) /\ OneName(t)
Walked == sweep # NoTask /\ sweep.at # "walk"
SweepOK ==
    \A t \in {sweep} :
       \/ t = NoTask
       \/ /\ t.at = "walk" /\ t \in [at : {"walk"}, base : Bodies, on : InUse]
          /\ Still => t.on = Home
       \/ /\ t \in Publishes("sweep", {SweepName}, Bases) /\ t.at \notin {"arm", "reread"} /\ TaskOK(t)
          /\ Still /\ t.at = "cas" => \A p \in Projects :
                \/ p \in t.next <=> p \in t.have
                \/ (p \in t.have <=> p \in t.base.names) /\ (p \in t.next <=> p \in t.walked)
BaseOK ==
    sweep # NoTask =>
        /\ left.sweeps < course.sweeps
        /\ Still => /\ sweep.base.epoch <= shelf[Home].epoch
                    /\ sweep.base.epoch = shelf[Home].epoch => sweep.base.names = shelf[Home].names

\* A change of p that is not yet derived: a handler or a marker will see to it.
Editing(p) == \E n \in Gates : edit[n] # NoTask /\ edit[n].name = p
Owed(p) == p \in dirty \/ Editing(p)
Deriving(p) == work # NoTask /\ work.name = p
Right(names, p) == p \in names <=> status[p]
Untouched(p) ==
    /\ Right(shelf[Home].names, p) /\ ~ Owed(p) /\ ~ Deriving(p)
    /\ sweep # NoTask => Right(sweep.base.names, p)
    /\ Walked => Right(sweep.walked, p)
TruthOK(p) ==
    /\ left.edits[p] = course.edits[p] => Untouched(p)
    /\ Walked => Right(sweep.walked, p) \/ ~ Right(sweep.base.names, p)
    /\ \/ Right(shelf[Home].names, p) \/ Owed(p)
       \/ Deriving(p) /\ work.at \in {"read", "reread", "cas", "failed"}
    /\ Deriving(p) =>
          /\ (work.blocked <=> status[p]) \/ Owed(p)
          /\ work.at = "cas" => Right(work.next, p) \/ Owed(p)
          /\ work.at = "reread" => \/ Right(shelf[Home].names, p) \/ Owed(p)
                                   \/ p \in work.have <=> p \in shelf[Home].names
QuarantineInv ==
    /\ WorldOK /\ LiveOK /\ (\A n \in Gates : EditOK(n)) /\ WorkOK /\ SweepOK /\ BaseOK
    /\ Still => \A p \in Projects : Churned(p) \/ TruthOK(p)

-----------------------------------------------------------------------------
(* Steps that only raise shelves keep what is known of them.                *)

Rise ==
    /\ course' = course /\ (Still' => Still /\ Home' = Home)
    /\ shelf' \in [InUse -> Bodies]
    /\ \A b \in InUse : \/ shelf'[b] = shelf[b]
                        \/ shelf'[b].epoch > shelf[b].epoch /\ shelf'[b].tag > shelf[b].tag

LEMMA HomeInUse ==
  ASSUME WorldOK
  PROVE  Home \in InUse /\ Leader \in Gates
  BY QuarantineAssumption DEF WorldOK, Home

LEMMA ShelfTypes ==
  ASSUME WorldOK, NEW b \in InUse
  PROVE  shelf[b].names \subseteq Projects /\ shelf[b].epoch \in Nat \ {0} /\ shelf[b].tag \in Nat
  BY DEF WorldOK, Bodies

LEMMA RiseTypes ==
  ASSUME Rise, NEW b \in InUse
  PROVE  shelf'[b].names \subseteq Projects /\ shelf'[b].epoch \in Nat \ {0} /\ shelf'[b].tag \in Nat
  BY DEF Rise, Bodies

LEMMA BackedRise ==
  ASSUME WorldOK, Rise, NEW names, NEW epoch \in Nat, Backed(names, epoch)
  PROVE  Backed(names, epoch)'
<1>1. InUse' = InUse /\ Home \in InUse
  BY HomeInUse DEF Rise, InUse
<1>2. \A b \in InUse : \/ shelf'[b] = shelf[b]
                       \/ shelf'[b].epoch > shelf[b].epoch /\ shelf'[b].epoch \in Nat /\ shelf[b].epoch \in Nat
  BY RiseTypes, ShelfTypes DEF Rise
<1>3. \E b \in InUse : epoch <= shelf'[b].epoch
  <2>1. PICK b \in InUse : epoch <= shelf[b].epoch
    BY DEF Backed
  <2> QED
    BY <1>2, <2>1
<1>4. ASSUME Still'
      PROVE  epoch <= shelf'[Home].epoch /\ (epoch = shelf'[Home].epoch => names = shelf'[Home].names)
  <2>1. epoch <= shelf[Home].epoch /\ (epoch = shelf[Home].epoch => names = shelf[Home].names)
    BY <1>4 DEF Backed, Rise
  <2> QED
    BY <1>1, <1>2, <2>1
<1>5. Still' => Home' = Home
  BY DEF Rise
<1> QED
  BY <1>1, <1>3, <1>4, <1>5 DEF Backed

LEMMA TaskRise ==
  ASSUME WorldOK, Rise, NEW t, t.on \in InUse, t.stored \in Nat, t.tag \in Nat, t.epoch \in Nat, TaskOK(t)
  PROVE  TaskOK(t)'
<1>1. PICK b \in InUse : b = t.on
  OBVIOUS
<1>2. \/ shelf'[b] = shelf[b]
      \/ /\ shelf'[b].epoch > shelf[b].epoch /\ shelf'[b].epoch \in Nat /\ shelf[b].epoch \in Nat
         /\ shelf'[b].tag > shelf[b].tag /\ shelf'[b].tag \in Nat /\ shelf[b].tag \in Nat
  BY RiseTypes, ShelfTypes DEF Rise
<1>3. Still' => Still /\ Home' = Home
  BY DEF Rise
<1>4. t.at \in {"reread", "cas"} =>
          /\ t.stored <= shelf'[b].epoch /\ t.tag <= shelf'[b].tag
          /\ t.stored = shelf'[b].epoch \/ t.tag = shelf'[b].tag =>
                /\ t.stored = shelf'[b].epoch /\ t.tag = shelf'[b].tag
                /\ ~ t.behind => t.have = shelf'[b].names
  BY <1>1, <1>2 DEF TaskOK
<1>5. t.at \in {"peers", "adopt"} =>
          t.epoch <= shelf'[b].epoch /\ (t.epoch = shelf'[b].epoch => t.next = shelf'[b].names)
  BY <1>1, <1>2 DEF TaskOK
<1> QED
  BY <1>1, <1>3, <1>4, <1>5 DEF TaskOK

\* What LiveOK says of one node's live set.
LiveAt(l) ==
    /\ l \in [names : SUBSET Projects, epoch : Nat, tag : Nat, pending : BOOLEAN]
    /\ \E b \in InUse : l.epoch <= shelf[b].epoch
    /\ Still => l.epoch <= shelf[Home].epoch
    /\ Still /\ ~ l.pending => Backed(l.names, l.epoch)

LEMMA LiveParts ==
  ASSUME WorldOK, LiveOK, NEW n \in Gates
  PROVE  LiveAt(live[n])
  BY DEF WorldOK, LiveOK, LiveAt

LEMMA LiveRise ==
  ASSUME WorldOK, Rise, NEW l, LiveAt(l)
  PROVE  LiveAt(l)'
<1>1. InUse' = InUse /\ Home \in InUse
  BY HomeInUse DEF Rise, InUse
<1>2. \A b \in InUse : \/ shelf'[b] = shelf[b]
                       \/ shelf'[b].epoch > shelf[b].epoch /\ shelf'[b].epoch \in Nat /\ shelf[b].epoch \in Nat
  BY RiseTypes, ShelfTypes DEF Rise
<1>3. l.epoch \in Nat
  BY DEF LiveAt
<1>4. \E b \in InUse : l.epoch <= shelf'[b].epoch
  BY <1>2, <1>3 DEF LiveAt
<1>5. Still' => Still /\ Home' = Home
  BY DEF Rise
<1>6. Still' => l.epoch <= shelf'[Home].epoch
  BY <1>1, <1>2, <1>3, <1>5 DEF LiveAt
<1>7. Still' /\ ~ l.pending => Backed(l.names, l.epoch)'
  BY <1>3, <1>5, BackedRise DEF LiveAt
<1> QED
  BY <1>1, <1>4, <1>5, <1>6, <1>7 DEF LiveAt

LEMMA AdoptLive ==
  ASSUME WorldOK, LiveOK, NEW n \in Gates, NEW names \in SUBSET Projects, NEW epoch \in Nat,
         NEW tag \in Nat, Backed(names, epoch)
  PROVE  LiveAt(adopt_quarantined(n, names, epoch, tag))
<1>1. PICK l : l = live[n]
  OBVIOUS
<1>2. LiveAt(l)
  BY <1>1, LiveParts
<1>3. CASE adopt_quarantined(n, names, epoch, tag) = [l EXCEPT !.tag = tag]
  <2>1. PICK m : m = [l EXCEPT !.tag = tag]
    OBVIOUS
  <2>2. /\ m \in [names : SUBSET Projects, epoch : Nat, tag : Nat, pending : BOOLEAN]
        /\ m.names = l.names /\ m.epoch = l.epoch /\ m.pending = l.pending
    BY <1>2, <2>1 DEF LiveAt
  <2> QED
    BY <1>2, <1>3, <2>1, <2>2 DEF LiveAt
<1>4. CASE adopt_quarantined(n, names, epoch, tag)
             = [names |-> names, epoch |-> epoch, tag |-> tag, pending |-> FALSE]
  <2>1. PICK m : m = [names |-> names, epoch |-> epoch, tag |-> tag, pending |-> FALSE]
    OBVIOUS
  <2>2. /\ m \in [names : SUBSET Projects, epoch : Nat, tag : Nat, pending : BOOLEAN]
        /\ m.names = names /\ m.epoch = epoch
    BY <2>1
  <2>3. LiveAt(m)
    BY <2>2 DEF LiveAt, Backed
  <2> QED
    BY <1>4, <2>1, <2>3
<1> QED
  BY <1>1, <1>3, <1>4 DEF adopt_quarantined

-----------------------------------------------------------------------------
(* One step of a publish, whoever runs it.                                  *)

LEMMA PublishFields ==
  ASSUME NEW kind, NEW N, NEW B, NEW t \in Publishes(kind, N, B)
  PROVE  /\ t.at \in Stages /\ t.kind = kind /\ t.on \in InUse /\ t.name \in N /\ t.blocked \in BOOLEAN
         /\ t.walked \subseteq Projects /\ t.base \in B /\ t.have \subseteq Projects /\ t.behind \in BOOLEAN
         /\ t.next \subseteq Projects /\ t.epoch \in Nat /\ t.tag \in Nat /\ t.stored \in Nat
         /\ t # NoTask
         /\ \A at \in Stages : \A u : u = [t EXCEPT !.at = at] =>
               /\ u \in Publishes(kind, N, B) /\ u.at = at /\ u.kind = kind /\ u.on = t.on /\ u.name = t.name
               /\ u.blocked = t.blocked /\ u.walked = t.walked /\ u.base = t.base /\ u.have = t.have
               /\ u.behind = t.behind /\ u.next = t.next /\ u.epoch = t.epoch /\ u.tag = t.tag
               /\ u.stored = t.stored
<1>1. /\ t.at \in Stages /\ t.kind = kind /\ t.on \in InUse /\ t.name \in N /\ t.blocked \in BOOLEAN
      /\ t.walked \subseteq Projects /\ t.base \in B /\ t.have \subseteq Projects /\ t.behind \in BOOLEAN
      /\ t.next \subseteq Projects /\ t.epoch \in Nat /\ t.tag \in Nat /\ t.stored \in Nat
  BY DEF Publishes
<1>2. t # NoTask
  BY <1>1 DEF Stages, NoTask
<1>3. ASSUME NEW at \in Stages, NEW u, u = [t EXCEPT !.at = at]
      PROVE  /\ u \in Publishes(kind, N, B) /\ u.at = at /\ u.kind = kind /\ u.on = t.on /\ u.name = t.name
             /\ u.blocked = t.blocked /\ u.walked = t.walked /\ u.base = t.base /\ u.have = t.have
             /\ u.behind = t.behind /\ u.next = t.next /\ u.epoch = t.epoch /\ u.tag = t.tag
             /\ u.stored = t.stored
  BY <1>3 DEF Publishes
<1> QED
  BY <1>1, <1>2, <1>3

\* What a step of a publish from t to u leaves as it was, whatever it does.
Same(t, u) ==
    /\ u.kind = t.kind /\ u.on = t.on /\ u.name = t.name /\ u.blocked = t.blocked
    /\ u.walked = t.walked /\ u.base = t.base
\* The steps, as far as the truth of the set is concerned.
Moves(t, u) ==
    \/ t.at = "read" /\ u.at = "done" /\ (Still => Next1(t, shelf[Home].names) = shelf[Home].names)
    \/ /\ t.at = "read" /\ u.at \in {"reread", "cas"}
       /\ Still => /\ u.have = shelf[Home].names /\ u.stored = shelf[Home].epoch
                   /\ u.next = Next1(t, u.have)
                   /\ t.kind = "derive" => u.at = "reread"
       /\ t.kind # "derive" => u.at = "cas"
       /\ t.kind # "sweep" => u.next = With(u.have, t.name, t.blocked)
    \/ t.at = "reread" /\ u.at = "done" /\ With(t.have, t.name, status[t.name]) = t.have
    \/ /\ t.at = "reread" /\ u.at = "cas" /\ u.have = t.have /\ u.stored = t.stored
       /\ u.next = With(t.have, t.name, status[t.name])
    \/ t.at = "cas" /\ u.at \in {"peers", "read"} /\ u.next = t.next /\ u.epoch = t.epoch
    \/ t.at = "peers" /\ u.at = "adopt" /\ u.next = t.next /\ u.epoch = t.epoch
    \/ t.at = "adopt" /\ u.at = "done"
    \/ t.at \in {"read", "reread", "cas"} /\ u.at = "failed"
Wrote(t, u) ==
    Still => \/ shelf'[Home] = shelf[Home] /\ ~ (t.at = "cas" /\ u.at = "peers")
             \/ /\ t.at = "cas" /\ u.at = "peers" /\ t.have = shelf[Home].names
                /\ shelf'[Home].names = t.next /\ shelf'[Home].epoch = t.epoch
\* A set and its epoch as a publish carries them: the body it read, then the one it wrote.
TaskHeld(t, s, e) ==
    \/ t.at \in {"reread", "cas"} /\ s = t.have /\ e = t.stored
    \/ t.at \in {"peers", "adopt"} /\ s = t.next /\ e = t.epoch
Given(t, s, e) == (s = shelf[Home].names /\ e = shelf[Home].epoch) \/ TaskHeld(t, s, e)
\* A live set goes from k to l: never back, and only to a set it was given with its epoch.
Adopted(k, l, t) ==
    \/ l.names = k.names /\ l.epoch = k.epoch /\ l.pending = k.pending
    \/ /\ ~ l.pending /\ l.epoch >= k.epoch /\ (l.epoch = k.epoch /\ k.pending => l.names = k.names)
       /\ Still => Given(t, l.names, l.epoch)
Published(n, t, u, kind, N, B) ==
    /\ u \in Publishes(kind, N, B) /\ Same(t, u) /\ Moves(t, u) /\ Wrote(t, u)
    /\ Rise /\ TaskOK(u)' /\ live' \in [Gates -> [names : SUBSET Projects, epoch : Nat, tag : Nat, pending : BOOLEAN]]
    /\ \A m \in Gates : LiveAt(live[m])' /\ Adopted(live[m], live'[m], t)

LEMMA StillRise ==
  ASSUME WorldOK, UNCHANGED <<course, selected, shelf>>, left'.switches = left.switches
  PROVE  Rise
  BY DEF WorldOK, Rise, Still, InUse, Home

LEMMA LivePut ==
  ASSUME WorldOK, LiveOK, NEW n \in Gates, UNCHANGED <<course, selected, shelf>>,
         left'.switches = left.switches, NEW l, LiveAt(l), live' = [live EXCEPT ![n] = l]
  PROVE  /\ live' \in [Gates -> [names : SUBSET Projects, epoch : Nat, tag : Nat, pending : BOOLEAN]]
         /\ \A m \in Gates : LiveAt(live[m])'
<1>1. \A m \in Gates : LiveAt(live'[m])
  BY LiveParts DEF WorldOK
<1>2. Rise
  BY StillRise
<1>3. live' \in [Gates -> [names : SUBSET Projects, epoch : Nat, tag : Nat, pending : BOOLEAN]]
  BY <1>1 DEF WorldOK, LiveAt
<1>4. ASSUME NEW m \in Gates
      PROVE  LiveAt(live[m])'
  <2>1. PICK k : k = live'[m]
    OBVIOUS
  <2>2. LiveAt(k)'
    BY <1>1, <1>2, <2>1, LiveRise
  <2> QED
    BY <2>1, <2>2 DEF LiveAt
<1> QED
  BY <1>3, <1>4

LEMMA LiveKept ==
  ASSUME WorldOK, LiveOK, Rise, live' = live
  PROVE  /\ live' \in [Gates -> [names : SUBSET Projects, epoch : Nat, tag : Nat, pending : BOOLEAN]]
         /\ \A m \in Gates : LiveAt(live[m])'
<1>1. ASSUME NEW m \in Gates
      PROVE  LiveAt(live[m])'
  <2>1. PICK k : k = live[m]
    OBVIOUS
  <2>2. LiveAt(k)'
    BY <2>1, LiveParts, LiveRise
  <2> QED
    BY <2>1, <2>2 DEF LiveAt
<1> QED
  BY <1>1 DEF WorldOK

LEMMA AdoptMoves ==
  ASSUME WorldOK, LiveOK, NEW n \in Gates, NEW names, NEW epoch \in Nat, NEW tag, NEW t,
         Still => Given(t, names, epoch),
         live' = [live EXCEPT ![n] = adopt_quarantined(n, names, epoch, tag)]
  PROVE  \A m \in Gates : Adopted(live[m], live'[m], t)
<1>1. PICK k, l : k = live[n] /\ l = adopt_quarantined(n, names, epoch, tag)
  OBVIOUS
<1>2. live' = [live EXCEPT ![n] = l] /\ DOMAIN live = Gates
  BY <1>1 DEF WorldOK
<1>3. k \in [names : SUBSET Projects, epoch : Nat, tag : Nat, pending : BOOLEAN]
  BY <1>1 DEF WorldOK
<1>4. Adopted(k, l, t)
  <2>1. CASE epoch < k.epoch \/ (epoch = k.epoch /\ k.pending /\ names # k.names)
    <3>1. l = [k EXCEPT !.tag = tag]
      BY <1>1, <2>1 DEF adopt_quarantined
    <3>2. l.names = k.names /\ l.epoch = k.epoch /\ l.pending = k.pending
      BY <1>3, <3>1
    <3> QED
      BY <3>2 DEF Adopted
  <2>2. CASE ~ (epoch < k.epoch \/ (epoch = k.epoch /\ k.pending /\ names # k.names))
    <3>1. l = [names |-> names, epoch |-> epoch, tag |-> tag, pending |-> FALSE]
      BY <1>1, <2>2 DEF adopt_quarantined
    <3>2. l.names = names /\ l.epoch = epoch /\ ~ l.pending
      BY <3>1
    <3>3. l.epoch >= k.epoch /\ (l.epoch = k.epoch /\ k.pending => l.names = k.names)
      BY <1>3, <2>2, <3>2
    <3> QED
      BY <3>2, <3>3 DEF Adopted
  <2> QED
    BY <2>1, <2>2
<1> QED
  BY <1>1, <1>2, <1>4 DEF Adopted

LEMMA WithFacts ==
  ASSUME NEW names \in SUBSET Projects, NEW p \in Projects, NEW blocked \in BOOLEAN
  PROVE  /\ With(names, p, blocked) \subseteq Projects /\ (p \in With(names, p, blocked) <=> blocked)
         /\ \A q \in Projects \ {p} : q \in With(names, p, blocked) <=> q \in names
  BY DEF With

LEMMA ReadCase ==
  ASSUME WorldOK, LiveOK, NEW n \in Gates, UNCHANGED <<course, selected>>,
         NEW kind \in {"one", "derive", "sweep"}, NEW N, NEW B, kind # "sweep" => N = Projects,
         NEW t \in Publishes(kind, N, B), TaskOK(t), NEW u, t.at = "read", u = ReadStep(n, t).task,
         live' = [live EXCEPT ![n] = ReadStep(n, t).live], UNCHANGED <<shelf, left>>
  PROVE  Published(n, t, u, kind, N, B)
<1>1. /\ t.kind = kind /\ t.on \in InUse /\ t.name \in N /\ t.blocked \in BOOLEAN
      /\ t.walked \subseteq Projects
  BY PublishFields
<1>2. PICK body : body = shelf[t.on]
  OBVIOUS
<1>3. body.names \subseteq Projects /\ body.epoch \in Nat /\ body.tag \in Nat
  BY <1>1, <1>2, ShelfTypes
<1>4. PICK l : l = live[n]
  OBVIOUS
<1>5. LiveAt(l) /\ l.names \subseteq Projects /\ l.epoch \in Nat /\ l.tag \in Nat
  BY <1>4, LiveParts DEF LiveAt
<1>6. PICK have : have = Have(n, t)
  OBVIOUS
<1>7. /\ have.names \subseteq Projects /\ have.behind \in BOOLEAN
      /\ ~ have.behind => have.names = body.names
      /\ have.behind => body.epoch < l.epoch
  BY <1>2, <1>3, <1>4, <1>5, <1>6 DEF Have
<1>8. Still => t.on = Home /\ ~ have.behind
  <2>1. Still => t.on = Home /\ l.epoch <= shelf[Home].epoch
    BY <1>5 DEF TaskOK, LiveAt
  <2> QED
    BY <1>2, <1>3, <1>5, <1>7, <2>1
<1>9. PICK next : next = Next1(t, have.names)
  OBVIOUS
<1>10. next \subseteq Projects /\ (kind # "sweep" => next = With(have.names, t.name, t.blocked))
  <2>1. CASE kind = "sweep"
    BY <1>1, <1>7, <1>9, <2>1 DEF Next1, Merged
  <2>2. CASE kind # "sweep"
    <3>1. next = With(have.names, t.name, t.blocked)
      BY <1>1, <1>9, <2>2 DEF Next1
    <3>2. next \subseteq Projects
      BY <1>1, <1>7, <2>2, <3>1, WithFacts
    <3> QED
      BY <3>1, <3>2
  <2> QED
    BY <2>1, <2>2
<1>11. Rise
  BY StillRise
<1>12. ReadStep(n, t) =
         IF next = have.names /\ ~ have.behind
         THEN [task |-> [t EXCEPT !.at = "done"], live |-> adopt_quarantined(n, next, body.epoch, l.tag)]
         ELSE [task |-> [t EXCEPT !.at = IF t.kind = "derive" /\ next # have.names THEN "reread" ELSE "cas",
                                  !.have = have.names, !.behind = have.behind, !.next = next,
                                  !.epoch = (IF body.epoch > l.epoch THEN body.epoch ELSE l.epoch) + 1,
                                  !.tag = body.tag, !.stored = body.epoch],
               live |-> l]
  BY <1>2, <1>4, <1>6, <1>9 DEF ReadStep
<1>13. CASE next = have.names /\ ~ have.behind
  <2>1. u = [t EXCEPT !.at = "done"] /\ live' = [live EXCEPT ![n] = adopt_quarantined(n, next, body.epoch, l.tag)]
    BY <1>12, <1>13
  <2>2. u \in Publishes(kind, N, B) /\ Same(t, u) /\ u.at = "done" /\ u.on = t.on
    BY <2>1, PublishFields DEF Stages, Same
  <2>3. next = body.names
    BY <1>7, <1>13
  <2>4. Backed(next, body.epoch)
    BY <1>1, <1>2, <1>3, <1>8, <2>3 DEF Backed
  <2>5. LiveAt(adopt_quarantined(n, next, body.epoch, l.tag))
    BY <1>3, <1>5, <1>10, <2>4, AdoptLive
  <2>6. /\ live' \in [Gates -> [names : SUBSET Projects, epoch : Nat, tag : Nat, pending : BOOLEAN]]
        /\ \A m \in Gates : LiveAt(live[m])'
    BY <2>1, <2>5, LivePut
  <2>7. TaskOK(u)'
    BY <1>11, <2>2 DEF TaskOK, Rise
  <2>8. Moves(t, u) /\ Wrote(t, u)
    BY <1>2, <1>8, <1>9, <1>13, <2>2, <2>3 DEF Moves, Wrote
  <2>9. \A m \in Gates : Adopted(live[m], live'[m], t)
    <3>1. Still => next = shelf[Home].names /\ body.epoch = shelf[Home].epoch
      BY <1>2, <1>8, <2>3
    <3>2. PICK e, g : e = body.epoch /\ g = l.tag
      OBVIOUS
    <3>3. e \in Nat /\ live' = [live EXCEPT ![n] = adopt_quarantined(n, next, e, g)]
      BY <1>3, <2>1, <3>2
    <3>4. Still => Given(t, next, e)
      BY <3>1, <3>2 DEF Given
    <3> QED
      BY <3>3, <3>4, AdoptMoves
  <2> QED
    BY <1>11, <2>2, <2>6, <2>7, <2>8, <2>9 DEF Published
<1>14. CASE ~ (next = have.names /\ ~ have.behind)
  <2>1. PICK at : at = IF t.kind = "derive" /\ next # have.names THEN "reread" ELSE "cas"
    OBVIOUS
  <2>2. PICK epoch : epoch = (IF body.epoch > l.epoch THEN body.epoch ELSE l.epoch) + 1
    OBVIOUS
  <2>3. epoch \in Nat /\ epoch > body.epoch
    BY <1>3, <1>5, <2>2
  <2>4. /\ u = [t EXCEPT !.at = at, !.have = have.names, !.behind = have.behind, !.next = next,
                         !.epoch = epoch, !.tag = body.tag, !.stored = body.epoch]
        /\ live' = [live EXCEPT ![n] = l]
    <3>1. PICK v : v = [t EXCEPT !.at = IF t.kind = "derive" /\ next # have.names THEN "reread" ELSE "cas",
                                 !.have = have.names, !.behind = have.behind, !.next = next,
                                 !.epoch = (IF body.epoch > l.epoch THEN body.epoch ELSE l.epoch) + 1,
                                 !.tag = body.tag, !.stored = body.epoch]
      OBVIOUS
    <3>2. ReadStep(n, t) = [task |-> v, live |-> l]
      BY <1>12, <1>14, <3>1, Zenon
    <3>3. u = v /\ live' = [live EXCEPT ![n] = l]
      BY <3>2
    <3> QED
      BY <2>1, <2>2, <3>1, <3>3, Zenon
  <2>5. at \in {"reread", "cas"} /\ at \in Stages
    BY <2>1 DEF Stages
  <2>6. /\ u.at = at /\ u.kind = t.kind /\ u.on = t.on /\ u.name = t.name /\ u.blocked = t.blocked
        /\ u.walked = t.walked /\ u.base = t.base /\ u.have = have.names /\ u.behind = have.behind
        /\ u.next = next /\ u.epoch = epoch /\ u.tag = body.tag /\ u.stored = body.epoch
    BY <2>4 DEF Publishes
  <2>7. u \in Publishes(kind, N, B)
    BY <1>3, <1>7, <1>10, <2>3, <2>4, <2>5 DEF Publishes
  <2>8. /\ live' \in [Gates -> [names : SUBSET Projects, epoch : Nat, tag : Nat, pending : BOOLEAN]]
        /\ \A m \in Gates : LiveAt(live[m])'
    BY <1>5, <2>4, LivePut
  <2>9. TaskOK(u)
    BY <1>2, <1>3, <1>7, <1>8, <2>3, <2>5, <2>6 DEF TaskOK
  <2>10. TaskOK(u)'
    BY <1>1, <1>3, <1>11, <2>3, <2>6, <2>9, TaskRise
  <2>11. Same(t, u)
    BY <2>6 DEF Same
  <2>12. Moves(t, u)
    <3>1. Still => u.have = shelf[Home].names /\ u.stored = shelf[Home].epoch /\ u.next = Next1(t, u.have)
      BY <1>2, <1>7, <1>8, <1>9, <2>6
    <3>2. Still /\ t.kind = "derive" => u.at = "reread"
      BY <1>8, <1>14, <2>1, <2>6
    <3>3. t.kind # "derive" => u.at = "cas"
      BY <2>1, <2>6
    <3>4. t.kind # "sweep" => u.next = With(u.have, t.name, t.blocked)
      BY <1>1, <1>10, <2>6
    <3> QED
      BY <2>5, <2>6, <3>1, <3>2, <3>3, <3>4 DEF Moves
  <2>13. Wrote(t, u)
    BY DEF Wrote
  <2>14. \A m \in Gates : Adopted(live[m], live'[m], t)
    BY <1>4, <2>4 DEF Adopted, WorldOK
  <2> QED
    BY <1>11, <2>7, <2>8, <2>10, <2>11, <2>12, <2>13, <2>14 DEF Published
<1> QED
  BY <1>13, <1>14

LEMMA RereadCase ==
  ASSUME WorldOK, LiveOK, NEW n \in Gates, UNCHANGED <<course, selected>>,
         NEW kind \in {"one", "derive", "sweep"}, NEW N, NEW B, kind # "sweep" => N = Projects,
         NEW t \in Publishes(kind, N, B), TaskOK(t), NEW u, t.at = "reread", kind # "sweep",
         u = RereadStep(n, t).task,
         live' = [live EXCEPT ![n] = RereadStep(n, t).live], UNCHANGED <<shelf, left>>
  PROVE  Published(n, t, u, kind, N, B)
<1>1. /\ t.kind = kind /\ t.on \in InUse /\ t.name \in Projects /\ t.behind \in BOOLEAN
      /\ t.have \subseteq Projects /\ t.tag \in Nat /\ t.stored \in Nat
  BY PublishFields
<1>2. status[t.name] \in BOOLEAN
  BY <1>1 DEF WorldOK
<1>3. PICK next : next = With(t.have, t.name, status[t.name])
  OBVIOUS
<1>4. next \subseteq Projects
  BY <1>1, <1>2, <1>3, WithFacts
<1>5. PICK l : l = live[n]
  OBVIOUS
<1>6. LiveAt(l) /\ l.epoch \in Nat /\ l.tag \in Nat
  BY <1>5, LiveParts DEF LiveAt
<1>7. Rise
  BY StillRise
<1>8. RereadStep(n, t) =
        IF next = t.have /\ ~ t.behind
        THEN [task |-> [t EXCEPT !.at = "done"], live |-> adopt_quarantined(n, next, t.stored, l.tag)]
        ELSE [task |-> [t EXCEPT !.at = "cas", !.next = next,
                                 !.epoch = (IF t.stored > l.epoch THEN t.stored ELSE l.epoch) + 1],
              live |-> l]
  BY <1>3, <1>5 DEF RereadStep, Reread
<1>9. PICK body : body = shelf[t.on]
  OBVIOUS
<1>10. /\ t.stored <= body.epoch
       /\ t.stored = body.epoch /\ ~ t.behind => t.have = body.names
       /\ Still => t.on = Home
  BY <1>9 DEF TaskOK
<1>11. CASE next = t.have /\ ~ t.behind
  <2>1. u = [t EXCEPT !.at = "done"] /\ live' = [live EXCEPT ![n] = adopt_quarantined(n, next, t.stored, l.tag)]
    BY <1>8, <1>11
  <2>2. u \in Publishes(kind, N, B) /\ Same(t, u) /\ u.at = "done" /\ u.on = t.on
    BY <2>1, PublishFields DEF Stages, Same
  <2>3. Backed(next, t.stored)
    BY <1>1, <1>9, <1>10, <1>11 DEF Backed
  <2>4. LiveAt(adopt_quarantined(n, next, t.stored, l.tag))
    BY <1>1, <1>4, <1>6, <2>3, AdoptLive
  <2>5. /\ live' \in [Gates -> [names : SUBSET Projects, epoch : Nat, tag : Nat, pending : BOOLEAN]]
        /\ \A m \in Gates : LiveAt(live[m])'
    BY <2>1, <2>4, LivePut
  <2>6. TaskOK(u)'
    BY <1>7, <2>2 DEF TaskOK, Rise
  <2>7. Moves(t, u) /\ Wrote(t, u)
    BY <1>3, <1>11, <2>2 DEF Moves, Wrote
  <2>8. \A m \in Gates : Adopted(live[m], live'[m], t)
    <3>1. TaskHeld(t, next, t.stored)
      BY <1>11 DEF TaskHeld
    <3>2. PICK e, g : e = t.stored /\ g = l.tag
      OBVIOUS
    <3>3. e \in Nat /\ live' = [live EXCEPT ![n] = adopt_quarantined(n, next, e, g)] /\ Given(t, next, e)
      BY <1>1, <2>1, <3>1, <3>2 DEF Given
    <3> QED
      BY <3>3, AdoptMoves
  <2> QED
    BY <1>7, <2>2, <2>5, <2>6, <2>7, <2>8 DEF Published
<1>12. CASE ~ (next = t.have /\ ~ t.behind)
  <2>1. PICK epoch : epoch = (IF t.stored > l.epoch THEN t.stored ELSE l.epoch) + 1
    OBVIOUS
  <2>2. epoch \in Nat /\ epoch > t.stored
    BY <1>1, <1>6, <2>1
  <2>3. u = [t EXCEPT !.at = "cas", !.next = next, !.epoch = epoch] /\ live' = [live EXCEPT ![n] = l]
    <3>1. PICK v : v = [t EXCEPT !.at = "cas", !.next = next,
                                 !.epoch = (IF t.stored > l.epoch THEN t.stored ELSE l.epoch) + 1]
      OBVIOUS
    <3>2. RereadStep(n, t) = [task |-> v, live |-> l]
      BY <1>8, <1>12, <3>1, Zenon
    <3>3. u = v /\ live' = [live EXCEPT ![n] = l]
      BY <3>2
    <3> QED
      BY <2>1, <3>1, <3>3, Zenon
  <2>4. /\ u.at = "cas" /\ u.kind = t.kind /\ u.on = t.on /\ u.name = t.name /\ u.blocked = t.blocked
        /\ u.walked = t.walked /\ u.base = t.base /\ u.have = t.have /\ u.behind = t.behind
        /\ u.next = next /\ u.epoch = epoch /\ u.tag = t.tag /\ u.stored = t.stored
    BY <2>3 DEF Publishes
  <2>5. u \in Publishes(kind, N, B)
    BY <1>4, <2>2, <2>3 DEF Publishes, Stages
  <2>6. /\ live' \in [Gates -> [names : SUBSET Projects, epoch : Nat, tag : Nat, pending : BOOLEAN]]
        /\ \A m \in Gates : LiveAt(live[m])'
    BY <1>6, <2>3, LivePut
  <2>7. TaskOK(u)
    BY <2>2, <2>4 DEF TaskOK
  <2>8. TaskOK(u)'
    BY <1>1, <1>7, <2>2, <2>4, <2>7, TaskRise
  <2>9. Same(t, u) /\ Moves(t, u) /\ Wrote(t, u)
    BY <1>3, <2>4 DEF Same, Moves, Wrote
  <2>10. \A m \in Gates : Adopted(live[m], live'[m], t)
    BY <1>5, <2>3 DEF Adopted, WorldOK
  <2> QED
    BY <1>7, <2>5, <2>6, <2>8, <2>9, <2>10 DEF Published
<1> QED
  BY <1>11, <1>12

LEMMA FaultLeaves ==
  ASSUME WorldOK, Fault \/ NoFault
  PROVE  /\ left'.switches = left.switches /\ left'.sweeps = left.sweeps /\ left'.edits = left.edits
         /\ left' \in [edits : [Projects -> Nat], sweeps : Nat, switches : Nat, faults : Nat]
<1>1. left \in [edits : [Projects -> Nat], sweeps : Nat, switches : Nat, faults : Nat]
  BY DEF WorldOK
<1>2. CASE NoFault
  BY <1>1, <1>2 DEF NoFault
<1>3. CASE Fault
  <2>1. PICK f : f = left.faults - 1
    OBVIOUS
  <2>2. f \in Nat /\ left' = [left EXCEPT !.faults = f]
    BY <1>1, <1>3, <2>1 DEF Fault
  <2> QED
    BY <1>1, <2>2
<1> QED
  BY <1>2, <1>3

LEMMA CasCase ==
  ASSUME WorldOK, LiveOK, NEW n \in Gates, UNCHANGED <<course, selected>>,
         NEW kind, NEW N, NEW B, NEW t \in Publishes(kind, N, B), TaskOK(t), NEW u, t.at = "cas",
         UNCHANGED <<live, left>>,
         IF shelf[t.on].tag = t.tag
         THEN /\ u = [t EXCEPT !.at = "peers"]
              /\ shelf' = [shelf EXCEPT ![t.on] =
                     [names |-> t.next, epoch |-> t.epoch, tag |-> @.tag + 1]]
         ELSE u = [t EXCEPT !.at = "read"] /\ UNCHANGED shelf
  PROVE  Published(n, t, u, kind, N, B)
<1>1. /\ t.on \in InUse /\ t.next \subseteq Projects /\ t.epoch \in Nat /\ t.tag \in Nat /\ t.stored \in Nat
  BY PublishFields
<1>2. PICK body : body = shelf[t.on]
  OBVIOUS
<1>3. body.names \subseteq Projects /\ body.epoch \in Nat \ {0} /\ body.tag \in Nat
  BY <1>1, <1>2, ShelfTypes
<1>4. CASE body.tag = t.tag
  <2>1. u \in Publishes(kind, N, B) /\ Same(t, u) /\ u.at = "peers" /\ u.on = t.on /\ u.epoch = t.epoch
        /\ u.next = t.next
    BY <1>2, <1>4, PublishFields DEF Stages, Same
  <2>2. PICK new : new = [names |-> t.next, epoch |-> t.epoch, tag |-> body.tag + 1]
    OBVIOUS
  <2>3. shelf' = [shelf EXCEPT ![t.on] = new]
    BY <1>2, <1>4, <2>2
  <2>4. t.epoch > body.epoch /\ (Still => t.on = Home /\ t.have = body.names)
    BY <1>1, <1>2, <1>3, <1>4 DEF TaskOK
  <2>5. new \in Bodies /\ new.epoch = t.epoch /\ new.tag > body.tag /\ new.names = t.next
    BY <1>1, <1>3, <2>2, <2>4 DEF Bodies
  <2>6. shelf \in [InUse -> Bodies]
    BY DEF WorldOK
  <2>7. /\ shelf' \in [InUse -> Bodies] /\ shelf'[t.on] = new
        /\ \A b \in InUse : b # t.on => shelf'[b] = shelf[b]
    BY <1>1, <2>3, <2>5, <2>6
  <2>8. Rise
    BY <1>2, <2>4, <2>5, <2>7 DEF Rise, Still, InUse, Home
  <2>9. /\ live' \in [Gates -> [names : SUBSET Projects, epoch : Nat, tag : Nat, pending : BOOLEAN]]
        /\ \A m \in Gates : LiveAt(live[m])'
    BY <2>8, LiveKept
  <2>10. TaskOK(u)'
    BY <1>1, <2>1, <2>4, <2>5, <2>7, <2>8 DEF TaskOK, Rise
  <2>11. Moves(t, u) /\ Wrote(t, u)
    BY <1>2, <2>1, <2>4, <2>5, <2>7 DEF Moves, Wrote
  <2>12. \A m \in Gates : Adopted(live[m], live'[m], t)
    BY DEF Adopted
  <2> QED
    BY <2>1, <2>8, <2>9, <2>10, <2>11, <2>12 DEF Published
<1>5. CASE body.tag # t.tag
  <2>1. u = [t EXCEPT !.at = "read"] /\ UNCHANGED shelf
    BY <1>2, <1>5
  <2>2. /\ u \in Publishes(kind, N, B) /\ Same(t, u) /\ u.at = "read" /\ u.on = t.on
        /\ u.next = t.next /\ u.epoch = t.epoch
    BY <2>1, PublishFields DEF Stages, Same
  <2>3. Rise
    BY <2>1, StillRise
  <2>4. /\ live' \in [Gates -> [names : SUBSET Projects, epoch : Nat, tag : Nat, pending : BOOLEAN]]
        /\ \A m \in Gates : LiveAt(live[m])'
    BY <2>3, LiveKept
  <2>5. TaskOK(u)'
    BY <2>2, <2>3 DEF TaskOK, Rise
  <2>6. Moves(t, u) /\ Wrote(t, u)
    BY <2>1, <2>2 DEF Moves, Wrote
  <2>7. \A m \in Gates : Adopted(live[m], live'[m], t)
    BY DEF Adopted
  <2> QED
    BY <2>2, <2>3, <2>4, <2>5, <2>6, <2>7 DEF Published
<1> QED
  BY <1>4, <1>5

LEMMA SeedRise ==
  ASSUME WorldOK, UNCHANGED <<course, selected>>, left'.switches = left.switches,
         NEW K \in SUBSET InUse, NEW names \in SUBSET Projects, NEW epoch \in Nat,
         shelf' = [b \in InUse |-> IF b \notin K THEN shelf[b] ELSE seed_quarantined_onto(b, names, epoch)]
  PROVE  /\ Rise /\ \A b \in InUse : b \notin K \/ shelf[b].epoch >= epoch => shelf'[b] = shelf[b]
<1>1. ASSUME NEW b \in InUse
      PROVE  /\ shelf'[b] \in Bodies
             /\ \/ shelf'[b] = shelf[b]
                \/ shelf'[b].epoch > shelf[b].epoch /\ shelf'[b].tag > shelf[b].tag
             /\ b \notin K \/ shelf[b].epoch >= epoch => shelf'[b] = shelf[b]
  <2>1. PICK body : body = shelf[b]
    OBVIOUS
  <2>2. body \in Bodies /\ body.names \subseteq Projects /\ body.epoch \in Nat \ {0} /\ body.tag \in Nat
    BY <2>1, ShelfTypes DEF WorldOK
  <2>3. CASE b \notin K \/ body.epoch >= epoch
    BY <2>1, <2>2, <2>3 DEF seed_quarantined_onto
  <2>4. CASE b \in K /\ ~ (body.epoch >= epoch)
    <3>1. shelf'[b] = [names |-> names, epoch |-> epoch, tag |-> body.tag + 1]
      BY <2>1, <2>4 DEF seed_quarantined_onto
    <3>2. epoch > body.epoch
      BY <2>2, <2>4
    <3> QED
      BY <2>1, <2>2, <2>4, <3>1, <3>2 DEF Bodies
  <2> QED
    BY <2>3, <2>4
<1>2. shelf' \in [InUse -> Bodies]
  BY <1>1
<1> QED
  BY <1>1, <1>2 DEF Rise, Still, InUse, Home

LEMMA PeersCase ==
  ASSUME WorldOK, LiveOK, NEW n \in Gates, UNCHANGED <<course, selected>>,
         NEW kind, NEW N, NEW B, NEW t \in Publishes(kind, N, B), TaskOK(t), NEW u, t.at = "peers",
         u = [t EXCEPT !.at = "adopt"], UNCHANGED live, left'.switches = left.switches,
         \/ UNCHANGED shelf
         \/ shelf' = [b \in InUse |-> IF b = t.on THEN shelf[b] ELSE seed_quarantined_onto(b, t.next, t.epoch)]
  PROVE  Published(n, t, u, kind, N, B)
<1>1. t.on \in InUse /\ t.next \subseteq Projects /\ t.epoch \in Nat /\ t.tag \in Nat /\ t.stored \in Nat
  BY PublishFields
<1>2. /\ u \in Publishes(kind, N, B) /\ Same(t, u) /\ u.at = "adopt" /\ u.on = t.on /\ u.epoch = t.epoch
      /\ u.next = t.next /\ u.tag = t.tag /\ u.stored = t.stored
  BY PublishFields DEF Stages, Same
<1>3. Rise /\ shelf'[t.on] = shelf[t.on]
  <2>1. CASE UNCHANGED shelf
    BY <2>1, StillRise
  <2>2. CASE shelf' = [b \in InUse |-> IF b = t.on THEN shelf[b] ELSE seed_quarantined_onto(b, t.next, t.epoch)]
    <3>1. PICK K, names, epoch : K = InUse \ {t.on} /\ names = t.next /\ epoch = t.epoch
      OBVIOUS
    <3>2. shelf' = [b \in InUse |-> IF b \notin K THEN shelf[b] ELSE seed_quarantined_onto(b, names, epoch)]
      BY <2>2, <3>1
    <3>3. K \in SUBSET InUse /\ t.on \notin K /\ names \in SUBSET Projects /\ epoch \in Nat
      BY <1>1, <3>1
    <3>4. Rise /\ \A b \in InUse : b \notin K \/ shelf[b].epoch >= epoch => shelf'[b] = shelf[b]
      BY <3>2, <3>3, SeedRise
    <3> QED
      BY <1>1, <3>3, <3>4
  <2> QED
    BY <2>1, <2>2
<1>4. /\ live' \in [Gates -> [names : SUBSET Projects, epoch : Nat, tag : Nat, pending : BOOLEAN]]
      /\ \A m \in Gates : LiveAt(live[m])'
  BY <1>3, LiveKept
<1>5. TaskOK(u)
  BY <1>2 DEF TaskOK
<1>6. TaskOK(u)'
  BY <1>1, <1>2, <1>3, <1>5, TaskRise
<1>7. Moves(t, u) /\ Wrote(t, u)
  BY <1>2, <1>3 DEF Moves, Wrote, TaskOK
<1>8. \A m \in Gates : Adopted(live[m], live'[m], t)
  BY DEF Adopted
<1> QED
  BY <1>2, <1>3, <1>4, <1>6, <1>7, <1>8 DEF Published

LEMMA EndCase ==
  ASSUME WorldOK, LiveOK, NEW n \in Gates, UNCHANGED <<course, selected, shelf>>,
         NEW kind, NEW N, NEW B, NEW t \in Publishes(kind, N, B), TaskOK(t), NEW u,
         left'.switches = left.switches,
         \/ /\ t.at = "adopt" /\ u = [t EXCEPT !.at = "done"]
            /\ live' = [live EXCEPT ![n] = adopt_quarantined(n, t.next, t.epoch, 0)]
         \/ t.at \in {"read", "reread", "cas"} /\ u = [t EXCEPT !.at = "failed"] /\ UNCHANGED live
  PROVE  Published(n, t, u, kind, N, B)
<1>1. t.on \in InUse /\ t.next \subseteq Projects /\ t.epoch \in Nat
  BY PublishFields
<1>2. /\ u \in Publishes(kind, N, B) /\ Same(t, u) /\ u.at \in {"done", "failed"} /\ u.on = t.on
      /\ (t.at = "adopt" => u.at = "done") /\ (t.at # "adopt" => u.at = "failed")
  BY PublishFields DEF Stages, Same
<1>3. Rise
  BY StillRise
<1>4. /\ live' \in [Gates -> [names : SUBSET Projects, epoch : Nat, tag : Nat, pending : BOOLEAN]]
      /\ \A m \in Gates : LiveAt(live[m])'
  <2>1. CASE UNCHANGED live
    BY <1>3, <2>1, LiveKept
  <2>2. CASE t.at = "adopt" /\ live' = [live EXCEPT ![n] = adopt_quarantined(n, t.next, t.epoch, 0)]
    <3>1. Backed(t.next, t.epoch)
      BY <1>1, <2>2 DEF TaskOK, Backed
    <3>2. LiveAt(adopt_quarantined(n, t.next, t.epoch, 0))
      BY <1>1, <3>1, AdoptLive
    <3> QED
      BY <2>2, <3>2, LivePut
  <2> QED
    BY <2>1, <2>2
<1>5. TaskOK(u)'
  BY <1>2, <1>3 DEF TaskOK, Rise
<1>6. Moves(t, u) /\ Wrote(t, u)
  BY <1>2 DEF Moves, Wrote
<1>7. \A m \in Gates : Adopted(live[m], live'[m], t)
  <2>1. CASE UNCHANGED live
    BY <2>1 DEF Adopted
  <2>2. CASE t.at = "adopt" /\ live' = [live EXCEPT ![n] = adopt_quarantined(n, t.next, t.epoch, 0)]
    <3>1. Given(t, t.next, t.epoch)
      BY <2>2 DEF Given, TaskHeld
    <3> QED
      BY <1>1, <2>2, <3>1, AdoptMoves
  <2> QED
    BY <2>1, <2>2
<1> QED
  BY <1>2, <1>3, <1>4, <1>5, <1>6, <1>7 DEF Published

LEMMA PublishSound ==
  ASSUME WorldOK, LiveOK, NEW n \in Gates, UNCHANGED <<course, selected>>,
         NEW kind \in {"one", "derive", "sweep"}, NEW N, NEW B, kind # "sweep" => N = Projects,
         NEW t \in Publishes(kind, N, B), TaskOK(t), t.at = "reread" => kind # "sweep",
         NEW u, PublishStep(n, t, u)
  PROVE  /\ Published(n, t, u, kind, N, B)
         /\ left'.switches = left.switches /\ left'.sweeps = left.sweeps /\ left'.edits = left.edits
         /\ left' \in [edits : [Projects -> Nat], sweeps : Nat, switches : Nat, faults : Nat]
<1>1. Fault \/ NoFault
  BY DEF PublishStep
<1>2. /\ left'.switches = left.switches /\ left'.sweeps = left.sweeps /\ left'.edits = left.edits
      /\ left' \in [edits : [Projects -> Nat], sweeps : Nat, switches : Nat, faults : Nat]
  BY <1>1, FaultLeaves
<1>3. CASE /\ t.at = "read" /\ u = ReadStep(n, t).task
           /\ live' = [live EXCEPT ![n] = ReadStep(n, t).live] /\ UNCHANGED shelf /\ NoFault
  <2>1. UNCHANGED <<shelf, left>>
    BY <1>3 DEF NoFault
  <2>2. Published(n, t, u, kind, N, B)
    BY <1>3, <2>1, ReadCase
  <2> QED
    BY <1>2, <2>2
<1>4. CASE /\ t.at = "reread" /\ u = RereadStep(n, t).task
           /\ live' = [live EXCEPT ![n] = RereadStep(n, t).live] /\ UNCHANGED shelf /\ NoFault
  <2>1. UNCHANGED <<shelf, left>>
    BY <1>4 DEF NoFault
  <2>2. Published(n, t, u, kind, N, B)
    BY <1>4, <2>1, RereadCase
  <2> QED
    BY <1>2, <2>2
<1>5. CASE /\ t.at = "cas" /\ UNCHANGED live /\ NoFault
           /\ IF shelf[t.on].tag = t.tag
              THEN /\ u = [t EXCEPT !.at = "peers"]
                   /\ shelf' = [shelf EXCEPT ![t.on] =
                          [names |-> t.next, epoch |-> t.epoch, tag |-> @.tag + 1]]
              ELSE u = [t EXCEPT !.at = "read"] /\ UNCHANGED shelf
  <2>1. UNCHANGED <<live, left>>
    BY <1>5 DEF NoFault
  <2>2. Published(n, t, u, kind, N, B)
    BY <1>5, <2>1, CasCase
  <2> QED
    BY <1>2, <2>2
<1>6. CASE /\ t.at = "peers" /\ u = [t EXCEPT !.at = "adopt"] /\ UNCHANGED live
           /\ \/ shelf' = [b \in InUse |-> IF b = t.on THEN shelf[b]
                                           ELSE seed_quarantined_onto(b, t.next, t.epoch)]
              \/ UNCHANGED shelf
  BY <1>2, <1>6, PeersCase
<1>7. CASE /\ UNCHANGED shelf
           /\ \/ /\ t.at = "adopt" /\ u = [t EXCEPT !.at = "done"]
                 /\ live' = [live EXCEPT ![n] = adopt_quarantined(n, t.next, t.epoch, 0)]
              \/ t.at \in {"read", "reread", "cas"} /\ u = [t EXCEPT !.at = "failed"] /\ UNCHANGED live
  BY <1>2, <1>7, EndCase
<1> QED
  BY <1>3, <1>4, <1>5, <1>6, <1>7 DEF PublishStep

-----------------------------------------------------------------------------
(* What a step leaves alone stays sound.                                    *)

Lives == [Gates -> [names : SUBSET Projects, epoch : Nat, tag : Nat, pending : BOOLEAN]]

LEMMA WorldKept ==
  ASSUME WorldOK, Rise, selected' = selected,
         left' \in [edits : [Projects -> Nat], sweeps : Nat, switches : Nat, faults : Nat],
         \A p \in Projects : left'.edits[p] <= left.edits[p],
         left'.sweeps <= left.sweeps, left'.switches <= left.switches,
         status' \in [Projects -> BOOLEAN], dirty' \subseteq Projects, live' \in Lives,
         DOMAIN edit' = Gates, DOMAIN poll' = Gates
  PROVE  WorldOK'
<1>1. /\ course \in Courses /\ left \in [edits : [Projects -> Nat], sweeps : Nat, switches : Nat, faults : Nat]
      /\ \A p \in Projects : left.edits[p] <= course.edits[p]
      /\ left.sweeps <= course.sweeps /\ left.switches <= course.switches
      /\ selected \in [Gates -> InUse]
      /\ Still => \A n \in Gates : selected[n] = Home
  BY DEF WorldOK
<1>2. course.edits \in [Projects -> Nat] /\ course.sweeps \in Nat /\ course.switches \in Nat
  BY <1>1, QuarantineAssumption
<1>3. course' = course /\ InUse' = InUse /\ shelf' \in [InUse -> Bodies] /\ (Still' => Still /\ Home' = Home)
  BY DEF Rise, InUse
<1>4. /\ \A p \in Projects : left'.edits[p] <= course'.edits[p]
      /\ left'.sweeps <= course'.sweeps /\ left'.switches <= course'.switches
  BY <1>1, <1>2, <1>3
<1>5. Still' => \A n \in Gates : selected'[n] = Home'
  BY <1>1, <1>3
<1> QED
  BY <1>1, <1>3, <1>4, <1>5 DEF WorldOK, Lives

LEMMA LiveBack ==
  ASSUME WorldOK, LiveOK, Rise, \A m \in Gates : LiveAt(live[m])',
         \A m \in Gates : poll'[m] \in {poll[m], NoTask}
  PROVE  LiveOK'
<1>1. ASSUME NEW m \in Gates
      PROVE  poll'[m] = NoTask \/ /\ poll'[m] \in [at : {"read"}, body : Bodies]
                                  /\ Backed(poll[m].body.names, poll[m].body.epoch)'
  <2>1. CASE poll'[m] = NoTask
    BY <2>1
  <2>2. CASE poll'[m] # NoTask
    <3>1. PICK q : q = poll[m]
      OBVIOUS
    <3>2. /\ poll'[m] = q /\ q \in [at : {"read"}, body : Bodies] /\ Backed(q.body.names, q.body.epoch)
      BY <2>2, <3>1 DEF LiveOK
    <3>3. PICK body : body = q.body
      OBVIOUS
    <3>4. Backed(body.names, body.epoch)'
      BY <3>2, <3>3, BackedRise DEF Bodies
    <3> QED
      BY <3>2, <3>3, <3>4 DEF Backed
  <2> QED
    BY <2>1, <2>2
<1> QED
  BY <1>1 DEF LiveOK, LiveAt

LEMMA EditKept ==
  ASSUME WorldOK, Rise, NEW n \in Gates, EditOK(n), edit'[n] = edit[n]
  PROVE  EditOK(n)'
<1>1. PICK t : t = edit[n]
  OBVIOUS
<1>2. CASE t = NoTask
  BY <1>1, <1>2 DEF EditOK
<1>3. CASE t # NoTask
  <2>1. t \in Publishes("one", Projects, {{}}) /\ t.at # "reread" /\ TaskOK(t) /\ OneName(t)
    BY <1>1, <1>3 DEF EditOK
  <2>2. TaskOK(t)'
    BY <2>1, TaskRise, PublishFields
  <2>3. t \in Publishes("one", Projects, {{}})'
    BY <2>1 DEF Publishes, Rise, InUse
  <2> QED
    BY <1>1, <2>1, <2>2, <2>3 DEF EditOK, OneName
<1> QED
  BY <1>2, <1>3

LEMMA WorkKept ==
  ASSUME WorldOK, Rise, WorkOK, work' = work
  PROVE  WorkOK'
<1>1. PICK t : t = work
  OBVIOUS
<1>2. CASE t = NoTask
  BY <1>1, <1>2 DEF WorkOK
<1>3. CASE t # NoTask
  <2>1. t \in Publishes("derive", Projects, {{}}) /\ t.at # "arm" /\ TaskOK(t) /\ OneName(t)
    BY <1>1, <1>3 DEF WorkOK
  <2>2. TaskOK(t)'
    BY <2>1, TaskRise, PublishFields
  <2>3. t \in Publishes("derive", Projects, {{}})'
    BY <2>1 DEF Publishes, Rise, InUse
  <2> QED
    BY <1>1, <2>1, <2>2, <2>3 DEF WorkOK, OneName
<1> QED
  BY <1>2, <1>3

LEMMA SweepKept ==
  ASSUME WorldOK, Rise, SweepOK, BaseOK, sweep' = sweep, left'.sweeps = left.sweeps
  PROVE  SweepOK' /\ BaseOK'
<1>1. PICK t : t = sweep
  OBVIOUS
<1>2. CASE t = NoTask
  BY <1>1, <1>2 DEF SweepOK, BaseOK
<1>3. CASE t # NoTask
  <2>1. Still' => Still /\ Home' = Home
    BY DEF Rise
  <2>2. t.base.epoch \in Nat
    BY <1>1, <1>3 DEF SweepOK, Publishes, Bases, Bodies
  <2>3. Backed(t.base.names, t.base.epoch) \/ ~ Still
    <3>1. Still => /\ t.base.epoch <= shelf[Home].epoch
                   /\ t.base.epoch = shelf[Home].epoch => t.base.names = shelf[Home].names
      BY <1>1, <1>3 DEF BaseOK
    <3> QED
      BY <3>1, HomeInUse DEF Backed
  <2>4. PICK names, epoch : names = t.base.names /\ epoch = t.base.epoch
    OBVIOUS
  <2>5. Still' => Backed(names, epoch)'
    BY <2>1, <2>2, <2>3, <2>4, BackedRise
  <2>6. BaseOK'
    BY <1>1, <1>3, <2>4, <2>5 DEF BaseOK, Backed, Rise
  <2>7. CASE t.at = "walk"
    <3>1. t \in [at : {"walk"}, base : Bodies, on : InUse] /\ (Still => t.on = Home)
      BY <1>1, <1>3, <2>7 DEF SweepOK, Publishes, Stages
    <3>2. InUse' = InUse
      BY DEF Rise, InUse
    <3>3. SweepOK'
      BY <1>1, <2>1, <2>7, <3>1, <3>2 DEF SweepOK
    <3> QED
      BY <2>6, <3>3
  <2>8. CASE t.at # "walk"
    <3>1. /\ t \in Publishes("sweep", {SweepName}, Bases) /\ t.at \notin {"arm", "reread"} /\ TaskOK(t)
          /\ Still /\ t.at = "cas" => \A p \in Projects :
                \/ p \in t.next <=> p \in t.have
                \/ (p \in t.have <=> p \in t.base.names) /\ (p \in t.next <=> p \in t.walked)
      BY <1>1, <1>3, <2>8 DEF SweepOK
    <3>2. TaskOK(t)'
      BY <3>1, TaskRise, PublishFields
    <3>3. t \in Publishes("sweep", {SweepName}, Bases)'
      BY <3>1 DEF Publishes, Rise, InUse
    <3>4. SweepOK'
      BY <1>1, <2>1, <3>1, <3>2, <3>3 DEF SweepOK
    <3> QED
      BY <2>6, <3>4
  <2> QED
    BY <2>7, <2>8
<1> QED
  BY <1>2, <1>3

LEMMA TruthSwept ==
  ASSUME course' = course, Home' = Home, NEW p \in Projects, status'[p] = status[p],
         left'.edits[p] = left.edits[p], work' = work, Walked' <=> Walked,
         sweep' # NoTask <=> sweep # NoTask, sweep # NoTask => sweep'.base = sweep.base,
         Walked => sweep'.walked = sweep.walked, Owed(p)' <=> Owed(p),
         (p \in shelf'[Home].names <=> p \in shelf[Home].names) \/ (p \in shelf'[Home].names <=> status[p]),
         TruthOK(p)
  PROVE  TruthOK(p)'
<1>1. PICK h, H : h = shelf[Home].names /\ H = shelf'[Home].names
  OBVIOUS
<1>2. \A names : Right(names, p)' <=> Right(names, p)
  BY DEF Right
<1>3. Right(h, p) => Right(H, p)
  BY <1>1 DEF Right
<1>4. left.edits[p] = course.edits[p] => Untouched(p)'
  BY <1>1, <1>2, <1>3 DEF TruthOK, Untouched, Deriving, Right
<1>5. Walked' => Right(sweep.walked, p)' \/ ~ Right(sweep.base.names, p)'
  <2>1. Walked => sweep # NoTask
    BY DEF Walked
  <2> QED
    BY <2>1 DEF TruthOK, Right
<1>6. \/ Right(shelf[Home].names, p)' \/ Owed(p)'
      \/ Deriving(p)' /\ work'.at \in {"read", "reread", "cas", "failed"}
  BY <1>1 DEF TruthOK, Deriving, Right
<1>7. Deriving(p)' =>
          /\ (work'.blocked <=> status'[p]) \/ Owed(p)'
          /\ work'.at = "cas" => Right(work.next, p)' \/ Owed(p)'
          /\ work'.at = "reread" => \/ Right(shelf[Home].names, p)' \/ Owed(p)'
                                    \/ p \in work'.have <=> p \in shelf'[Home].names
  BY <1>1 DEF TruthOK, Deriving, Right
<1> QED
  BY <1>4, <1>5, <1>6, <1>7 DEF TruthOK

LEMMA TruthKept ==
  ASSUME course' = course, Home' = Home, NEW p \in Projects, status'[p] = status[p],
         left'.edits[p] = left.edits[p], UNCHANGED <<work, sweep>>, Owed(p)' <=> Owed(p),
         (p \in shelf'[Home].names <=> p \in shelf[Home].names) \/ (p \in shelf'[Home].names <=> status[p]),
         TruthOK(p)
  PROVE  TruthOK(p)'
  BY TruthSwept DEF Walked

LEMMA TruthOwed ==
  ASSUME course' = course, NEW p \in Projects, status'[p] = status[p],
         left'.edits[p] = left.edits[p], sweep' = sweep, Owed(p), Owed(p)', TruthOK(p)
  PROVE  TruthOK(p)'
<1>1. left'.edits[p] # course'.edits[p]
  BY DEF TruthOK, Untouched
<1>2. Walked' => Right(sweep.walked, p)' \/ ~ Right(sweep.base.names, p)'
  BY DEF TruthOK, Walked, Right
<1> QED
  BY <1>1, <1>2 DEF TruthOK

\* A step of a publish moves neither status, markers nor selections.
LEMMA PublishWorld ==
  ASSUME WorldOK, LiveOK, NEW n, NEW t, NEW u, NEW kind, NEW N, NEW B, Published(n, t, u, kind, N, B),
         left'.switches = left.switches, left'.sweeps = left.sweeps, left'.edits = left.edits,
         left' \in [edits : [Projects -> Nat], sweeps : Nat, switches : Nat, faults : Nat],
         UNCHANGED <<course, status, selected, dirty, poll>>, DOMAIN edit' = Gates
  PROVE  /\ WorldOK' /\ LiveOK' /\ Home' = Home /\ Still' = Still /\ \A p \in Projects : Churned(p)' = Churned(p)
         /\ u \in Publishes(kind, N, B)' /\ (Still => Home \in InUse)
<1>1. Rise /\ live' \in Lives /\ (\A m \in Gates : LiveAt(live[m])') /\ u \in Publishes(kind, N, B)
  BY DEF Published, Lives
<1>2. /\ left.edits \in [Projects -> Nat] /\ left.sweeps \in Nat /\ left.switches \in Nat
      /\ status \in [Projects -> BOOLEAN] /\ dirty \subseteq Projects /\ DOMAIN poll = Gates
  BY DEF WorldOK
<1>3. (\A p \in Projects : left'.edits[p] <= left.edits[p]) /\ left'.sweeps <= left.sweeps /\ left'.switches <= left.switches
  BY <1>2
<1>4. WorldOK'
  BY <1>1, <1>2, <1>3, WorldKept
<1>5. LiveOK'
  BY <1>1, LiveBack
<1>6. Home' = Home /\ Still' = Still /\ \A p \in Projects : Churned(p)' = Churned(p)
  BY DEF Home, Still, Churned, InUse
<1>7. u \in Publishes(kind, N, B)'
  BY <1>1 DEF Publishes, InUse
<1>8. Home \in InUse
  BY HomeInUse
<1> QED
  BY <1>4, <1>5, <1>6, <1>7, <1>8

LEMMA PublishOneKeeps ==
  ASSUME QuarantineInv, NEW n \in Gates, PublishOne(n)
  PROVE  QuarantineInv'
<1>1. /\ WorldOK /\ LiveOK /\ (\A m \in Gates : EditOK(m)) /\ WorkOK /\ SweepOK /\ BaseOK
      /\ Still => \A p \in Projects : Churned(p) \/ TruthOK(p)
  BY DEF QuarantineInv
<1>2. PICK t : t = edit[n]
  OBVIOUS
<1>3. PICK u : PublishStep(n, t, u) /\ edit' = [edit EXCEPT ![n] = u]
  BY <1>2 DEF PublishOne
<1>4. /\ t.at \in {"read", "cas", "peers", "adopt"}
      /\ UNCHANGED <<course, status, selected, dirty, work, poll, sweep>>
  BY <1>2 DEF PublishOne
<1>5. t \in Publishes("one", Projects, {{}}) /\ t.at # "reread" /\ TaskOK(t) /\ OneName(t)
  BY <1>1, <1>2, <1>4 DEF EditOK, NoTask
<1>6. DOMAIN edit = Gates /\ DOMAIN edit' = Gates /\ edit'[n] = u /\ \A m \in Gates : m # n => edit'[m] = edit[m]
  BY <1>1, <1>3 DEF WorldOK
<1>7. /\ Published(n, t, u, "one", Projects, {{}})
      /\ left'.switches = left.switches /\ left'.sweeps = left.sweeps /\ left'.edits = left.edits
      /\ left' \in [edits : [Projects -> Nat], sweeps : Nat, switches : Nat, faults : Nat]
  BY <1>1, <1>3, <1>4, <1>5, PublishSound
<1>8. /\ u \in Publishes("one", Projects, {{}}) /\ Same(t, u) /\ Moves(t, u) /\ Wrote(t, u)
      /\ Rise /\ TaskOK(u)'
  BY <1>7 DEF Published
<1>9. /\ WorldOK' /\ LiveOK' /\ Home' = Home /\ Still' = Still /\ \A p \in Projects : Churned(p)' = Churned(p)
      /\ u \in Publishes("one", Projects, {{}})'
  BY <1>1, <1>4, <1>6, <1>7, PublishWorld
<1>10. t.kind = "one" /\ t.name \in Projects /\ t.blocked \in BOOLEAN /\ t # NoTask /\ u # NoTask
       /\ u.name = t.name /\ u.have \subseteq Projects
  BY <1>5, <1>8, PublishFields DEF Same
<1>11. u.at # "reread" /\ OneName(u)
  <2>1. u.at # "reread"
    BY <1>4, <1>10, <1>8 DEF Moves
  <2>2. u.at = "cas" => u.next = With(u.have, u.name, t.blocked)
    BY <1>4, <1>10, <1>8 DEF Moves
  <2> QED
    BY <1>10, <2>1, <2>2, WithFacts DEF OneName
<1>12. ASSUME NEW m \in Gates
       PROVE  EditOK(m)'
  <2>1. CASE m # n
    BY <1>1, <1>6, <1>8, <2>1, EditKept
  <2>2. CASE m = n
    BY <1>6, <1>8, <1>9, <1>11, <2>2 DEF EditOK, OneName
  <2> QED
    BY <2>1, <2>2
<1>13. WorkOK' /\ SweepOK' /\ BaseOK'
  BY <1>1, <1>4, <1>7, <1>8, WorkKept, SweepKept
<1>14. ASSUME Still, NEW p \in Projects, ~ Churned(p)
       PROVE  TruthOK(p)'
  <2>1. TruthOK(p)
    BY <1>1, <1>14
  <2>2. Editing(p)' <=> Editing(p)
    BY <1>2, <1>6, <1>10 DEF Editing
  <2>3. Owed(p)' <=> Owed(p)
    BY <1>4, <2>2 DEF Owed
  <2>4. CASE p = t.name
    <3>1. Editing(p)
      BY <1>2, <1>10, <2>4 DEF Editing
    <3>2. Owed(p) /\ Owed(p)'
      BY <2>3, <3>1 DEF Owed
    <3> QED
      BY <1>4, <1>7, <2>1, <3>2, TruthOwed
  <2>5. CASE p # t.name
    <3>1. p \in shelf'[Home].names <=> p \in shelf[Home].names
      BY <1>5, <1>8, <1>14, <2>5 DEF Wrote, OneName
    <3> QED
      BY <1>4, <1>7, <1>9, <2>1, <2>3, <3>1, TruthKept
  <2> QED
    BY <2>4, <2>5
<1> QED
  BY <1>9, <1>12, <1>13, <1>14 DEF QuarantineInv

\* A name that the leader is not deriving, whatever the derivation does.
LEMMA TruthAside ==
  ASSUME course' = course, Home' = Home, NEW p \in Projects, status'[p] = status[p],
         left'.edits[p] = left.edits[p], sweep' = sweep, ~ Deriving(p), ~ Deriving(p)', Owed(p)' <=> Owed(p),
         p \in shelf'[Home].names <=> p \in shelf[Home].names, TruthOK(p)
  PROVE  TruthOK(p)'
<1>1. left'.edits[p] = course'.edits[p] => Untouched(p)'
  BY DEF TruthOK, Untouched, Walked, Right
<1>2. Walked' => Right(sweep.walked, p)' \/ ~ Right(sweep.base.names, p)'
  BY DEF TruthOK, Walked, Right
<1>3. Right(shelf[Home].names, p)' \/ Owed(p)'
  BY DEF TruthOK, Right
<1> QED
  BY <1>1, <1>2, <1>3 DEF TruthOK

LEMMA DrainPublishKeeps ==
  ASSUME QuarantineInv, DrainPublish
  PROVE  QuarantineInv'
<1>1. /\ WorldOK /\ LiveOK /\ (\A m \in Gates : EditOK(m)) /\ WorkOK /\ SweepOK /\ BaseOK
      /\ Still => \A p \in Projects : Churned(p) \/ TruthOK(p)
  BY DEF QuarantineInv
<1>2. PICK t : t = work
  OBVIOUS
<1>3. PICK u : PublishStep(Leader, t, u) /\ work' = u
  BY <1>2 DEF DrainPublish
<1>4. /\ t.at \in {"read", "reread", "cas", "peers", "adopt"}
      /\ UNCHANGED <<course, status, selected, dirty, edit, poll, sweep>>
  BY <1>2 DEF DrainPublish
<1>5. t \in Publishes("derive", Projects, {{}}) /\ t.at # "arm" /\ TaskOK(t) /\ OneName(t)
  BY <1>1, <1>2, <1>4 DEF WorkOK, NoTask
<1>6. Leader \in Gates /\ DOMAIN edit' = Gates
  BY <1>1, <1>4, HomeInUse DEF WorldOK
<1>7. /\ Published(Leader, t, u, "derive", Projects, {{}})
      /\ left'.switches = left.switches /\ left'.sweeps = left.sweeps /\ left'.edits = left.edits
      /\ left' \in [edits : [Projects -> Nat], sweeps : Nat, switches : Nat, faults : Nat]
  BY <1>1, <1>3, <1>4, <1>5, <1>6, PublishSound
<1>8. /\ u \in Publishes("derive", Projects, {{}}) /\ Same(t, u) /\ Moves(t, u) /\ Wrote(t, u)
      /\ Rise /\ TaskOK(u)'
  BY <1>7 DEF Published
<1>9. /\ WorldOK' /\ LiveOK' /\ Home' = Home /\ Still' = Still /\ \A p \in Projects : Churned(p)' = Churned(p)
      /\ u \in Publishes("derive", Projects, {{}})'
  BY <1>1, <1>4, <1>6, <1>7, PublishWorld
<1>10. /\ t.kind = "derive" /\ t.name \in Projects /\ t.blocked \in BOOLEAN /\ t # NoTask /\ u # NoTask
       /\ u.name = t.name /\ u.have \subseteq Projects /\ t.have \subseteq Projects /\ u.blocked = t.blocked
  BY <1>5, <1>8, PublishFields DEF Same
<1>11. u.at # "arm" /\ OneName(u)
  <2>1. u.at # "arm"
    BY <1>8 DEF Moves
  <2>2. u.at = "cas" => \E v \in BOOLEAN : u.next = With(u.have, u.name, v)
    BY <1>1, <1>10, <1>8 DEF Moves, WorldOK
  <2> QED
    BY <1>10, <2>1, <2>2, WithFacts DEF OneName
<1>12. \A m \in Gates : EditOK(m)'
  BY <1>1, <1>4, <1>8, EditKept
<1>13. WorkOK'
  BY <1>3, <1>8, <1>9, <1>11 DEF WorkOK, OneName
<1>14. SweepOK' /\ BaseOK'
  BY <1>1, <1>4, <1>7, <1>8, SweepKept
<1>15. ASSUME Still, NEW p \in Projects, ~ Churned(p)
       PROVE  TruthOK(p)'
  <2>1. TruthOK(p)
    BY <1>1, <1>15
  <2>2. Owed(p)' <=> Owed(p)
    BY <1>4 DEF Owed, Editing
  <2>3. CASE p # t.name
    <3>1. p \in shelf'[Home].names <=> p \in shelf[Home].names
      BY <1>5, <1>8, <1>15, <2>3 DEF Wrote, OneName
    <3>2. ~ Deriving(p) /\ ~ Deriving(p)'
      BY <1>2, <1>3, <1>10, <2>3 DEF Deriving
    <3> QED
      BY <1>4, <1>7, <1>9, <2>1, <2>2, <3>1, <3>2, TruthAside
  <2>4. CASE Owed(p)
    BY <1>4, <1>7, <2>1, <2>2, <2>4, TruthOwed
  <2>5. CASE p = t.name /\ ~ Owed(p)
    <3>1. Deriving(p) /\ Deriving(p)'
      BY <1>2, <1>3, <1>10, <2>5 DEF Deriving
    <3>2. left'.edits[p] # course'.edits[p]
      BY <1>4, <1>7, <2>1, <3>1 DEF TruthOK, Untouched
    <3>3. Walked' => Right(sweep.walked, p)' \/ ~ Right(sweep.base.names, p)'
      BY <1>4, <2>1 DEF TruthOK, Walked, Right
    <3>4. PICK h, H, s : h = shelf[Home].names /\ H = shelf'[Home].names /\ s = status[p]
      OBVIOUS
    <3>5. /\ s \in BOOLEAN /\ h \subseteq Projects /\ (t.blocked <=> s)
          /\ t.at = "cas" => (p \in t.next <=> s)
          /\ t.at = "reread" => (p \in h <=> s) \/ (p \in t.have <=> p \in h)
          /\ (p \in h <=> s) \/ t.at \in {"read", "reread", "cas", "failed"}
      <4>1. s \in BOOLEAN /\ h \subseteq Projects
        BY <1>1, <3>4, HomeInUse, ShelfTypes DEF WorldOK
      <4> QED
        BY <1>2, <2>1, <2>5, <3>1, <3>4, <4>1 DEF TruthOK, Right
    <3>6. \A k \in SUBSET Projects, v \in BOOLEAN :
             (p \in With(k, p, v) <=> v) /\ (With(k, p, v) = k => (p \in k <=> v))
      BY WithFacts
    <3>7. \A k : Next1(t, k) = With(k, p, t.blocked)
      BY <1>10, <2>5 DEF Next1
    <3>8. Wrote(t, u) /\ Still
      BY <1>8, <1>15
    <3>9. /\ (p \in H <=> s) \/ u.at \in {"read", "reread", "cas", "failed"}
          /\ u.at = "cas" => (p \in u.next <=> s)
          /\ u.at = "reread" => (p \in H <=> s) \/ (p \in u.have <=> p \in H)
      <4>1. CASE t.at = "read"
        <5>1. H = h
          BY <3>4, <3>8, <4>1 DEF Wrote
        <5>2. CASE u.at = "done"
          <6>1. With(h, p, t.blocked) = h
            BY <1>8, <3>4, <3>7, <3>8, <4>1, <5>2 DEF Moves
          <6> QED
            BY <1>10, <3>5, <3>6, <5>1, <5>2, <6>1
        <5>3. CASE u.at # "done"
          <6>1. u.at = "failed" \/ (u.at = "reread" /\ u.have = h)
            BY <1>8, <1>10, <3>4, <3>8, <4>1, <5>3 DEF Moves
          <6> QED
            BY <5>1, <6>1
        <5> QED
          BY <5>2, <5>3
      <4>2. CASE t.at = "reread"
        <5>1. H = h
          BY <3>4, <3>8, <4>2 DEF Wrote
        <5>2. CASE u.at = "done"
          <6>1. With(t.have, p, s) = t.have
            BY <1>8, <2>5, <3>4, <4>2, <5>2 DEF Moves
          <6> QED
            BY <1>10, <3>5, <3>6, <4>2, <5>1, <5>2, <6>1
        <5>3. CASE u.at = "cas"
          <6>1. u.next = With(t.have, p, s)
            BY <1>8, <2>5, <3>4, <4>2, <5>3 DEF Moves
          <6>2. p \in With(t.have, p, s) <=> s
            BY <1>10, <3>5, <3>6
          <6> QED
            BY <5>3, <6>1, <6>2
        <5>4. CASE u.at \notin {"done", "cas"}
          BY <1>8, <4>2, <5>4 DEF Moves
        <5> QED
          BY <5>2, <5>3, <5>4
      <4>3. CASE t.at = "cas"
        BY <1>8, <3>4, <3>5, <3>8, <4>3 DEF Moves, Wrote
      <4>4. CASE t.at \in {"peers", "adopt"}
        BY <1>8, <3>4, <3>5, <3>8, <4>4 DEF Moves, Wrote
      <4> QED
        BY <1>4, <4>1, <4>2, <4>3, <4>4
    <3>10. status'[p] = s /\ shelf'[Home'].names = H /\ work' = u /\ (u.blocked <=> s)
      BY <1>3, <1>4, <1>9, <1>10, <3>4, <3>5
    <3> QED
      BY <3>1, <3>2, <3>3, <3>9, <3>10 DEF TruthOK, Right
  <2> QED
    BY <2>3, <2>4, <2>5
<1> QED
  BY <1>9, <1>12, <1>13, <1>14, <1>15 DEF QuarantineInv

\* What the sweep writes for one name: what the set had, or what the walk read where the
\* set still has what the base had.
LEMMA MergedFacts ==
  ASSUME NEW t, NEW have, shelf[t.on].epoch = t.base.epoch => have = t.base.names, NEW p
  PROVE  \/ p \in Merged(t, have) <=> p \in have
         \/ (p \in have <=> p \in t.base.names) /\ (p \in Merged(t, have) <=> p \in t.walked)
  BY DEF Merged

LEMMA SweepPublishKeeps ==
  ASSUME QuarantineInv, SweepPublish
  PROVE  QuarantineInv'
<1>1. /\ WorldOK /\ LiveOK /\ (\A m \in Gates : EditOK(m)) /\ WorkOK /\ SweepOK /\ BaseOK
      /\ Still => \A p \in Projects : Churned(p) \/ TruthOK(p)
  BY DEF QuarantineInv
<1>2. PICK t : t = sweep
  OBVIOUS
<1>3. PICK u : PublishStep(Leader, t, u) /\ sweep' = u
  BY <1>2 DEF SweepPublish
<1>4. /\ t.at \in {"read", "cas", "peers", "adopt"}
      /\ UNCHANGED <<course, status, selected, dirty, edit, work, poll>>
  BY <1>2 DEF SweepPublish
<1>5. /\ t \in Publishes("sweep", {SweepName}, Bases) /\ t.at \notin {"arm", "reread"} /\ TaskOK(t)
      /\ Still /\ t.at = "cas" => \A p \in Projects :
            \/ p \in t.next <=> p \in t.have
            \/ (p \in t.have <=> p \in t.base.names) /\ (p \in t.next <=> p \in t.walked)
  BY <1>1, <1>2, <1>4 DEF SweepOK, NoTask
<1>6. Leader \in Gates /\ Home \in InUse /\ DOMAIN edit' = Gates
  BY <1>1, <1>4, HomeInUse DEF WorldOK
<1>7. /\ Published(Leader, t, u, "sweep", {SweepName}, Bases)
      /\ left'.switches = left.switches /\ left'.sweeps = left.sweeps /\ left'.edits = left.edits
      /\ left' \in [edits : [Projects -> Nat], sweeps : Nat, switches : Nat, faults : Nat]
  BY <1>1, <1>3, <1>4, <1>5, <1>6, PublishSound
<1>8. /\ u \in Publishes("sweep", {SweepName}, Bases) /\ Same(t, u) /\ Moves(t, u) /\ Wrote(t, u)
      /\ Rise /\ TaskOK(u)'
  BY <1>7 DEF Published
<1>9. /\ WorldOK' /\ LiveOK' /\ Home' = Home /\ Still' = Still /\ \A p \in Projects : Churned(p)' = Churned(p)
      /\ u \in Publishes("sweep", {SweepName}, Bases)'
  BY <1>1, <1>4, <1>6, <1>7, PublishWorld
<1>10. /\ t.kind = "sweep" /\ t # NoTask /\ u # NoTask /\ t.base \in Bases
       /\ u.base = t.base /\ u.walked = t.walked
  BY <1>5, <1>8, PublishFields DEF Same
<1>11. u.at \notin {"arm", "reread", "walk"}
  BY <1>4, <1>8, <1>10 DEF Moves
<1>12. Still => /\ t.on = Home /\ t.base.epoch <= shelf[Home].epoch
                /\ t.base.epoch = shelf[Home].epoch => t.base.names = shelf[Home].names
  BY <1>1, <1>2, <1>5, <1>10 DEF BaseOK, TaskOK
<1>13. ASSUME Still, u.at = "cas", NEW p \in Projects
       PROVE  \/ p \in u.next <=> p \in u.have
              \/ (p \in u.have <=> p \in u.base.names) /\ (p \in u.next <=> p \in u.walked)
  <2>1. u.have = shelf[Home].names /\ u.next = Next1(t, u.have)
    BY <1>4, <1>8, <1>13 DEF Moves
  <2>2. PICK have : have = u.have
    OBVIOUS
  <2>3. u.next = Merged(t, have)
    BY <1>10, <2>1, <2>2 DEF Next1
  <2>4. shelf[t.on].epoch = t.base.epoch => have = t.base.names
    BY <1>12, <1>13, <2>1, <2>2
  <2>5. \/ p \in Merged(t, have) <=> p \in have
        \/ (p \in have <=> p \in t.base.names) /\ (p \in Merged(t, have) <=> p \in t.walked)
    BY <2>4, MergedFacts
  <2> QED
    BY <1>10, <2>2, <2>3, <2>5
<1>14. SweepOK'
  BY <1>3, <1>8, <1>9, <1>11, <1>13 DEF SweepOK
<1>15. BaseOK'
  <2>1. PICK names, epoch : names = t.base.names /\ epoch = t.base.epoch
    OBVIOUS
  <2>2. epoch \in Nat
    BY <1>10, <2>1 DEF Bases
  <2>3. Still => Backed(names, epoch)
    BY <1>6, <1>12, <2>1 DEF Backed
  <2>4. Still' => Backed(names, epoch)'
    BY <1>1, <1>8, <1>9, <2>2, <2>3, BackedRise
  <2>5. left'.sweeps < course'.sweeps
    BY <1>1, <1>2, <1>4, <1>7, <1>10 DEF BaseOK
  <2> QED
    BY <1>3, <1>10, <2>1, <2>4, <2>5 DEF BaseOK, Backed
<1>16. (\A m \in Gates : EditOK(m)') /\ WorkOK'
  BY <1>1, <1>4, <1>8, EditKept, WorkKept
<1>17. /\ Walked /\ Walked' /\ sweep # NoTask /\ sweep' # NoTask /\ sweep'.base = sweep.base
       /\ sweep'.walked = sweep.walked
  BY <1>2, <1>3, <1>4, <1>10, <1>11 DEF Walked
<1>18. ASSUME Still, NEW p \in Projects, ~ Churned(p)
       PROVE  TruthOK(p)'
  <2>1. TruthOK(p)
    BY <1>1, <1>18
  <2>2. Owed(p)' <=> Owed(p)
    BY <1>4 DEF Owed, Editing
  <2>3. (p \in t.walked <=> status[p]) \/ ~ (p \in t.base.names <=> status[p])
    BY <1>2, <1>17, <2>1 DEF TruthOK, Right
  <2>4. status[p] \in BOOLEAN
    BY <1>1 DEF WorldOK
  <2>5. (p \in shelf'[Home].names <=> p \in shelf[Home].names) \/ (p \in shelf'[Home].names <=> status[p])
    <3>1. CASE shelf'[Home] = shelf[Home]
      BY <3>1
    <3>2. CASE t.at = "cas" /\ t.have = shelf[Home].names /\ shelf'[Home].names = t.next
      BY <1>5, <1>18, <2>3, <2>4, <3>2
    <3> QED
      BY <1>8, <1>18, <3>1, <3>2 DEF Wrote
  <2> QED
    BY <1>4, <1>7, <1>9, <1>17, <2>1, <2>2, <2>5, TruthSwept
<1> QED
  BY <1>9, <1>14, <1>15, <1>16, <1>18 DEF QuarantineInv

-----------------------------------------------------------------------------
(* The steps that leave every shelf as it is.                               *)

Budgets == [edits : [Projects -> Nat], sweeps : Nat, switches : Nat, faults : Nat]

LEMMA ShelvesRest ==
  ASSUME WorldOK, LiveOK, UNCHANGED <<course, selected, shelf>>, left'.switches = left.switches,
         left' \in Budgets, \A p \in Projects : left'.edits[p] <= left.edits[p], left'.sweeps <= left.sweeps,
         status' \in [Projects -> BOOLEAN], dirty' \subseteq Projects,
         live' = live \/ (live' \in Lives /\ \A m \in Gates : LiveAt(live[m])'),
         DOMAIN edit' = Gates, DOMAIN poll' = Gates, \A m \in Gates : poll'[m] \in {poll[m], NoTask}
  PROVE  Rise /\ WorldOK' /\ LiveOK' /\ Home' = Home /\ (Still' <=> Still)
<1>1. Rise
  BY StillRise
<1>2. live' \in Lives /\ \A m \in Gates : LiveAt(live[m])'
  BY <1>1, LiveKept DEF Lives
<1>3. left'.switches <= left.switches
  BY DEF WorldOK
<1>4. WorldOK'
  BY <1>1, <1>2, <1>3, WorldKept DEF Budgets
<1>5. LiveOK'
  BY <1>1, <1>2, LiveBack
<1>6. Home' = Home /\ (Still' <=> Still)
  BY DEF Home, Still, InUse
<1> QED
  BY <1>1, <1>4, <1>5, <1>6

LEMMA WorldTypes ==
  ASSUME WorldOK
  PROVE  /\ left \in Budgets /\ status \in [Projects -> BOOLEAN] /\ dirty \subseteq Projects
         /\ left.edits \in [Projects -> Nat] /\ left.sweeps \in Nat
         /\ course.edits \in [Projects -> Nat] /\ course.sweeps \in Nat /\ course.switches \in Nat
         /\ (\A p \in Projects : left.edits[p] <= left.edits[p]) /\ left.sweeps <= left.sweeps
         /\ DOMAIN edit = Gates /\ DOMAIN poll = Gates
<1>1. /\ left \in Budgets /\ status \in [Projects -> BOOLEAN] /\ dirty \subseteq Projects
      /\ course \in Courses /\ DOMAIN edit = Gates /\ DOMAIN poll = Gates
  BY DEF WorldOK, Budgets
<1>2. left.edits \in [Projects -> Nat] /\ left.sweeps \in Nat
  BY <1>1 DEF Budgets
<1> QED
  BY <1>1, <1>2, QuarantineAssumption

LEMMA TaskFields ==
  ASSUME NEW kind, NEW b \in InUse, NEW N, NEW p \in N, NEW blocked \in BOOLEAN,
         NEW walked \in SUBSET Projects, NEW B, NEW base \in B,
         NEW t, t = Task(kind, b, p, blocked, walked, base)
  PROVE  /\ t \in Publishes(kind, N, B) /\ t # NoTask
         /\ t.at = "read" /\ t.on = b /\ t.name = p /\ t.blocked = blocked /\ t.walked = walked /\ t.base = base
<1>1. t \in Publishes(kind, N, B) /\ t.at = "read" /\ t.on = b /\ t.name = p /\ t.blocked = blocked
      /\ t.walked = walked /\ t.base = base
  BY DEF Task, Publishes, Stages
<1> QED
  BY <1>1, PublishFields

LEMMA NamedTask ==
  ASSUME NEW kind, NEW b \in InUse, NEW p \in Projects, NEW blocked \in BOOLEAN,
         NEW t, t = Task(kind, b, p, blocked, {}, {})
  PROVE  /\ t \in Publishes(kind, Projects, {{}}) /\ t # NoTask
         /\ t.at = "read" /\ t.on = b /\ t.name = p /\ t.blocked = blocked
<1>1. PICK none, B : none = {} /\ B = {{}}
  OBVIOUS
<1>2. none \in SUBSET Projects /\ none \in B /\ t = Task(kind, b, p, blocked, none, none)
  BY <1>1
<1>3. /\ t \in Publishes(kind, Projects, B) /\ t # NoTask
      /\ t.at = "read" /\ t.on = b /\ t.name = p /\ t.blocked = blocked
  BY <1>2, TaskFields
<1> QED
  BY <1>1, <1>3

LEMMA WriteStatusKeeps ==
  ASSUME QuarantineInv, NEW n \in Gates, WriteStatus(n)
  PROVE  QuarantineInv'
<1>1. /\ WorldOK /\ LiveOK /\ (\A m \in Gates : EditOK(m)) /\ WorkOK /\ SweepOK /\ BaseOK
      /\ Still => \A p \in Projects : Churned(p) \/ TruthOK(p)
  BY DEF QuarantineInv
<1>2. PICK q \in Projects :
         /\ left.edits[q] > 0 /\ left' = [left EXCEPT !.edits[q] = @ - 1]
         /\ status' = [status EXCEPT ![q] = ~ @]
         /\ edit' = [edit EXCEPT ![n] = [Task("one", selected[n], q, ~ status[q], {}, {}) EXCEPT !.at = "arm"]]
  BY DEF WriteStatus
<1>3. /\ edit[n] = NoTask
      /\ UNCHANGED <<course, shelf, live, selected, dirty, work, poll, sweep>>
  BY DEF WriteStatus
<1>4. /\ left \in Budgets /\ status \in [Projects -> BOOLEAN] /\ dirty \subseteq Projects
      /\ left.edits \in [Projects -> Nat] /\ left.sweeps \in Nat /\ DOMAIN edit = Gates /\ DOMAIN poll = Gates
      /\ course.edits \in [Projects -> Nat] /\ course.sweeps \in Nat
  BY <1>1, WorldTypes
<1>5. PICK k : k = left.edits[q] - 1
  OBVIOUS
<1>6. PICK e : e = [left.edits EXCEPT ![q] = k]
  OBVIOUS
<1>7. /\ k \in Nat /\ k + 1 = left.edits[q] /\ e \in [Projects -> Nat] /\ e[q] = k
      /\ (\A p \in Projects : p # q => e[p] = left.edits[p]) /\ left' = [left EXCEPT !.edits = e]
  BY <1>2, <1>4, <1>5, <1>6
<1>8. left' \in Budgets /\ left'.edits = e /\ left'.sweeps = left.sweeps /\ left'.switches = left.switches
  BY <1>4, <1>7 DEF Budgets
<1>9. status' \in [Projects -> BOOLEAN] /\ status'[q] = ~ status[q] /\ \A p \in Projects : p # q => status'[p] = status[p]
  BY <1>2, <1>4
<1>10. selected[n] \in InUse /\ (Still => selected[n] = Home)
  BY <1>1 DEF WorldOK
<1>11. PICK v, t : v = (~ status[q]) /\ t = Task("one", selected[n], q, v, {}, {})
  OBVIOUS
<1>12. t \in Publishes("one", Projects, {{}}) /\ t.on = selected[n] /\ t.name = q
  <2>1. v \in BOOLEAN
    BY <1>11
  <2>2. PICK b : b = selected[n]
    OBVIOUS
  <2>3. b \in InUse /\ t = Task("one", b, q, v, {}, {})
    BY <1>10, <1>11, <2>2
  <2>4. t \in Publishes("one", Projects, {{}}) /\ t.on = b /\ t.name = q
    BY <2>1, <2>3, NamedTask
  <2> QED
    BY <2>2, <2>4
<1>13. PICK u : u = [t EXCEPT !.at = "arm"]
  OBVIOUS
<1>14. u \in Publishes("one", Projects, {{}}) /\ u.at = "arm" /\ u.on = selected[n] /\ u.name = q /\ u # NoTask
  BY <1>12, <1>13, PublishFields DEF Stages
<1>15. edit' = [edit EXCEPT ![n] = u]
  BY <1>2, <1>11, <1>13
<1>16. DOMAIN edit' = Gates /\ edit'[n] = u /\ \A m \in Gates : m # n => edit'[m] = edit[m]
  BY <1>4, <1>15
<1>17. (\A p \in Projects : left'.edits[p] <= left.edits[p]) /\ left'.sweeps <= left.sweeps
  BY <1>4, <1>7, <1>8
<1>18. Rise /\ WorldOK' /\ LiveOK' /\ Home' = Home /\ (Still' <=> Still)
  BY <1>1, <1>3, <1>4, <1>8, <1>9, <1>16, <1>17, ShelvesRest
<1>19. ASSUME NEW m \in Gates
       PROVE  EditOK(m)'
  <2>1. CASE m # n
    BY <1>1, <1>16, <1>18, <2>1, EditKept
  <2>2. CASE m = n
    <3>1. u \in Publishes("one", Projects, {{}})'
      BY <1>3, <1>14 DEF Publishes, InUse
    <3>2. TaskOK(u)' /\ OneName(u)'
      BY <1>10, <1>14, <1>18 DEF TaskOK, OneName
    <3> QED
      BY <1>14, <1>16, <2>2, <3>1, <3>2 DEF EditOK, OneName
  <2> QED
    BY <2>1, <2>2
<1>20. WorkOK' /\ SweepOK' /\ BaseOK'
  BY <1>1, <1>3, <1>8, <1>18, WorkKept, SweepKept
<1>21. ASSUME Still, NEW p \in Projects, ~ Churned(p)'
       PROVE  TruthOK(p)'
  <2>1. ~ Churned(p)
    BY <1>3, <1>4, <1>7, <1>8, <1>17, <1>21 DEF Churned
  <2>2. TruthOK(p)
    BY <1>1, <1>21, <2>1
  <2>3. CASE p # q
    <3>1. Owed(p)' <=> Owed(p)
      BY <1>3, <1>14, <1>16, <2>3 DEF Owed, Editing
    <3>2. status'[p] = status[p] /\ left'.edits[p] = left.edits[p]
      BY <1>7, <1>8, <1>9, <2>3
    <3> QED
      BY <1>3, <1>18, <2>2, <3>1, <3>2, TruthKept
  <2>4. CASE p = q
    <3>1. Owed(p)'
      BY <1>14, <1>16, <2>4 DEF Owed, Editing
    <3>2. left'.edits[p] # course'.edits[p]
      BY <1>1, <1>3, <1>4, <1>7, <1>8, <2>4 DEF WorldOK
    <3>3. ASSUME Walked'
          PROVE  ~ Right(sweep.base.names, p)'
      <4>1. left.sweeps < course.sweeps /\ Walked /\ sweep # NoTask
        BY <1>1, <1>3, <3>3 DEF Walked, BaseOK
      <4>2. left.edits[p] <= course.edits[p]
        BY <1>1 DEF WorldOK
      <4>3. left.edits[p] = course.edits[p]
        BY <1>3, <1>4, <1>7, <1>8, <1>21, <2>4, <4>1, <4>2 DEF Churned
      <4>4. Right(sweep.base.names, p)
        BY <2>2, <4>1, <4>3 DEF TruthOK, Untouched
      <4> QED
        BY <1>3, <1>9, <2>4, <4>4 DEF Right
    <3> QED
      BY <3>1, <3>2, <3>3 DEF TruthOK
  <2> QED
    BY <2>3, <2>4
<1> QED
  BY <1>18, <1>19, <1>20, <1>21 DEF QuarantineInv

\* A step of one node's handler or poll that owes the leader no more and no less.
LEMMA NodeStep ==
  ASSUME QuarantineInv, NEW n \in Gates, UNCHANGED <<course, status, shelf, selected, work, sweep>>,
         left'.switches = left.switches, left'.sweeps = left.sweeps, left'.edits = left.edits,
         left' \in Budgets, dirty' \subseteq Projects,
         live' = live \/ (live' \in Lives /\ \A m \in Gates : LiveAt(live[m])'),
         DOMAIN edit' = Gates, DOMAIN poll' = Gates, \A m \in Gates : poll'[m] \in {poll[m], NoTask},
         \A m \in Gates : m # n => edit'[m] = edit[m], EditOK(n)', \A p \in Projects : Owed(p)' <=> Owed(p)
  PROVE  QuarantineInv'
<1>1. /\ WorldOK /\ LiveOK /\ (\A m \in Gates : EditOK(m)) /\ WorkOK /\ SweepOK /\ BaseOK
      /\ Still => \A p \in Projects : Churned(p) \/ TruthOK(p)
  BY DEF QuarantineInv
<1>2. /\ status \in [Projects -> BOOLEAN]
      /\ (\A p \in Projects : left.edits[p] <= left.edits[p]) /\ left.sweeps <= left.sweeps
  BY <1>1, WorldTypes
<1>3. Rise /\ WorldOK' /\ LiveOK' /\ Home' = Home /\ (Still' <=> Still)
  BY <1>1, <1>2, ShelvesRest
<1>4. \A m \in Gates : EditOK(m)'
  BY <1>1, <1>3, EditKept
<1>5. WorkOK' /\ SweepOK' /\ BaseOK'
  BY <1>1, <1>3, WorkKept, SweepKept
<1>6. ASSUME Still, NEW p \in Projects, ~ Churned(p)'
      PROVE  TruthOK(p)'
  <2>1. TruthOK(p)
    BY <1>1, <1>6 DEF Churned
  <2> QED
    BY <1>3, <2>1, TruthKept
<1> QED
  BY <1>3, <1>4, <1>5, <1>6 DEF QuarantineInv

LEMMA ArmKeeps ==
  ASSUME QuarantineInv, NEW n \in Gates, Arm(n)
  PROVE  QuarantineInv'
<1>1. WorldOK /\ LiveOK /\ EditOK(n)
  BY DEF QuarantineInv
<1>2. PICK t : t = edit[n]
  OBVIOUS
<1>3. t.at = "arm" /\ UNCHANGED <<course, left, status, shelf, selected, dirty, work, poll, sweep>>
  BY <1>2 DEF Arm
<1>4. t \in Publishes("one", Projects, {{}}) /\ TaskOK(t)
  BY <1>1, <1>2, <1>3 DEF EditOK, NoTask
<1>5. PICK u : u = [t EXCEPT !.at = "read"]
  OBVIOUS
<1>6. u \in Publishes("one", Projects, {{}}) /\ u.at = "read" /\ u.on = t.on /\ u.name = t.name
  BY <1>4, <1>5, PublishFields DEF Stages
<1>7. t # NoTask /\ u # NoTask /\ t.name \in Projects /\ t.blocked \in BOOLEAN
  BY <1>4, <1>6, PublishFields
<1>8. left \in Budgets /\ dirty \subseteq Projects /\ DOMAIN edit = Gates /\ DOMAIN poll = Gates
  BY <1>1, WorldTypes
<1>9. edit' = [edit EXCEPT ![n] = u]
  BY <1>2, <1>5 DEF Arm
<1>10. DOMAIN edit' = Gates /\ edit'[n] = u /\ \A m \in Gates : m # n => edit'[m] = edit[m]
  BY <1>8, <1>9
<1>11. Rise
  BY <1>1, <1>3, StillRise
<1>12. EditOK(n)'
  <2>1. u \in Publishes("one", Projects, {{}})'
    BY <1>3, <1>6 DEF Publishes, InUse
  <2>2. TaskOK(u)'
    BY <1>4, <1>6, <1>11 DEF TaskOK, Rise
  <2> QED
    BY <1>6, <1>10, <2>1, <2>2 DEF EditOK, OneName
<1>13. live' \in Lives /\ \A m \in Gates : LiveAt(live[m])'
  <2>1. PICK l, k : l = live[n] /\ k = arm_local_quarantine(n, t.name, t.blocked)
    OBVIOUS
  <2>2. LiveAt(l)
    BY <1>1, <2>1, LiveParts
  <2>3. LiveAt(k)
    <3>1. CASE k = l
      BY <2>2, <3>1
    <3>2. CASE k # l
      <4>1. PICK s : s = IF t.blocked THEN l.names \cup {t.name} ELSE l.names \ {t.name}
        OBVIOUS
      <4>2. k = [l EXCEPT !.names = s, !.pending = TRUE]
        BY <2>1, <3>2, <4>1 DEF arm_local_quarantine
      <4>3. l \in [names : SUBSET Projects, epoch : Nat, tag : Nat, pending : BOOLEAN]
        BY <2>2 DEF LiveAt
      <4>4. s \in SUBSET Projects
        BY <1>7, <4>1, <4>3
      <4>5. /\ k \in [names : SUBSET Projects, epoch : Nat, tag : Nat, pending : BOOLEAN]
            /\ k.epoch = l.epoch /\ k.pending
        BY <4>2, <4>3, <4>4
      <4> QED
        BY <2>2, <4>5 DEF LiveAt
    <3> QED
      BY <3>1, <3>2
  <2>4. live' = [live EXCEPT ![n] = k]
    BY <1>2, <2>1 DEF Arm
  <2> QED
    BY <1>1, <1>3, <2>3, <2>4, LivePut DEF Lives
<1>14. ASSUME NEW p \in Projects
       PROVE  Owed(p)' <=> Owed(p)
  BY <1>2, <1>3, <1>6, <1>7, <1>10 DEF Owed, Editing
<1>15. \A m \in Gates : poll'[m] \in {poll[m], NoTask}
  BY <1>3
<1> QED
  BY <1>3, <1>8, <1>10, <1>12, <1>13, <1>14, <1>15, NodeStep

LEMMA CommitMarkerKeeps ==
  ASSUME QuarantineInv, NEW n \in Gates, CommitMarker(n)
  PROVE  QuarantineInv'
<1>1. WorldOK /\ LiveOK /\ EditOK(n)
  BY DEF QuarantineInv
<1>2. PICK t : t = edit[n]
  OBVIOUS
<1>3. /\ t.at \in {"done", "failed"} /\ dirty' = dirty \cup {t.name} /\ edit' = [edit EXCEPT ![n] = NoTask]
      /\ UNCHANGED <<course, left, status, shelf, live, selected, work, poll, sweep>>
  BY <1>2 DEF CommitMarker, Markable
<1>4. t \in Publishes("one", Projects, {{}})
  BY <1>1, <1>2, <1>3 DEF EditOK, NoTask
<1>5. t # NoTask /\ t.name \in Projects
  BY <1>4, PublishFields
<1>6. left \in Budgets /\ dirty' \subseteq Projects /\ DOMAIN edit = Gates /\ DOMAIN poll' = Gates
  BY <1>1, <1>3, <1>5, WorldTypes
<1>7. DOMAIN edit' = Gates /\ edit'[n] = NoTask /\ \A m \in Gates : m # n => edit'[m] = edit[m]
  BY <1>3, <1>6
<1>8. EditOK(n)'
  BY <1>7 DEF EditOK
<1>9. ASSUME NEW p \in Projects
      PROVE  Owed(p)' <=> Owed(p)
  BY <1>2, <1>3, <1>5, <1>7 DEF Owed, Editing
<1>10. \A m \in Gates : poll'[m] \in {poll[m], NoTask}
  BY <1>3
<1> QED
  BY <1>3, <1>6, <1>7, <1>8, <1>9, <1>10, NodeStep

LEMMA CrashInEditKeeps ==
  ASSUME QuarantineInv, NEW n \in Gates, CrashInEdit(n)
  PROVE  QuarantineInv'
<1>1. WorldOK /\ LiveOK /\ EditOK(n)
  BY DEF QuarantineInv
<1>2. PICK t : t = edit[n]
  OBVIOUS
<1>3. PICK body : body = shelf[selected[n]]
  OBVIOUS
<1>4. PICK l : l = [names |-> body.names, epoch |-> body.epoch, tag |-> body.tag, pending |-> FALSE]
  OBVIOUS
<1>5. /\ t # NoTask /\ Fault /\ dirty' = dirty \cup {t.name} /\ edit' = [edit EXCEPT ![n] = NoTask]
      /\ poll' = [poll EXCEPT ![n] = NoTask] /\ live' = [live EXCEPT ![n] = l]
      /\ UNCHANGED <<course, status, shelf, selected, work, sweep>>
  BY <1>2, <1>3, <1>4 DEF CrashInEdit
<1>6. t \in Publishes("one", Projects, {{}})
  BY <1>1, <1>2, <1>5 DEF EditOK
<1>7. t.name \in Projects
  BY <1>6, PublishFields
<1>8. dirty' \subseteq Projects /\ DOMAIN edit = Gates /\ DOMAIN poll = Gates
  BY <1>1, <1>5, <1>7, WorldTypes
<1>9. /\ left'.switches = left.switches /\ left'.sweeps = left.sweeps /\ left'.edits = left.edits
      /\ left' \in Budgets
  BY <1>1, <1>5, FaultLeaves DEF Budgets
<1>10. DOMAIN edit' = Gates /\ edit'[n] = NoTask /\ \A m \in Gates : m # n => edit'[m] = edit[m]
  BY <1>5, <1>8
<1>11. DOMAIN poll' = Gates /\ \A m \in Gates : poll'[m] \in {poll[m], NoTask}
  BY <1>5, <1>8
<1>12. live' \in Lives /\ \A m \in Gates : LiveAt(live[m])'
  <2>1. selected[n] \in InUse /\ (Still => selected[n] = Home)
    BY <1>1 DEF WorldOK
  <2>2. body.names \subseteq Projects /\ body.epoch \in Nat \ {0} /\ body.tag \in Nat
    BY <1>1, <1>3, <2>1, ShelfTypes
  <2>3. Backed(body.names, body.epoch)
    BY <1>3, <2>1, <2>2 DEF Backed
  <2>4. /\ l \in [names : SUBSET Projects, epoch : Nat, tag : Nat, pending : BOOLEAN]
        /\ l.names = body.names /\ l.epoch = body.epoch
    BY <1>4, <2>2
  <2>5. LiveAt(l)
    BY <2>3, <2>4 DEF LiveAt, Backed
  <2> QED
    BY <1>1, <1>5, <1>9, <2>5, LivePut DEF Lives
<1>13. EditOK(n)'
  BY <1>10 DEF EditOK
<1>14. ASSUME NEW p \in Projects
       PROVE  Owed(p)' <=> Owed(p)
  BY <1>2, <1>5, <1>10 DEF Owed, Editing
<1> QED
  BY <1>5, <1>8, <1>9, <1>10, <1>11, <1>12, <1>13, <1>14, NodeStep

LEMMA PollAdoptKeeps ==
  ASSUME QuarantineInv, NEW n \in Gates, PollAdopt(n)
  PROVE  QuarantineInv'
<1>1. WorldOK /\ LiveOK /\ EditOK(n)
  BY DEF QuarantineInv
<1>2. PICK body : body = poll[n].body
  OBVIOUS
<1>3. /\ poll[n] # NoTask /\ live' = [live EXCEPT ![n] = adopt_quarantined(n, body.names, body.epoch, body.tag)]
      /\ poll' = [poll EXCEPT ![n] = NoTask]
      /\ UNCHANGED <<course, left, status, shelf, selected, dirty, edit, work, sweep>>
  BY <1>2 DEF PollAdopt
<1>4. left \in Budgets /\ dirty \subseteq Projects /\ DOMAIN edit = Gates /\ DOMAIN poll = Gates
  BY <1>1, WorldTypes
<1>5. DOMAIN poll' = Gates /\ \A m \in Gates : poll'[m] \in {poll[m], NoTask}
  BY <1>3, <1>4
<1>6. body \in Bodies /\ Backed(body.names, body.epoch)
  BY <1>1, <1>2, <1>3 DEF LiveOK
<1>7. body.names \in SUBSET Projects /\ body.epoch \in Nat /\ body.tag \in Nat
  BY <1>6 DEF Bodies
<1>8. LiveAt(adopt_quarantined(n, body.names, body.epoch, body.tag))
  BY <1>1, <1>6, <1>7, AdoptLive
<1>9. live' \in Lives /\ \A m \in Gates : LiveAt(live[m])'
  BY <1>1, <1>3, <1>8, LivePut DEF Lives
<1>10. EditOK(n)'
  BY <1>1, <1>3, StillRise, EditKept
<1>11. \A p \in Projects : Owed(p)' <=> Owed(p)
  BY <1>3 DEF Owed, Editing
<1> QED
  BY <1>3, <1>4, <1>5, <1>9, <1>10, <1>11, NodeStep

\* A step of the leader's worker or sweep that touches no bucket and no node.
LEMMA LeaderStep ==
  ASSUME QuarantineInv, UNCHANGED <<course, status, shelf, live, selected, edit, poll>>,
         left'.switches = left.switches, left'.sweeps <= left.sweeps, left'.edits = left.edits,
         left' \in Budgets, dirty' \subseteq Projects, WorkOK', SweepOK', BaseOK',
         \A p \in Projects : Still /\ TruthOK(p) => TruthOK(p)'
  PROVE  QuarantineInv'
<1>1. /\ WorldOK /\ LiveOK /\ (\A m \in Gates : EditOK(m))
      /\ Still => \A p \in Projects : Churned(p) \/ TruthOK(p)
  BY DEF QuarantineInv
<1>2. /\ status \in [Projects -> BOOLEAN] /\ DOMAIN edit = Gates /\ DOMAIN poll = Gates
      /\ left.sweeps \in Nat /\ left.edits \in [Projects -> Nat] /\ course.sweeps \in Nat
      /\ (\A p \in Projects : left.edits[p] <= left.edits[p])
  BY <1>1, WorldTypes
<1>3. \A m \in Gates : poll'[m] \in {poll[m], NoTask}
  OBVIOUS
<1>4. Rise /\ WorldOK' /\ LiveOK' /\ Home' = Home /\ (Still' <=> Still)
  BY <1>1, <1>2, <1>3, ShelvesRest
<1>5. \A m \in Gates : EditOK(m)'
  BY <1>1, <1>4, EditKept
<1>6. ASSUME NEW p \in Projects, Churned(p)
      PROVE  Churned(p)'
  <2>1. left'.sweeps \in Nat
    BY DEF Budgets
  <2> QED
    BY <1>2, <1>6, <2>1 DEF Churned
<1> QED
  BY <1>1, <1>4, <1>5, <1>6 DEF QuarantineInv

LEMMA LeaderRise ==
  ASSUME QuarantineInv, UNCHANGED <<course, shelf, selected>>, left'.switches = left.switches
  PROVE  Rise /\ Home' = Home /\ InUse' = InUse /\ (Still' <=> Still)
<1>1. Rise
  BY StillRise DEF QuarantineInv
<1> QED
  BY <1>1 DEF Still, InUse, Home

LEMMA DrainStartKeeps ==
  ASSUME QuarantineInv, DrainStart
  PROVE  QuarantineInv'
<1>1. WorldOK /\ SweepOK /\ BaseOK
  BY DEF QuarantineInv
<1>2. PICK q \in dirty : work' = Task("derive", selected[Leader], q, status[q], {}, {}) /\ dirty' = dirty \ {q}
  BY DEF DrainStart
<1>3. work = NoTask /\ UNCHANGED <<course, left, status, shelf, live, selected, edit, poll, sweep>>
  BY DEF DrainStart
<1>4. left \in Budgets /\ q \in Projects /\ dirty' \subseteq Projects /\ left.sweeps <= left.sweeps
      /\ status[q] \in BOOLEAN
  BY <1>1, <1>2, WorldTypes
<1>5. Rise /\ Home' = Home /\ InUse' = InUse /\ (Still' <=> Still)
  BY <1>3, LeaderRise
<1>6. PICK b, v : b = Home /\ v = status[q]
  OBVIOUS
<1>7. b \in InUse /\ v \in BOOLEAN /\ work' = Task("derive", b, q, v, {}, {})
  BY <1>1, <1>2, <1>4, <1>6, HomeInUse DEF Home
<1>8. PICK t : t = work'
  OBVIOUS
<1>9. /\ t \in Publishes("derive", Projects, {{}}) /\ t # NoTask
      /\ t.at = "read" /\ t.on = b /\ t.name = q /\ t.blocked = v
  BY <1>4, <1>7, <1>8, NamedTask
<1>10. WorkOK'
  <2>1. t \in Publishes("derive", Projects, {{}})'
    BY <1>5, <1>9 DEF Publishes
  <2>2. TaskOK(t)'
    BY <1>5, <1>6, <1>9 DEF TaskOK
  <2> QED
    BY <1>8, <1>9, <2>1, <2>2 DEF WorkOK, OneName
<1>11. SweepOK' /\ BaseOK'
  BY <1>1, <1>3, <1>5, SweepKept
<1>12. ASSUME NEW p \in Projects, TruthOK(p)
       PROVE  TruthOK(p)'
  <2>1. CASE p # q
    <3>1. Owed(p)' <=> Owed(p)
      BY <1>2, <1>3, <2>1 DEF Owed, Editing
    <3>2. ~ Deriving(p) /\ ~ Deriving(p)'
      BY <1>3, <1>8, <1>9, <2>1 DEF Deriving
    <3> QED
      BY <1>3, <1>5, <1>12, <3>1, <3>2, TruthAside
  <2>2. CASE p = q
    <3>1. Owed(p)
      BY <2>2 DEF Owed
    <3>2. left'.edits[p] # course'.edits[p]
      BY <1>3, <1>12, <3>1 DEF TruthOK, Untouched
    <3>3. Walked' => Right(sweep.walked, p)' \/ ~ Right(sweep.base.names, p)'
      BY <1>3, <1>12 DEF TruthOK, Walked, Right
    <3>4. Deriving(p)' /\ work'.at = "read" /\ (work'.blocked <=> status'[p])
      BY <1>3, <1>6, <1>8, <1>9, <2>2 DEF Deriving
    <3> QED
      BY <3>2, <3>3, <3>4 DEF TruthOK
  <2> QED
    BY <2>1, <2>2
<1> QED
  BY <1>3, <1>4, <1>10, <1>11, <1>12, LeaderStep

LEMMA DrainDoneKeeps ==
  ASSUME QuarantineInv, DrainDone
  PROVE  QuarantineInv'
<1>1. WorldOK /\ SweepOK /\ BaseOK /\ WorkOK
  BY DEF QuarantineInv
<1>2. PICK t : t = work
  OBVIOUS
<1>3. /\ t.at \in {"done", "failed"} /\ dirty' = (IF t.at = "failed" THEN dirty \cup {t.name} ELSE dirty)
      /\ work' = NoTask /\ UNCHANGED <<course, left, status, shelf, live, selected, edit, poll, sweep>>
  BY <1>2 DEF DrainDone
<1>4. t \in Publishes("derive", Projects, {{}})
  BY <1>1, <1>2, <1>3 DEF WorkOK, NoTask
<1>5. t # NoTask /\ t.name \in Projects
  BY <1>4, PublishFields
<1>6. left \in Budgets /\ dirty' \subseteq Projects /\ left.sweeps <= left.sweeps
  BY <1>1, <1>3, <1>5, WorldTypes
<1>7. Rise /\ Home' = Home /\ InUse' = InUse /\ (Still' <=> Still)
  BY <1>3, LeaderRise
<1>8. WorkOK'
  BY <1>3 DEF WorkOK
<1>9. SweepOK' /\ BaseOK'
  BY <1>1, <1>3, <1>7, SweepKept
<1>10. ASSUME NEW p \in Projects, TruthOK(p)
       PROVE  TruthOK(p)'
  <2>1. ~ Deriving(p)'
    BY <1>3 DEF Deriving
  <2>2. CASE p # t.name
    <3>1. Owed(p)' <=> Owed(p)
      BY <1>3, <2>2 DEF Owed, Editing
    <3>2. ~ Deriving(p)
      BY <1>2, <2>2 DEF Deriving
    <3> QED
      BY <1>3, <1>7, <1>10, <2>1, <3>1, <3>2, TruthAside
  <2>3. CASE p = t.name
    <3>1. Deriving(p)
      BY <1>2, <1>5, <2>3 DEF Deriving
    <3>2. left'.edits[p] # course'.edits[p]
      BY <1>3, <1>10, <3>1 DEF TruthOK, Untouched
    <3>3. Walked' => Right(sweep.walked, p)' \/ ~ Right(sweep.base.names, p)'
      BY <1>3, <1>10 DEF TruthOK, Walked, Right
    <3>4. Owed(p) \/ t.at = "failed" => Owed(p)'
      BY <1>3, <2>3 DEF Owed, Editing
    <3>5. Right(shelf[Home].names, p) \/ Owed(p) \/ t.at = "failed"
      BY <1>2, <1>3, <1>10 DEF TruthOK
    <3>6. Right(shelf[Home].names, p)' \/ Owed(p)'
      BY <1>3, <1>7, <3>4, <3>5 DEF Right
    <3> QED
      BY <2>1, <3>2, <3>3, <3>6 DEF TruthOK
  <2> QED
    BY <2>2, <2>3
<1> QED
  BY <1>3, <1>6, <1>8, <1>9, <1>10, LeaderStep

LEMMA SweepStartKeeps ==
  ASSUME QuarantineInv, SweepStart
  PROVE  QuarantineInv'
<1>1. WorldOK /\ WorkOK
  BY DEF QuarantineInv
<1>2. /\ sweep = NoTask /\ left.sweeps > 0 /\ left' = [left EXCEPT !.sweeps = @ - 1]
      /\ sweep' = [at |-> "walk", base |-> shelf[Home], on |-> Home]
      /\ UNCHANGED <<course, status, shelf, live, selected, dirty, edit, work, poll>>
  BY DEF SweepStart, Home
<1>3. left \in Budgets /\ dirty \subseteq Projects /\ left.sweeps \in Nat /\ course.sweeps \in Nat
  BY <1>1, WorldTypes
<1>4. PICK k : k = left.sweeps - 1
  OBVIOUS
<1>5. k \in Nat /\ k < left.sweeps /\ left' = [left EXCEPT !.sweeps = k]
  BY <1>2, <1>3, <1>4
<1>6. /\ left' \in Budgets /\ left'.sweeps = k /\ left'.switches = left.switches /\ left'.edits = left.edits
  BY <1>3, <1>5 DEF Budgets
<1>7. left'.sweeps <= left.sweeps /\ left'.sweeps < course'.sweeps
  BY <1>1, <1>2, <1>3, <1>5, <1>6 DEF WorldOK
<1>8. Rise /\ Home' = Home /\ InUse' = InUse /\ (Still' <=> Still)
  BY <1>2, <1>6, LeaderRise
<1>9. WorkOK'
  BY <1>1, <1>2, <1>8, WorkKept
<1>10. Home \in InUse /\ shelf[Home] \in Bodies
  BY <1>1, HomeInUse DEF WorldOK
<1>11. sweep' \in [at : {"walk"}, base : Bodies, on : InUse] /\ sweep'.at = "walk" /\ sweep' # NoTask
       /\ sweep'.base = shelf[Home] /\ sweep'.on = Home
  BY <1>2, <1>10 DEF NoTask
<1>12. SweepOK'
  BY <1>8, <1>11 DEF SweepOK
<1>13. BaseOK'
  <2>1. shelf[Home].epoch \in Nat
    BY <1>10 DEF Bodies
  <2> QED
    BY <1>2, <1>7, <1>8, <1>11, <2>1 DEF BaseOK
<1>14. ASSUME NEW p \in Projects, TruthOK(p)
       PROVE  TruthOK(p)'
  <2>1. ~ Walked'
    BY <1>11 DEF Walked
  <2>2. (Owed(p)' <=> Owed(p)) /\ (Deriving(p)' <=> Deriving(p))
    BY <1>2 DEF Owed, Editing, Deriving
  <2>3. Right(sweep.base.names, p)' <=> Right(shelf[Home].names, p)
    BY <1>2, <1>11 DEF Right
  <2>4. Right(shelf[Home].names, p)' <=> Right(shelf[Home].names, p)
    BY <1>2, <1>8 DEF Right
  <2>5. left'.edits[p] = course'.edits[p] => Untouched(p)'
    BY <1>2, <1>6, <1>14, <2>1, <2>2, <2>3, <2>4 DEF TruthOK, Untouched
  <2>6. Deriving(p)' =>
          /\ (work'.blocked <=> status'[p]) \/ Owed(p)'
          /\ work'.at = "cas" => Right(work.next, p)' \/ Owed(p)'
          /\ work'.at = "reread" => \/ Right(shelf[Home].names, p)' \/ Owed(p)'
                                    \/ p \in work'.have <=> p \in shelf'[Home'].names
    BY <1>2, <1>8, <1>14, <2>2, <2>4 DEF TruthOK, Right
  <2> QED
    BY <1>2, <1>14, <2>1, <2>2, <2>4, <2>5, <2>6 DEF TruthOK
<1> QED
  BY <1>2, <1>3, <1>6, <1>7, <1>9, <1>12, <1>13, <1>14, LeaderStep

LEMMA TruthWalk ==
  ASSUME UNCHANGED <<course, status, shelf, selected, work, left, dirty, edit>>, NEW p \in Projects,
         Walked' => Right(sweep.walked, p)',
         sweep' # NoTask => sweep # NoTask /\ sweep'.base.names = sweep.base.names, TruthOK(p)
  PROVE  TruthOK(p)'
<1>1. (Owed(p)' <=> Owed(p)) /\ (Deriving(p)' <=> Deriving(p)) /\ Home' = Home
  BY DEF Owed, Editing, Deriving, Home
<1>2. (Right(shelf[Home].names, p)' <=> Right(shelf[Home].names, p)) /\ (Right(work.next, p)' <=> Right(work.next, p))
  BY <1>1 DEF Right
<1>3. sweep' # NoTask => (Right(sweep.base.names, p)' <=> Right(sweep.base.names, p))
  BY DEF Right
<1>4. left'.edits[p] = course'.edits[p] => Untouched(p)'
  BY <1>1, <1>2, <1>3 DEF TruthOK, Untouched
<1> QED
  BY <1>1, <1>2, <1>4 DEF TruthOK

LEMMA SweepWalkKeeps ==
  ASSUME QuarantineInv, SweepWalk
  PROVE  QuarantineInv'
<1>1. WorldOK /\ WorkOK /\ SweepOK /\ BaseOK
  BY DEF QuarantineInv
<1>2. PICK s, base : s = sweep /\ base = [names |-> s.base.names, epoch |-> s.base.epoch]
  OBVIOUS
<1>3. /\ s.at = "walk" /\ sweep' = Task("sweep", s.on, SweepName, FALSE, Blocked, base)
      /\ UNCHANGED <<course, left, status, shelf, live, selected, dirty, edit, work, poll>>
  BY <1>2 DEF SweepWalk, SweepName
<1>4. s # NoTask /\ s \in [at : {"walk"}, base : Bodies, on : InUse] /\ (Still => s.on = Home)
  BY <1>1, <1>2, <1>3 DEF SweepOK, NoTask, Publishes, Stages
<1>5. base \in Bases /\ base.names = s.base.names /\ base.epoch = s.base.epoch /\ s.on \in InUse
  BY <1>2, <1>4 DEF Bases, Bodies
<1>6. PICK b, N, walked, blocked : b = s.on /\ N = {SweepName} /\ walked = Blocked /\ blocked = FALSE
  OBVIOUS
<1>7. PICK t, name : t = sweep' /\ name = SweepName
  OBVIOUS
<1>8. b \in InUse /\ name \in N /\ walked \in SUBSET Projects /\ blocked \in BOOLEAN
      /\ t = Task("sweep", b, name, blocked, walked, base)
  BY <1>3, <1>5, <1>6, <1>7 DEF Blocked
<1>9. t \in Publishes("sweep", N, Bases) /\ t # NoTask /\ t.at = "read" /\ t.on = b /\ t.walked = walked /\ t.base = base
  BY <1>5, <1>8, TaskFields
<1>10. left \in Budgets /\ dirty \subseteq Projects /\ left.sweeps <= left.sweeps
  BY <1>1, WorldTypes
<1>11. Rise /\ Home' = Home /\ InUse' = InUse /\ (Still' <=> Still)
  BY <1>3, LeaderRise
<1>12. WorkOK'
  BY <1>1, <1>3, <1>11, WorkKept
<1>13. SweepOK'
  <2>1. t \in Publishes("sweep", {SweepName}, Bases)'
    BY <1>6, <1>9, <1>11 DEF Publishes
  <2>2. TaskOK(t)'
    BY <1>4, <1>6, <1>9, <1>11 DEF TaskOK
  <2> QED
    BY <1>7, <1>9, <2>1, <2>2 DEF SweepOK
<1>14. BaseOK'
  BY <1>1, <1>2, <1>3, <1>4, <1>5, <1>7, <1>9, <1>11 DEF BaseOK
<1>15. ASSUME NEW p \in Projects, TruthOK(p)
       PROVE  TruthOK(p)'
  <2>1. Right(sweep.walked, p)'
    BY <1>3, <1>6, <1>7, <1>9 DEF Right, Blocked
  <2>2. sweep # NoTask /\ sweep'.base.names = sweep.base.names
    BY <1>2, <1>4, <1>5, <1>7, <1>9
  <2> QED
    BY <1>3, <1>15, <2>1, <2>2, TruthWalk
<1> QED
  BY <1>3, <1>10, <1>12, <1>13, <1>14, <1>15, LeaderStep

LEMMA SweepDoneKeeps ==
  ASSUME QuarantineInv, SweepDone
  PROVE  QuarantineInv'
<1>1. WorldOK /\ WorkOK
  BY DEF QuarantineInv
<1>2. sweep' = NoTask /\ UNCHANGED <<course, left, status, shelf, live, selected, dirty, edit, work, poll>>
  BY DEF SweepDone
<1>3. left \in Budgets /\ dirty \subseteq Projects /\ left.sweeps <= left.sweeps
  BY <1>1, WorldTypes
<1>4. Rise
  BY <1>2, LeaderRise
<1>5. WorkOK'
  BY <1>1, <1>2, <1>4, WorkKept
<1>6. SweepOK' /\ BaseOK' /\ ~ Walked'
  BY <1>2 DEF SweepOK, BaseOK, Walked
<1>7. \A p \in Projects : TruthOK(p) => TruthOK(p)'
  BY <1>2, <1>6, TruthWalk
<1> QED
  BY <1>2, <1>3, <1>5, <1>6, <1>7, LeaderStep

-----------------------------------------------------------------------------
(* Re-seeding, polling, and the selections.                                 *)

LEMMA ReseedHome ==
  ASSUME QuarantineInv, ReseedShelves
  PROVE  Rise /\ (Still => shelf'[Home] = shelf[Home])
<1>1. WorldOK /\ LiveOK
  BY DEF QuarantineInv
<1>2. PICK names, epoch, K : names = live[Leader].names /\ epoch = live[Leader].epoch /\ K = InUse
  OBVIOUS
<1>3. /\ shelf' = [b \in InUse |-> IF b \notin K THEN shelf[b] ELSE seed_quarantined_onto(b, names, epoch)]
      /\ UNCHANGED <<course, left, selected>>
  BY <1>2 DEF ReseedShelves
<1>4. Leader \in Gates /\ Home \in InUse
  BY <1>1, HomeInUse
<1>5. names \in SUBSET Projects /\ epoch \in Nat /\ (Still => epoch <= shelf[Home].epoch)
  BY <1>1, <1>2, <1>4, LiveParts DEF LiveAt
<1>6. K \in SUBSET InUse /\ left'.switches = left.switches
  BY <1>2, <1>3
<1>7. Rise /\ \A b \in InUse : b \notin K \/ shelf[b].epoch >= epoch => shelf'[b] = shelf[b]
  BY <1>1, <1>3, <1>5, <1>6, SeedRise
<1>8. shelf[Home].epoch \in Nat
  BY <1>1, <1>4, ShelfTypes
<1> QED
  BY <1>4, <1>5, <1>7, <1>8

LEMMA ReseedKeeps ==
  ASSUME QuarantineInv, ReseedShelves
  PROVE  QuarantineInv'
<1>1. /\ WorldOK /\ LiveOK /\ (\A m \in Gates : EditOK(m)) /\ WorkOK /\ SweepOK /\ BaseOK
      /\ Still => \A p \in Projects : Churned(p) \/ TruthOK(p)
  BY DEF QuarantineInv
<1>2. UNCHANGED <<course, left, status, live, selected, dirty, edit, work, poll, sweep>>
  BY DEF ReseedShelves
<1>3. Rise /\ (Still => shelf'[Home] = shelf[Home])
  BY ReseedHome
<1>4. live' \in Lives /\ \A m \in Gates : LiveAt(live[m])'
  BY <1>1, <1>2, <1>3, LiveKept DEF Lives
<1>5. WorldOK'
  <2>1. /\ left \in Budgets /\ status \in [Projects -> BOOLEAN] /\ dirty \subseteq Projects
        /\ (\A p \in Projects : left.edits[p] <= left.edits[p]) /\ left.sweeps <= left.sweeps
        /\ DOMAIN edit = Gates /\ DOMAIN poll = Gates /\ left.switches <= left.switches
    BY <1>1, WorldTypes DEF WorldOK
  <2> QED
    BY <1>1, <1>2, <1>3, <1>4, <2>1, WorldKept DEF Budgets
<1>6. LiveOK'
  BY <1>1, <1>2, <1>3, <1>4, LiveBack
<1>7. (\A m \in Gates : EditOK(m)') /\ WorkOK' /\ SweepOK' /\ BaseOK'
  BY <1>1, <1>2, <1>3, EditKept, WorkKept, SweepKept
<1>8. Home' = Home /\ (Still' => Still) /\ \A p \in Projects : Churned(p)' <=> Churned(p)
  BY <1>2, <1>3 DEF Home, Rise, Churned
<1>9. ASSUME Still, NEW p \in Projects, ~ Churned(p)
       PROVE  TruthOK(p)'
  <2>1. TruthOK(p) /\ (Owed(p)' <=> Owed(p))
    BY <1>1, <1>2, <1>9 DEF Owed, Editing
  <2> QED
    BY <1>2, <1>3, <1>8, <1>9, <2>1, TruthKept
<1> QED
  BY <1>5, <1>6, <1>7, <1>8, <1>9 DEF QuarantineInv

LEMMA PollReadKeeps ==
  ASSUME QuarantineInv, NEW n \in Gates, PollRead(n)
  PROVE  QuarantineInv'
<1>1. /\ WorldOK /\ LiveOK /\ (\A m \in Gates : EditOK(m)) /\ WorkOK /\ SweepOK /\ BaseOK
      /\ Still => \A p \in Projects : Churned(p) \/ TruthOK(p)
  BY DEF QuarantineInv
<1>2. PICK body : body = shelf[selected[n]]
  OBVIOUS
<1>3. /\ poll' = [poll EXCEPT ![n] = [at |-> "read", body |-> body]]
      /\ UNCHANGED <<course, left, status, shelf, live, selected, dirty, edit, work, sweep>>
  BY <1>2 DEF PollRead
<1>4. /\ left \in Budgets /\ status \in [Projects -> BOOLEAN] /\ dirty \subseteq Projects
      /\ (\A p \in Projects : left.edits[p] <= left.edits[p]) /\ left.sweeps <= left.sweeps
      /\ DOMAIN edit = Gates /\ DOMAIN poll = Gates /\ left.switches <= left.switches
  BY <1>1, WorldTypes DEF WorldOK
<1>5. DOMAIN poll' = Gates /\ poll'[n] = [at |-> "read", body |-> body] /\ \A m \in Gates : m # n => poll'[m] = poll[m]
  BY <1>3, <1>4
<1>6. Rise /\ Home' = Home /\ InUse' = InUse /\ (Still' <=> Still)
  BY <1>3, LeaderRise
<1>7. live' \in Lives
  BY <1>1, <1>3 DEF WorldOK, Lives
<1>8. WorldOK'
  BY <1>1, <1>3, <1>4, <1>5, <1>6, <1>7, WorldKept DEF Budgets
<1>9. selected[n] \in InUse /\ (Still => selected[n] = Home)
  BY <1>1 DEF WorldOK
<1>10. body \in Bodies /\ body.epoch \in Nat /\ Backed(body.names, body.epoch)
  <2>1. body \in Bodies
    BY <1>1, <1>2, <1>9 DEF WorldOK
  <2>2. body.epoch \in Nat
    BY <2>1 DEF Bodies
  <2> QED
    BY <1>2, <1>9, <2>1, <2>2 DEF Backed
<1>11. LiveOK'
  <2>1. \A names, epoch : Backed(names, epoch)' <=> Backed(names, epoch)
    BY <1>3, <1>6 DEF Backed
  <2>2. poll'[n] \in [at : {"read"}, body : Bodies] /\ Backed(poll'[n].body.names, poll'[n].body.epoch)
    BY <1>5, <1>10
  <2>3. \A m \in Gates : poll'[m] = NoTask \/ /\ poll'[m] \in [at : {"read"}, body : Bodies]
                                              /\ Backed(poll'[m].body.names, poll'[m].body.epoch)
    BY <1>1, <1>5, <2>2 DEF LiveOK
  <2>4. /\ \A m \in Gates : \E b \in InUse' : live'[m].epoch <= shelf'[b].epoch
        /\ \A m \in Gates : Still' => live'[m].epoch <= shelf'[Home'].epoch
        /\ \A m \in Gates : Still' /\ ~ live'[m].pending => Backed(live'[m].names, live'[m].epoch)
    BY <1>1, <1>3, <1>6 DEF LiveOK
  <2> QED
    BY <1>3, <1>6, <2>3, <2>4 DEF LiveOK, Backed
<1>12. (\A m \in Gates : EditOK(m)') /\ WorkOK' /\ SweepOK' /\ BaseOK'
  BY <1>1, <1>3, <1>6, EditKept, WorkKept, SweepKept
<1>13. ASSUME Still, NEW p \in Projects, ~ Churned(p)'
       PROVE  TruthOK(p)'
  <2>1. TruthOK(p) /\ (Owed(p)' <=> Owed(p))
    BY <1>1, <1>3, <1>13 DEF Owed, Editing, Churned
  <2> QED
    BY <1>3, <1>6, <2>1, TruthKept
<1> QED
  BY <1>6, <1>8, <1>11, <1>12, <1>13 DEF QuarantineInv

LEMMA SwitchMoves ==
  ASSUME QuarantineInv, NEW n \in Gates, SwitchGate(n)
  PROVE  ~ Still'
<1>1. WorldOK
  BY DEF QuarantineInv
<1>2. PICK b \in InUse \ {selected[n]} : selected' = [selected EXCEPT ![n] = b]
  BY DEF SwitchGate
<1>3. left.switches > 0 /\ left' = [left EXCEPT !.switches = @ - 1] /\ UNCHANGED course
  BY DEF SwitchGate
<1>4. /\ left \in Budgets /\ selected \in [Gates -> InUse] /\ course \in Courses
      /\ left.switches <= course.switches /\ course.switches \in Nat /\ left.switches \in Nat
  BY <1>1, WorldTypes DEF WorldOK, Budgets
<1>5. left'.switches = left.switches - 1
  BY <1>3, <1>4 DEF Budgets
<1>6. Cardinality(InUse) # 1
  <2>1. IsFiniteSet(InUse)
    BY <1>4, QuarantineAssumption, FS_Subset DEF InUse
  <2>2. selected[n] \in InUse
    BY <1>4
  <2>3. ASSUME Cardinality(InUse) = 1
        PROVE  FALSE
    <3>1. PICK x : InUse = {x}
      BY <2>1, <2>3, FS_Singleton
    <3> QED
      BY <1>2, <2>2, <3>1
  <2> QED
    BY <2>3
<1>7. left'.switches # course'.switches /\ InUse' = InUse
  BY <1>3, <1>4, <1>5 DEF InUse
<1> QED
  BY <1>6, <1>7 DEF Still

LEMMA SwitchKeeps ==
  ASSUME QuarantineInv, NEW n \in Gates, SwitchGate(n)
  PROVE  QuarantineInv'
<1>1. WorldOK /\ LiveOK /\ (\A m \in Gates : EditOK(m)) /\ WorkOK /\ SweepOK /\ BaseOK
  BY DEF QuarantineInv
<1>2. PICK b \in InUse \ {selected[n]} : selected' = [selected EXCEPT ![n] = b]
  BY DEF SwitchGate
<1>3. /\ left.switches > 0 /\ left' = [left EXCEPT !.switches = @ - 1]
      /\ UNCHANGED <<course, status, shelf, live, dirty, edit, work, poll, sweep>>
  BY DEF SwitchGate
<1>4. /\ left \in Budgets /\ selected \in [Gates -> InUse] /\ course \in Courses
      /\ left.switches <= course.switches /\ course.switches \in Nat /\ left.switches \in Nat
  BY <1>1, WorldTypes DEF WorldOK, Budgets
<1>5. PICK k : k = left.switches - 1
  OBVIOUS
<1>6. k \in Nat /\ k < course.switches /\ left' = [left EXCEPT !.switches = k]
  BY <1>3, <1>4, <1>5
<1>7. left' \in Budgets /\ left'.switches = k /\ left'.sweeps = left.sweeps /\ left'.edits = left.edits
  BY <1>4, <1>6 DEF Budgets
<1>8. ~ Still'
  BY SwitchMoves
<1>9. Rise
  BY <1>1, <1>3, <1>8 DEF Rise, WorldOK
<1>10. live' \in Lives /\ \A m \in Gates : LiveAt(live[m])'
  BY <1>1, <1>3, <1>9, LiveKept DEF Lives
<1>11. LiveOK'
  BY <1>1, <1>3, <1>9, <1>10, LiveBack
<1>12. WorldOK'
  <2>1. selected' \in [Gates -> InUse'] /\ shelf' \in [InUse' -> Bodies]
    BY <1>2, <1>3, <1>4, <1>9 DEF InUse, Rise
  <2>2. left' \in [edits : [Projects -> Nat], sweeps : Nat, switches : Nat, faults : Nat]
        /\ left'.switches <= course'.switches
    BY <1>3, <1>4, <1>6, <1>7 DEF Budgets
  <2>3. live' \in [Gates -> [names : SUBSET Projects, epoch : Nat, tag : Nat, pending : BOOLEAN]]
    BY <1>10 DEF Lives
  <2> QED
    BY <1>1, <1>3, <1>7, <1>8, <2>1, <2>2, <2>3 DEF WorldOK
<1>13. (\A m \in Gates : EditOK(m)') /\ WorkOK' /\ SweepOK' /\ BaseOK'
  BY <1>1, <1>3, <1>7, <1>9, EditKept, WorkKept, SweepKept
<1> QED
  BY <1>8, <1>11, <1>12, <1>13 DEF QuarantineInv

LEMMA QuarantineStart ==
  ASSUME QuarantineInit
  PROVE  QuarantineInv
<1>1. PICK b0 \in InUse : selected = [n \in Gates |-> b0]
  BY DEF QuarantineInit
<1>2. PICK body : body = [names |-> Blocked, epoch |-> 1, tag |-> 1]
  OBVIOUS
<1>3. PICK l : l = [names |-> Blocked, epoch |-> 1, tag |-> 1, pending |-> FALSE]
  OBVIOUS
<1>4. /\ course \in Courses /\ status \in [Projects -> BOOLEAN]
      /\ left = [edits |-> course.edits, sweeps |-> course.sweeps,
                 switches |-> course.switches, faults |-> course.faults]
      /\ shelf = [b \in InUse |-> body] /\ live = [n \in Gates |-> l] /\ dirty = {}
      /\ edit = [n \in Gates |-> NoTask] /\ work = NoTask /\ sweep = NoTask /\ poll = [n \in Gates |-> NoTask]
  BY <1>2, <1>3 DEF QuarantineInit
<1>5. course.edits \in [Projects -> Nat] /\ course.sweeps \in Nat /\ course.switches \in Nat /\ course.faults \in Nat
  BY <1>4, QuarantineAssumption
<1>6. Blocked \in SUBSET Projects
  BY DEF Blocked
<1>7. body \in Bodies /\ body.names = Blocked /\ body.epoch = 1
  BY <1>2, <1>6 DEF Bodies
<1>8. /\ l \in [names : SUBSET Projects, epoch : Nat, tag : Nat, pending : BOOLEAN]
      /\ l.names = Blocked /\ l.epoch = 1
  BY <1>3, <1>6
<1>9. Leader \in Gates /\ Home = b0 /\ Home \in InUse /\ \A n \in Gates : selected[n] = Home
  BY <1>1, QuarantineAssumption DEF Home
<1>10. /\ left \in [edits : [Projects -> Nat], sweeps : Nat, switches : Nat, faults : Nat]
       /\ left.edits = course.edits /\ left.sweeps = course.sweeps /\ left.switches = course.switches
  BY <1>4, <1>5
<1>11. WorldOK
  BY <1>1, <1>4, <1>5, <1>7, <1>8, <1>9, <1>10 DEF WorldOK
<1>12. LiveOK
  BY <1>4, <1>7, <1>8, <1>9 DEF LiveOK, Backed
<1>13. (\A n \in Gates : EditOK(n)) /\ WorkOK /\ SweepOK /\ BaseOK /\ ~ Walked
  BY <1>4 DEF EditOK, WorkOK, SweepOK, BaseOK, Walked
<1>14. ASSUME NEW p \in Projects
       PROVE  TruthOK(p)
  <2>1. Right(shelf[Home].names, p)
    BY <1>4, <1>7, <1>9 DEF Right, Blocked
  <2>2. ~ Owed(p) /\ ~ Deriving(p)
    BY <1>4 DEF Owed, Editing, Deriving
  <2> QED
    BY <1>4, <1>13, <2>1, <2>2 DEF TruthOK, Untouched
<1> QED
  BY <1>11, <1>12, <1>13, <1>14 DEF QuarantineInv

LEMMA QuarantineStill ==
  ASSUME QuarantineInv, UNCHANGED quarantineVars
  PROVE  QuarantineInv'
<1>1. /\ UNCHANGED <<course, left, status, shelf, live, selected, dirty, edit, work, sweep, poll>>
  BY DEF quarantineVars
<1>2. Leader \in Gates /\ WorldOK /\ EditOK(Leader)
  BY HomeInUse DEF QuarantineInv
<1>3. left \in Budgets /\ dirty \subseteq Projects /\ DOMAIN edit = Gates /\ DOMAIN poll = Gates
  BY <1>2, WorldTypes
<1>4. EditOK(Leader)'
  BY <1>1, <1>2, StillRise, EditKept
<1>5. (\A m \in Gates : poll'[m] \in {poll[m], NoTask}) /\ \A p \in Projects : Owed(p)' <=> Owed(p)
  BY <1>1 DEF Owed, Editing
<1> QED
  BY <1>1, <1>2, <1>3, <1>4, <1>5, NodeStep

LEMMA QuarantineStep ==
  ASSUME QuarantineInv, [QuarantineNext]_quarantineVars
  PROVE  QuarantineInv'
<1>1. CASE UNCHANGED quarantineVars
  BY <1>1, QuarantineStill
<1>2. ASSUME NEW n \in Gates,
             \/ WriteStatus(n) \/ Arm(n) \/ PublishOne(n) \/ CommitMarker(n) \/ CrashInEdit(n)
             \/ PollRead(n) \/ PollAdopt(n) \/ SwitchGate(n)
      PROVE  QuarantineInv'
  BY <1>2, WriteStatusKeeps, ArmKeeps, PublishOneKeeps, CommitMarkerKeeps, CrashInEditKeeps,
     PollReadKeeps, PollAdoptKeeps, SwitchKeeps
<1>3. CASE DrainStart \/ DrainPublish \/ DrainDone
  BY <1>3, DrainStartKeeps, DrainPublishKeeps, DrainDoneKeeps
<1>4. CASE SweepStart \/ SweepWalk \/ SweepPublish \/ SweepDone
  BY <1>4, SweepStartKeeps, SweepWalkKeeps, SweepPublishKeeps, SweepDoneKeeps
<1>5. CASE ReseedShelves
  BY <1>5, ReseedKeeps
<1> QED
  BY <1>1, <1>2, <1>3, <1>4, <1>5 DEF QuarantineNext

LEMMA QuarantineInvSafe ==
  ASSUME QuarantineInv
  PROVE  QuarantineSafe
<1>1. WorldOK /\ LiveOK /\ (Still => \A p \in Projects : Churned(p) \/ TruthOK(p))
  BY DEF QuarantineInv
<1>2. QuarantineTypeOK
  <2>1. \A b \in InUse : shelf[b].names \subseteq Projects /\ shelf[b].epoch \in Nat \ {0}
    BY <1>1, ShelfTypes
  <2>2. \A n \in Gates : live[n].names \subseteq Projects /\ live[n].epoch \in Nat
    BY <1>1, LiveParts DEF LiveAt
  <2> QED
    BY <1>1, <2>1, <2>2 DEF QuarantineTypeOK, LiveOK, WorldOK
<1>3. SettledTruth
  <2>1. SUFFICES ASSUME Settled, left.switches = course.switches, NEW p \in Projects, ~ Churned(p)
                 PROVE  p \in shelf[Home].names <=> status[p]
    BY DEF SettledTruth, Home
  <2>2. TruthOK(p)
    BY <1>1, <2>1 DEF Still
  <2>3. ~ Owed(p) /\ ~ Deriving(p)
    BY <2>1 DEF Settled, Owed, Editing, Deriving
  <2> QED
    BY <2>2, <2>3 DEF TruthOK, Right
<1>4. SameEpochSameSet
  <2>1. SUFFICES ASSUME Cardinality(InUse) = 1, NEW n \in Gates, NEW b \in InUse,
                        live[n].epoch = shelf[b].epoch, ~ live[n].pending
                 PROVE  live[n].names = shelf[b].names
    BY DEF SameEpochSameSet
  <2>2. Still /\ Home \in InUse
    BY <1>1, <2>1, HomeInUse DEF Still
  <2>3. IsFiniteSet(InUse)
    BY <1>1, QuarantineAssumption, FS_Subset DEF InUse, WorldOK
  <2>4. PICK x : InUse = {x}
    BY <2>1, <2>3, FS_Singleton
  <2>5. b = Home
    BY <2>1, <2>2, <2>4
  <2> QED
    BY <1>1, <2>1, <2>2, <2>5 DEF LiveOK, Backed
<1> QED
  BY <1>2, <1>3, <1>4 DEF QuarantineSafe

(* advisories.rs, worker.rs: whatever the nodes, buckets, projects and the  *)
(* number of status writes, sweeps, faults and selection changes, once the  *)
(* handlers, the markers and the sweep are done the leader's bucket holds   *)
(* exactly the blocked projects (but for names changed twice around a       *)
(* sweep), and on one bucket equal epochs mean equal sets.                  *)
THEOREM QuarantineHolds == QuarantineSpec => []QuarantineSafe
<1>1. QuarantineInit => QuarantineInv
  BY QuarantineStart
<1>2. QuarantineInv /\ [QuarantineNext]_quarantineVars => QuarantineInv'
  BY QuarantineStep
<1>3. QuarantineInv => QuarantineSafe
  BY QuarantineInvSafe
<1> QED
  BY <1>1, <1>2, <1>3, PTL DEF QuarantineSpec

-----------------------------------------------------------------------------
(* No set goes backwards: every holder of one epoch holds one set.          *)

Carried(s, e) ==
    \/ s = shelf[Home].names /\ e = shelf[Home].epoch
    \/ \E n \in Gates : \/ ~ live[n].pending /\ s = live[n].names /\ e = live[n].epoch
                        \/ poll[n] # NoTask /\ s = poll[n].body.names /\ e = poll[n].body.epoch
                        \/ TaskHeld(edit[n], s, e)
    \/ TaskHeld(work, s, e) \/ TaskHeld(sweep, s, e)
OneSet == Still => \A s, r, e : Carried(s, e) /\ Carried(r, e) => s = r

LEMMA TaskHeldBounds ==
  ASSUME WorldOK, Still, NEW kind, NEW N, NEW B, NEW t \in Publishes(kind, N, B), TaskOK(t),
         NEW s, NEW e, TaskHeld(t, s, e)
  PROVE  e \in Nat /\ e <= shelf[Home].epoch
<1>1. t.stored \in Nat /\ t.epoch \in Nat
  BY PublishFields
<1> QED
  BY <1>1 DEF TaskOK, TaskHeld

LEMMA NothingHeld ==
  ASSUME NEW t, t = NoTask \/ t.at \in {"arm", "read", "walk", "done", "failed"}, NEW s, NEW e
  PROVE  ~ TaskHeld(t, s, e)
  BY DEF TaskHeld, NoTask

LEMMA HeldBounds ==
  ASSUME QuarantineInv, Still, NEW s, NEW e, Carried(s, e)
  PROVE  e \in Nat /\ e <= shelf[Home].epoch
<1>1. WorldOK /\ LiveOK /\ (\A m \in Gates : EditOK(m)) /\ WorkOK /\ SweepOK
  BY DEF QuarantineInv
<1>2. CASE s = shelf[Home].names /\ e = shelf[Home].epoch
  BY <1>1, <1>2, HomeInUse, ShelfTypes
<1>3. ASSUME NEW n \in Gates, s = live[n].names /\ e = live[n].epoch
      PROVE  e \in Nat /\ e <= shelf[Home].epoch
  BY <1>1, <1>3, LiveParts DEF LiveAt
<1>4. ASSUME NEW n \in Gates, poll[n] # NoTask /\ s = poll[n].body.names /\ e = poll[n].body.epoch
      PROVE  e \in Nat /\ e <= shelf[Home].epoch
  BY <1>1, <1>4 DEF LiveOK, Backed, Bodies
<1>5. ASSUME NEW n \in Gates, TaskHeld(edit[n], s, e)
      PROVE  e \in Nat /\ e <= shelf[Home].epoch
  <2>1. PICK t : t = edit[n]
    OBVIOUS
  <2>2. t \in Publishes("one", Projects, {{}}) /\ TaskOK(t)
    BY <1>1, <1>5, <2>1, NothingHeld DEF EditOK
  <2> QED
    BY <1>1, <1>5, <2>1, <2>2, TaskHeldBounds
<1>6. CASE TaskHeld(work, s, e)
  <2>1. PICK t : t = work
    OBVIOUS
  <2>2. t \in Publishes("derive", Projects, {{}}) /\ TaskOK(t)
    BY <1>1, <1>6, <2>1, NothingHeld DEF WorkOK
  <2> QED
    BY <1>1, <1>6, <2>1, <2>2, TaskHeldBounds
<1>7. CASE TaskHeld(sweep, s, e)
  <2>1. PICK t : t = sweep
    OBVIOUS
  <2>2. t # NoTask /\ t.at # "walk"
    BY <1>7, <2>1, NothingHeld
  <2>3. t \in Publishes("sweep", {SweepName}, Bases) /\ TaskOK(t)
    BY <1>1, <2>1, <2>2 DEF SweepOK
  <2> QED
    BY <1>1, <1>7, <2>1, <2>3, TaskHeldBounds
<1> QED
  BY <1>2, <1>3, <1>4, <1>5, <1>6, <1>7 DEF Carried

\* A step that makes up no set: each is one that was held, or the bucket's new one.
Makes(s, e) == Carried(s, e) \/ (e > shelf[Home].epoch /\ s = shelf'[Home].names)

LEMMA AgreeStep ==
  ASSUME QuarantineInv, OneSet, Still' => Still, \A s, e : Still' /\ Carried(s, e)' => Makes(s, e)
  PROVE  OneSet'
<1>1. SUFFICES ASSUME Still', NEW s, NEW r, NEW e, Carried(s, e)', Carried(r, e)'
               PROVE  s = r
  BY DEF OneSet
<1>2. Still /\ Makes(s, e) /\ Makes(r, e)
  BY <1>1
<1>3. CASE Carried(s, e) /\ Carried(r, e)
  BY <1>2, <1>3 DEF OneSet
<1>4. CASE Carried(s, e) \/ Carried(r, e)
  <2>1. e \in Nat /\ e <= shelf[Home].epoch /\ shelf[Home].epoch \in Nat
    BY <1>2, <1>4, HeldBounds, HomeInUse, ShelfTypes DEF QuarantineInv
  <2>2. ~ (e > shelf[Home].epoch)
    BY <2>1
  <2> QED
    BY <1>2, <1>3, <2>2 DEF Makes
<1>5. CASE ~ Carried(s, e) /\ ~ Carried(r, e)
  BY <1>2, <1>5 DEF Makes
<1> QED
  BY <1>3, <1>4, <1>5

LEMMA PublishHeld ==
  ASSUME WorldOK, Still, NEW n, NEW t, NEW u, NEW kind, NEW N, NEW B, Published(n, t, u, kind, N, B),
         \A s, e : TaskHeld(t, s, e) => Carried(s, e), Home' = Home, NEW s, NEW e
  PROVE  /\ s = shelf'[Home].names /\ e = shelf'[Home].epoch => Makes(s, e)
         /\ \A m \in Gates : ~ live'[m].pending /\ s = live'[m].names /\ e = live'[m].epoch => Makes(s, e)
         /\ TaskHeld(u, s, e) => Makes(s, e)
<1>1. Rise /\ Moves(t, u) /\ Wrote(t, u) /\ \A m \in Gates : Adopted(live[m], live'[m], t)
  BY DEF Published
<1>2. Home \in InUse
  BY HomeInUse
<1>3. s = shelf'[Home].names /\ e = shelf'[Home].epoch => Makes(s, e)
  BY <1>1, <1>2 DEF Rise, Makes, Carried
<1>4. s = shelf[Home].names /\ e = shelf[Home].epoch => Makes(s, e)
  BY DEF Makes, Carried
<1>5. TaskHeld(t, s, e) => Makes(s, e)
  BY DEF Makes
<1>6. ASSUME NEW m \in Gates, ~ live'[m].pending /\ s = live'[m].names /\ e = live'[m].epoch
      PROVE  Makes(s, e)
  <2>1. CASE s = live[m].names /\ e = live[m].epoch /\ ~ live[m].pending
    BY <2>1 DEF Makes, Carried
  <2>2. CASE \/ s = shelf[Home].names /\ e = shelf[Home].epoch
             \/ TaskHeld(t, s, e)
    BY <1>4, <1>5, <2>2
  <2> QED
    BY <1>1, <1>6, <2>1, <2>2 DEF Adopted, Given
<1>7. ASSUME TaskHeld(u, s, e)
      PROVE  Makes(s, e)
  <2>1. CASE t.at = "read"
    BY <1>1, <1>4, <1>7, <2>1 DEF Moves, TaskHeld
  <2>2. CASE t.at = "cas"
    BY <1>1, <1>3, <1>7, <2>2 DEF Moves, Wrote, TaskHeld
  <2>3. CASE t.at \notin {"read", "cas"}
    <3>1. TaskHeld(t, s, e)
      BY <1>1, <1>7, <2>3 DEF Moves, TaskHeld
    <3> QED
      BY <1>5, <3>1
  <2> QED
    BY <2>1, <2>2, <2>3
<1> QED
  BY <1>3, <1>6, <1>7

\* A task that carries no set: it has not read one, or is through with it.
Bare(t) == t = NoTask \/ t.at \in {"arm", "read", "walk", "done", "failed"}

LEMMA HeldKept ==
  ASSUME Home' = Home, shelf'[Home] = shelf[Home],
         \A n \in Gates : \/ live'[n] = live[n] \/ live'[n].pending
                          \/ Carried(live'[n].names, live'[n].epoch),
         \A n \in Gates : poll'[n] \in {poll[n], NoTask} \/ Carried(poll'[n].body.names, poll'[n].body.epoch),
         \A n \in Gates : edit'[n] = edit[n] \/ Bare(edit'[n]),
         work' = work \/ Bare(work'), sweep' = sweep \/ Bare(sweep'), NEW s, NEW e, Carried(s, e)'
  PROVE  Makes(s, e)
<1>1. \A t : Bare(t) => ~ TaskHeld(t, s, e)
  BY NothingHeld DEF Bare
<1>2. CASE s = shelf'[Home'].names /\ e = shelf'[Home'].epoch
  BY <1>2 DEF Makes, Carried
<1>3. ASSUME NEW n \in Gates, ~ live'[n].pending /\ s = live'[n].names /\ e = live'[n].epoch
      PROVE  Makes(s, e)
  BY <1>3 DEF Makes, Carried
<1>4. ASSUME NEW n \in Gates, poll'[n] # NoTask /\ s = poll'[n].body.names /\ e = poll'[n].body.epoch
      PROVE  Makes(s, e)
  BY <1>4 DEF Makes, Carried
<1>5. ASSUME NEW n \in Gates, TaskHeld(edit'[n], s, e)
      PROVE  Makes(s, e)
  BY <1>1, <1>5 DEF Makes, Carried
<1>6. CASE TaskHeld(work', s, e) \/ TaskHeld(sweep', s, e)
  BY <1>1, <1>6 DEF Makes, Carried
<1>7. \/ s = shelf'[Home'].names /\ e = shelf'[Home'].epoch
      \/ \E n \in Gates : \/ ~ live'[n].pending /\ s = live'[n].names /\ e = live'[n].epoch
                          \/ poll'[n] # NoTask /\ s = poll'[n].body.names /\ e = poll'[n].body.epoch
                          \/ TaskHeld(edit'[n], s, e)
      \/ TaskHeld(work', s, e) \/ TaskHeld(sweep', s, e)
  BY DEF Carried, TaskHeld
<1> QED
  BY <1>2, <1>3, <1>4, <1>5, <1>6, <1>7

\* What NeverBackwards says of one node.
Forward(n) ==
    \/ live'[n].epoch > live[n].epoch
    \/ /\ live'[n].epoch = live[n].epoch
       /\ \/ live'[n].names = live[n].names
          \/ ~ live[n].pending /\ left.switches < course.switches
    \/ edit[n].at = "arm"
    \/ left'.faults < left.faults

LEMMA AdoptedForward ==
  ASSUME QuarantineInv, OneSet, NEW m \in Gates, NEW t, Adopted(live[m], live'[m], t),
         \A s, e : TaskHeld(t, s, e) => Carried(s, e), live'[m].epoch \in Nat
  PROVE  Forward(m)
<1>1. PICK k, l : k = live[m] /\ l = live'[m]
  OBVIOUS
<1>2. k.epoch \in Nat /\ l.epoch \in Nat /\ left.switches \in Nat /\ course.switches \in Nat
      /\ left.switches <= course.switches
  BY <1>1, QuarantineAssumption DEF QuarantineInv, WorldOK
<1>3. CASE l.names = k.names /\ l.epoch = k.epoch
  BY <1>1, <1>3 DEF Forward
<1>4. CASE /\ ~ l.pending /\ l.epoch >= k.epoch /\ (l.epoch = k.epoch /\ k.pending => l.names = k.names)
           /\ Still => Given(t, l.names, l.epoch)
  <2>1. CASE l.epoch > k.epoch \/ k.pending \/ left.switches < course.switches
    BY <1>1, <1>2, <1>4, <2>1 DEF Forward
  <2>2. CASE l.epoch = k.epoch /\ ~ k.pending /\ left.switches = course.switches
    <3>1. Still
      BY <2>2 DEF Still
    <3>2. Carried(k.names, k.epoch)
      BY <1>1, <2>2 DEF Carried
    <3>3. Given(t, l.names, l.epoch)
      BY <1>4, <3>1
    <3>4. Carried(l.names, l.epoch)
      <4>1. CASE l.names = shelf[Home].names /\ l.epoch = shelf[Home].epoch
        BY <4>1 DEF Carried
      <4>2. CASE TaskHeld(t, l.names, l.epoch)
        BY <4>2
      <4> QED
        BY <3>3, <4>1, <4>2 DEF Given
    <3>5. l.names = k.names
      BY <2>2, <3>1, <3>2, <3>4 DEF OneSet
    <3> QED
      BY <1>1, <2>2, <3>5 DEF Forward
  <2> QED
    BY <1>2, <1>4, <2>1, <2>2
<1> QED
  BY <1>1, <1>3, <1>4 DEF Adopted

LEMMA PublishAgrees ==
  ASSUME QuarantineInv, OneSet, NEW n, NEW t, NEW u, NEW kind, NEW N, NEW B, Published(n, t, u, kind, N, B),
         \A s, e : TaskHeld(t, s, e) => Carried(s, e), UNCHANGED <<selected, poll>>,
         \A m \in Gates : edit'[m] = edit[m] \/ edit'[m] = u, work' = work \/ work' = u, sweep' = sweep \/ sweep' = u
  PROVE  OneSet' /\ \A m \in Gates : Forward(m)
<1>1. WorldOK /\ Rise /\ Home' = Home
  BY DEF QuarantineInv, Published, Home
<1>2. ASSUME Still', NEW s, NEW e, Carried(s, e)'
      PROVE  Makes(s, e)
  <2>1. Still
    BY <1>1, <1>2 DEF Rise
  <2>2. /\ s = shelf'[Home].names /\ e = shelf'[Home].epoch => Makes(s, e)
        /\ \A m \in Gates : ~ live'[m].pending /\ s = live'[m].names /\ e = live'[m].epoch => Makes(s, e)
        /\ TaskHeld(u, s, e) => Makes(s, e)
    BY <1>1, <2>1, PublishHeld
  <2>3. ASSUME NEW m \in Gates, poll[m] # NoTask /\ s = poll[m].body.names /\ e = poll[m].body.epoch
        PROVE  Makes(s, e)
    BY <2>3 DEF Makes, Carried
  <2>4. ASSUME NEW m \in Gates, TaskHeld(edit[m], s, e)
        PROVE  Makes(s, e)
    BY <2>4 DEF Makes, Carried
  <2>5. TaskHeld(work, s, e) \/ TaskHeld(sweep, s, e) => Makes(s, e)
    BY DEF Makes, Carried
  <2>6. \/ s = shelf'[Home'].names /\ e = shelf'[Home'].epoch
        \/ \E m \in Gates : \/ ~ live'[m].pending /\ s = live'[m].names /\ e = live'[m].epoch
                            \/ poll'[m] # NoTask /\ s = poll'[m].body.names /\ e = poll'[m].body.epoch
                            \/ TaskHeld(edit'[m], s, e)
        \/ TaskHeld(work', s, e) \/ TaskHeld(sweep', s, e)
    BY <1>2 DEF Carried, TaskHeld
  <2> QED
    BY <1>1, <2>2, <2>3, <2>4, <2>5, <2>6
<1>3. OneSet'
  BY <1>1, <1>2, AgreeStep DEF Rise
<1>4. ASSUME NEW m \in Gates
      PROVE  Forward(m)
  <2>1. Adopted(live[m], live'[m], t) /\ live'[m].epoch \in Nat
    BY DEF Published
  <2> QED
    BY <2>1, AdoptedForward
<1> QED
  BY <1>3, <1>4

LEMMA RestAgrees ==
  ASSUME QuarantineInv, OneSet, UNCHANGED <<course, selected>>, left'.switches = left.switches,
         Still => shelf'[Home] = shelf[Home],
         Still => \A n \in Gates : \/ live'[n] = live[n] \/ live'[n].pending
                                   \/ Carried(live'[n].names, live'[n].epoch),
         Still => \A n \in Gates : \/ poll'[n] \in {poll[n], NoTask}
                                   \/ Carried(poll'[n].body.names, poll'[n].body.epoch),
         \A n \in Gates : edit'[n] = edit[n] \/ Bare(edit'[n]),
         work' = work \/ Bare(work'), sweep' = sweep \/ Bare(sweep')
  PROVE  OneSet'
<1>1. (Still' <=> Still) /\ Home' = Home
  BY DEF Still, InUse, Home
<1>2. ASSUME Still', NEW s, NEW e, Carried(s, e)'
      PROVE  Makes(s, e)
  BY <1>1, <1>2, HeldKept
<1> QED
  BY <1>1, <1>2, AgreeStep

LEMMA LiveForward ==
  ASSUME NEW m \in Gates, live'[m] = live[m]
  PROVE  Forward(m)
  BY DEF Forward

LEMMA PublishesAgree ==
  ASSUME QuarantineInv, OneSet, (\E n \in Gates : PublishOne(n)) \/ DrainPublish \/ SweepPublish
  PROVE  OneSet' /\ \A m \in Gates : Forward(m)
<1>1. WorldOK /\ LiveOK /\ (\A m \in Gates : EditOK(m)) /\ WorkOK /\ SweepOK /\ Leader \in Gates
  BY HomeInUse DEF QuarantineInv
<1>2. ASSUME NEW n \in Gates, PublishOne(n)
      PROVE  OneSet' /\ \A m \in Gates : Forward(m)
  <2>1. PICK t : t = edit[n]
    OBVIOUS
  <2>2. PICK u : PublishStep(n, t, u) /\ edit' = [edit EXCEPT ![n] = u]
    BY <1>2, <2>1 DEF PublishOne
  <2>3. t.at \in {"read", "cas", "peers", "adopt"} /\ UNCHANGED <<course, selected, work, poll, sweep>>
    BY <1>2, <2>1 DEF PublishOne
  <2>4. t \in Publishes("one", Projects, {{}}) /\ TaskOK(t)
    BY <1>1, <2>1, <2>3 DEF EditOK, NoTask
  <2>5. Published(n, t, u, "one", Projects, {{}})
    BY <1>1, <2>2, <2>3, <2>4, PublishSound
  <2>6. \A s, e : TaskHeld(t, s, e) => Carried(s, e)
    BY <2>1 DEF Carried
  <2>7. \A m \in Gates : edit'[m] = edit[m] \/ edit'[m] = u
    BY <1>1, <2>2 DEF WorldOK
  <2> QED
    BY <2>3, <2>5, <2>6, <2>7, PublishAgrees
<1>3. CASE DrainPublish
  <2>1. PICK t : t = work
    OBVIOUS
  <2>2. PICK u : PublishStep(Leader, t, u) /\ work' = u
    BY <1>3, <2>1 DEF DrainPublish
  <2>3. t.at \in {"read", "reread", "cas", "peers", "adopt"} /\ UNCHANGED <<course, selected, edit, poll, sweep>>
    BY <1>3, <2>1 DEF DrainPublish
  <2>4. t \in Publishes("derive", Projects, {{}}) /\ TaskOK(t)
    BY <1>1, <2>1, <2>3 DEF WorkOK, NoTask
  <2>5. Published(Leader, t, u, "derive", Projects, {{}})
    BY <1>1, <2>2, <2>3, <2>4, PublishSound
  <2>6. \A s, e : TaskHeld(t, s, e) => Carried(s, e)
    BY <2>1 DEF Carried
  <2> QED
    BY <2>2, <2>3, <2>5, <2>6, PublishAgrees
<1>4. CASE SweepPublish
  <2>1. PICK t : t = sweep
    OBVIOUS
  <2>2. PICK u : PublishStep(Leader, t, u) /\ sweep' = u
    BY <1>4, <2>1 DEF SweepPublish
  <2>3. t.at \in {"read", "cas", "peers", "adopt"} /\ UNCHANGED <<course, selected, edit, poll, work>>
    BY <1>4, <2>1 DEF SweepPublish
  <2>4. t \in Publishes("sweep", {SweepName}, Bases) /\ TaskOK(t)
    BY <1>1, <2>1, <2>3 DEF SweepOK, NoTask
  <2>5. Published(Leader, t, u, "sweep", {SweepName}, Bases)
    BY <1>1, <2>2, <2>3, <2>4, PublishSound
  <2>6. \A s, e : TaskHeld(t, s, e) => Carried(s, e)
    BY <2>1 DEF Carried
  <2> QED
    BY <2>2, <2>3, <2>5, <2>6, PublishAgrees
<1> QED
  BY <1>2, <1>3, <1>4

LEMMA NodeAgrees ==
  ASSUME QuarantineInv, OneSet, NEW n \in Gates,
         WriteStatus(n) \/ Arm(n) \/ CommitMarker(n) \/ CrashInEdit(n) \/ PollRead(n) \/ PollAdopt(n) \/ SwitchGate(n)
  PROVE  OneSet' /\ \A m \in Gates : Forward(m)
<1>1. WorldOK /\ LiveOK /\ EditOK(n)
  BY DEF QuarantineInv
<1>2. left \in Budgets /\ DOMAIN edit = Gates /\ DOMAIN poll = Gates /\ DOMAIN live = Gates
      /\ live \in [Gates -> [names : SUBSET Projects, epoch : Nat, tag : Nat, pending : BOOLEAN]]
  BY <1>1, WorldTypes DEF WorldOK
<1>3. CASE WriteStatus(n)
  <2>1. PICK q \in Projects :
           /\ left' = [left EXCEPT !.edits[q] = @ - 1]
           /\ edit' = [edit EXCEPT ![n] = [Task("one", selected[n], q, ~ status[q], {}, {}) EXCEPT !.at = "arm"]]
    BY <1>3 DEF WriteStatus
  <2>2. UNCHANGED <<course, shelf, live, selected, work, poll, sweep>>
    BY <1>3 DEF WriteStatus
  <2>3. left'.switches = left.switches
    BY <1>2, <2>1 DEF Budgets
  <2>4. Bare(edit'[n]) /\ \A m \in Gates : m # n => edit'[m] = edit[m]
    BY <1>2, <2>1 DEF Bare, Task
  <2>5. OneSet'
    BY <2>2, <2>3, <2>4, RestAgrees
  <2> QED
    BY <2>2, <2>5, LiveForward
<1>4. CASE Arm(n)
  <2>1. /\ edit[n].at = "arm" /\ edit' = [edit EXCEPT ![n].at = "read"]
        /\ live' = [live EXCEPT ![n] = arm_local_quarantine(n, edit[n].name, edit[n].blocked)]
        /\ UNCHANGED <<course, left, shelf, selected, work, poll, sweep>>
    BY <1>4 DEF Arm
  <2>2. PICK t : t = edit[n]
    OBVIOUS
  <2>3. t \in Publishes("one", Projects, {{}})
    BY <1>1, <2>1, <2>2 DEF EditOK, NoTask
  <2>4. Bare(edit'[n]) /\ \A m \in Gates : m # n => edit'[m] = edit[m]
    BY <1>2, <2>1, <2>2, <2>3 DEF Bare, Publishes
  <2>5. \A m \in Gates : m # n => live'[m] = live[m]
    BY <1>2, <2>1
  <2>6. live'[n] = live[n] \/ live'[n].pending
    <3>1. PICK l, k : l = live[n] /\ k = arm_local_quarantine(n, edit[n].name, edit[n].blocked)
      OBVIOUS
    <3>2. live'[n] = k /\ l \in [names : SUBSET Projects, epoch : Nat, tag : Nat, pending : BOOLEAN]
      BY <1>2, <2>1, <3>1
    <3>3. PICK s : s = IF edit[n].blocked THEN l.names \cup {edit[n].name} ELSE l.names \ {edit[n].name}
      OBVIOUS
    <3>4. k = l \/ k = [l EXCEPT !.names = s, !.pending = TRUE]
      BY <3>1, <3>3 DEF arm_local_quarantine
    <3>5. k = l \/ k.pending
      BY <3>2, <3>4
    <3> QED
      BY <3>1, <3>2, <3>5
  <2>7. OneSet'
    BY <2>1, <2>4, <2>5, <2>6, RestAgrees
  <2>8. Forward(n)
    BY <2>1 DEF Forward
  <2> QED
    BY <2>5, <2>7, <2>8, LiveForward
<1>5. CASE CommitMarker(n)
  <2>1. edit' = [edit EXCEPT ![n] = NoTask] /\ UNCHANGED <<course, left, shelf, live, selected, work, poll, sweep>>
    BY <1>5 DEF CommitMarker
  <2>2. Bare(edit'[n]) /\ \A m \in Gates : m # n => edit'[m] = edit[m]
    BY <1>2, <2>1 DEF Bare
  <2>3. OneSet'
    BY <2>1, <2>2, RestAgrees
  <2> QED
    BY <2>1, <2>3, LiveForward
<1>6. CASE CrashInEdit(n)
  <2>1. PICK body : body = shelf[selected[n]]
    OBVIOUS
  <2>2. PICK l : l = [names |-> body.names, epoch |-> body.epoch, tag |-> body.tag, pending |-> FALSE]
    OBVIOUS
  <2>3. /\ edit' = [edit EXCEPT ![n] = NoTask] /\ poll' = [poll EXCEPT ![n] = NoTask]
        /\ live' = [live EXCEPT ![n] = l] /\ Fault /\ UNCHANGED <<course, shelf, selected, work, sweep>>
    BY <1>6, <2>1, <2>2 DEF CrashInEdit
  <2>4. left'.switches = left.switches
    BY <1>1, <2>3, FaultLeaves
  <2>5. Bare(edit'[n]) /\ \A m \in Gates : m # n => edit'[m] = edit[m]
    BY <1>2, <2>3 DEF Bare
  <2>6. \A m \in Gates : poll'[m] \in {poll[m], NoTask}
    BY <1>2, <2>3
  <2>7. live'[n] = l /\ l.names = body.names /\ l.epoch = body.epoch /\ \A m \in Gates : m # n => live'[m] = live[m]
    BY <1>2, <2>2, <2>3
  <2>8. Still => Carried(body.names, body.epoch)
    BY <1>1, <2>1 DEF Carried, WorldOK
  <2>9. Still => \A m \in Gates : live'[m] = live[m] \/ live'[m].pending \/ Carried(live'[m].names, live'[m].epoch)
    BY <2>7, <2>8
  <2>10. OneSet'
    BY <2>3, <2>4, <2>5, <2>6, <2>9, RestAgrees
  <2>11. left'.faults < left.faults
    BY <1>2, <2>3 DEF Fault, Budgets
  <2> QED
    BY <2>10, <2>11 DEF Forward
<1>7. CASE PollRead(n)
  <2>1. PICK body : body = shelf[selected[n]]
    OBVIOUS
  <2>2. /\ poll' = [poll EXCEPT ![n] = [at |-> "read", body |-> body]]
        /\ UNCHANGED <<course, left, shelf, live, selected, edit, work, sweep>>
    BY <1>7, <2>1 DEF PollRead
  <2>3. Still => Carried(body.names, body.epoch)
    BY <1>1, <2>1 DEF Carried, WorldOK
  <2>4. poll'[n].body = body /\ \A m \in Gates : m # n => poll'[m] = poll[m]
    BY <1>2, <2>2
  <2>5. Still => \A m \in Gates : poll'[m] \in {poll[m], NoTask} \/ Carried(poll'[m].body.names, poll'[m].body.epoch)
    BY <2>3, <2>4
  <2>6. OneSet'
    BY <2>2, <2>5, RestAgrees
  <2> QED
    BY <2>2, <2>6, LiveForward
<1>8. CASE PollAdopt(n)
  <2>1. PICK body : body = poll[n].body
    OBVIOUS
  <2>2. /\ poll[n] # NoTask /\ poll' = [poll EXCEPT ![n] = NoTask]
        /\ live' = [live EXCEPT ![n] = adopt_quarantined(n, body.names, body.epoch, body.tag)]
        /\ UNCHANGED <<course, left, shelf, selected, edit, work, sweep>>
    BY <1>8, <2>1 DEF PollAdopt
  <2>3. PICK names, epoch, tag : names = body.names /\ epoch = body.epoch /\ tag = body.tag
    OBVIOUS
  <2>4. names \in SUBSET Projects /\ epoch \in Nat /\ tag \in Nat /\ Backed(names, epoch) /\ Carried(names, epoch)
    <3>1. body \in Bodies /\ Backed(body.names, body.epoch)
      BY <1>1, <2>1, <2>2 DEF LiveOK
    <3>2. Carried(body.names, body.epoch)
      BY <2>1, <2>2 DEF Carried
    <3> QED
      BY <2>3, <3>1, <3>2 DEF Bodies
  <2>5. PICK t : t = [at |-> "adopt", next |-> names, epoch |-> epoch]
    OBVIOUS
  <2>6. Given(t, names, epoch) /\ \A s, e : TaskHeld(t, s, e) => s = names /\ e = epoch
    BY <2>5 DEF Given, TaskHeld
  <2>7. live' = [live EXCEPT ![n] = adopt_quarantined(n, names, epoch, tag)]
    BY <2>2, <2>3
  <2>8. \A m \in Gates : Adopted(live[m], live'[m], t)
    BY <1>1, <2>4, <2>6, <2>7, AdoptMoves
  <2>9. \A s, e : TaskHeld(t, s, e) => Carried(s, e)
    BY <2>4, <2>6
  <2>10. \A m \in Gates : live'[m].epoch \in Nat
    <3>1. LiveAt(adopt_quarantined(n, names, epoch, tag))
      BY <1>1, <2>4, AdoptLive
    <3> QED
      BY <1>2, <2>7, <3>1 DEF LiveAt
  <2>11. \A m \in Gates : Forward(m)
    BY <2>8, <2>9, <2>10, AdoptedForward
  <2>12. \A m \in Gates : live'[m] = live[m] \/ live'[m].pending \/ Carried(live'[m].names, live'[m].epoch)
    <3>1. PICK l : l = adopt_quarantined(n, names, epoch, tag)
      OBVIOUS
    <3>2. live'[n] = l /\ \A m \in Gates : m # n => live'[m] = live[m]
      BY <1>2, <2>7, <3>1
    <3>3. PICK k : k = live[n]
      OBVIOUS
    <3>4. k \in [names : SUBSET Projects, epoch : Nat, tag : Nat, pending : BOOLEAN]
      BY <1>2, <3>3
    <3>5. l = [k EXCEPT !.tag = tag] \/ l = [names |-> names, epoch |-> epoch, tag |-> tag, pending |-> FALSE]
      BY <3>1, <3>3 DEF adopt_quarantined
    <3>6. (l.names = k.names /\ l.epoch = k.epoch /\ l.pending = k.pending) \/ (l.names = names /\ l.epoch = epoch)
      BY <3>4, <3>5
    <3>7. l.pending \/ Carried(l.names, l.epoch)
      <4>1. ~ k.pending => Carried(k.names, k.epoch)
        BY <3>3 DEF Carried
      <4> QED
        BY <2>4, <3>6, <4>1
    <3> QED
      BY <3>2, <3>7
  <2>13. \A m \in Gates : poll'[m] \in {poll[m], NoTask}
    BY <1>2, <2>2
  <2>14. OneSet'
    BY <2>2, <2>12, <2>13, RestAgrees
  <2> QED
    BY <2>11, <2>14
<1>9. CASE SwitchGate(n)
  <2>1. ~ Still' /\ live' = live
    BY <1>9, SwitchMoves DEF SwitchGate
  <2> QED
    BY <2>1, LiveForward DEF OneSet
<1> QED
  BY <1>3, <1>4, <1>5, <1>6, <1>7, <1>8, <1>9

LEMMA LeaderAgrees ==
  ASSUME QuarantineInv, OneSet,
         DrainStart \/ DrainDone \/ SweepStart \/ SweepWalk \/ SweepDone \/ ReseedShelves
  PROVE  OneSet' /\ \A m \in Gates : Forward(m)
<1>1. WorldOK /\ LiveOK
  BY DEF QuarantineInv
<1>2. live' = live
  BY DEF DrainStart, DrainDone, SweepStart, SweepWalk, SweepDone, ReseedShelves
<1>3. CASE DrainStart
  <2>1. PICK q : work' = Task("derive", selected[Leader], q, status[q], {}, {})
    BY <1>3 DEF DrainStart
  <2>2. UNCHANGED <<course, left, shelf, live, selected, edit, poll, sweep>>
    BY <1>3 DEF DrainStart
  <2>3. Bare(work')
    BY <2>1 DEF Bare, Task
  <2> QED
    BY <2>2, <2>3, RestAgrees, LiveForward
<1>4. CASE DrainDone
  <2>1. Bare(work') /\ UNCHANGED <<course, left, shelf, live, selected, edit, poll, sweep>>
    BY <1>4 DEF DrainDone, Bare
  <2> QED
    BY <2>1, RestAgrees, LiveForward
<1>5. CASE SweepStart
  <2>1. Bare(sweep') /\ UNCHANGED <<course, shelf, live, selected, edit, poll, work>>
    BY <1>5 DEF SweepStart, Bare
  <2>2. left'.switches = left.switches
    <3>1. left' = [left EXCEPT !.sweeps = @ - 1] /\ left \in Budgets
      BY <1>1, <1>5, WorldTypes DEF SweepStart
    <3> QED
      BY <3>1 DEF Budgets
  <2> QED
    BY <2>1, <2>2, RestAgrees, LiveForward
<1>6. CASE SweepWalk
  <2>1. Bare(sweep') /\ UNCHANGED <<course, left, shelf, live, selected, edit, poll, work>>
    BY <1>6 DEF SweepWalk, Bare, Task
  <2> QED
    BY <2>1, RestAgrees, LiveForward
<1>7. CASE SweepDone
  <2>1. Bare(sweep') /\ UNCHANGED <<course, left, shelf, live, selected, edit, poll, work>>
    BY <1>7 DEF SweepDone, Bare
  <2> QED
    BY <2>1, RestAgrees, LiveForward
<1>8. CASE ReseedShelves
  <2>1. UNCHANGED <<course, left, live, selected, edit, poll, work, sweep>>
    BY <1>8 DEF ReseedShelves
  <2>2. Still => shelf'[Home] = shelf[Home]
    BY <1>8, ReseedHome
  <2>3. OneSet'
    BY <2>1, <2>2, RestAgrees
  <2> QED
    BY <2>1, <2>3, LiveForward
<1> QED
  BY <1>3, <1>4, <1>5, <1>6, <1>7, <1>8

LEMMA QuarantineAgrees ==
  ASSUME QuarantineInv, OneSet, QuarantineNext
  PROVE  OneSet' /\ \A m \in Gates : Forward(m)
<1>1. CASE (\E n \in Gates : PublishOne(n)) \/ DrainPublish \/ SweepPublish
  BY <1>1, PublishesAgree
<1>2. ASSUME NEW n \in Gates,
             \/ WriteStatus(n) \/ Arm(n) \/ CommitMarker(n) \/ CrashInEdit(n)
             \/ PollRead(n) \/ PollAdopt(n) \/ SwitchGate(n)
      PROVE  OneSet' /\ \A m \in Gates : Forward(m)
  BY <1>2, NodeAgrees
<1>3. CASE DrainStart \/ DrainDone \/ SweepStart \/ SweepWalk \/ SweepDone \/ ReseedShelves
  BY <1>3, LeaderAgrees
<1> QED
  BY <1>1, <1>2, <1>3 DEF QuarantineNext

LEMMA AgreeStart ==
  ASSUME QuarantineInit
  PROVE  OneSet
<1>1. PICK b0 \in InUse : selected = [n \in Gates |-> b0]
  BY DEF QuarantineInit
<1>2. Home = b0
  BY <1>1, QuarantineAssumption DEF Home
<1>3. /\ shelf[Home].names = Blocked
      /\ \A n \in Gates : live[n].names = Blocked /\ poll[n] = NoTask /\ edit[n] = NoTask
      /\ work = NoTask /\ sweep = NoTask
  BY <1>1, <1>2 DEF QuarantineInit
<1>4. ASSUME NEW s, NEW e, Carried(s, e)
      PROVE  s = Blocked
  BY <1>3, <1>4, NothingHeld DEF Carried
<1> QED
  BY <1>4 DEF OneSet

LEMMA AgreeStutters ==
  ASSUME QuarantineInv, OneSet, UNCHANGED quarantineVars
  PROVE  OneSet'
<1>1. UNCHANGED <<course, left, shelf, live, selected, edit, work, sweep, poll>>
  BY DEF quarantineVars
<1> QED
  BY <1>1, RestAgrees

(* advisories.rs adopt_quarantined, for any nodes, buckets, projects,       *)
(* writes, sweeps, faults and moves: what a running node serves by is       *)
(* replaced only by a newer set, by an arm of its own, or, once nodes have  *)
(* moved between buckets and it has no arm, by one of the same epoch.       *)
THEOREM NeverBackwardsHolds == QuarantineSpec => NeverBackwards
<1>1. QuarantineInit => QuarantineInv /\ OneSet
  BY QuarantineStart, AgreeStart
<1>2. QuarantineInv /\ OneSet /\ [QuarantineNext]_quarantineVars => (QuarantineInv /\ OneSet)'
  BY QuarantineStep, QuarantineAgrees, AgreeStutters
<1>3. QuarantineInv /\ OneSet /\ [QuarantineNext]_quarantineVars =>
        [\A n \in Gates :
            \/ live'[n].epoch > live[n].epoch
            \/ /\ live'[n].epoch = live[n].epoch
               /\ \/ live'[n].names = live[n].names
                  \/ ~ live[n].pending /\ left.switches < course.switches
            \/ edit[n].at = "arm"
            \/ left'.faults < left.faults]_quarantineVars
  BY QuarantineAgrees DEF Forward
<1> QED
  BY <1>1, <1>2, <1>3, PTL DEF QuarantineSpec, NeverBackwards
=============================================================================
