----------------------------- MODULE IndexProofs -----------------------------
(***************************************************************************)
(* The global index for any packages, nodes, jobs and faults: its writers  *)
(* behave as if each applied its delta to an atomic register of names, no  *)
(* stamp is a false proof and no cache hides a delta (GlobalIndex).        *)
(*                                                                         *)
(* The argument is the one of the ETags.  Whoever remembers a tag also     *)
(* remembers the names of the object that bore it: a cache, the base that  *)
(* a job loaded, the tags that a job's own writes returned.  A write takes *)
(* a tag that nobody remembers, so it falsifies none of these memories.    *)
(***************************************************************************)
EXTENDS GlobalIndex, FiniteSetTheorems, TLAPS

-----------------------------------------------------------------------------
(* The inductive invariant.                                                *)

WorldTyped ==
    /\ \E f \in Fleets : fleet = f[1]
    /\ truth \in [Packages -> {"absent", "claimed", "live"}]
    /\ views \subseteq Packages
    /\ dirty \subseteq Marker /\ IsFiniteSet(dirty)

StoreTyped ==
    /\ json \in Object \cup {None}
    /\ html \in Object \cup {None}
    /\ stamp \in Object \cup {None}

JobTyped(r) == r \in Job /\ IsFiniteSet(r.keys)

SlotsTyped ==
    /\ cache \in [Slots -> CachedNames \cup {None}]
    /\ job \in [Jobs -> Job]
    /\ \A j \in Jobs : IsFiniteSet(job[j].keys)

\* One job at a time updates through a slot.
Exclusive ==
    \A j, k \in Jobs :
        j # k /\ Slot(j) = Slot(k) /\ job[j].at \in Updating => job[k].at \notin Updating

\* The names a job takes out of the index.
Dropped(j) == job[j].removes \cup {d[1] : d \in job[j].dead}

\* From the load to the last write a job has names in its slot.
Holds(j) == job[j].at \in Updating \ {"load", "html"} => cache[Slot(j)] # None

\* Names are derived from views only where no JSON was found under an HTML.
Derives(j) == job[j].at = "derive" => cache[Slot(j)].etag = None /\ html # None

\* The base that a job loaded is the object that bore its tag.
Loaded(j) ==
    job[j].at = "html" /\ job[j].base # None =>
        json # None /\ (json.tag = job[j].base.tag => json.names = job[j].base.names)

\* What a job is about to publish is its delta applied to the object that the slot
\* is pinned to.
Applied(j) ==
    job[j].at \in {"publish", "canonical"} =>
        /\ job[j].adds \ Dropped(j) \subseteq cache[Slot(j)].names
        /\ cache[Slot(j)].names \cap Dropped(j) = {}
        /\ json # None /\ json.tag = cache[Slot(j)].etag =>
              cache[Slot(j)].names = (json.names \cup job[j].adds) \ Dropped(j)

\* An HTML that bears the tag of the job's own write renders the names of its slot.
Rendered(j) ==
    job[j].at \in {"canonical", "stamp"} =>
        /\ html # None /\ job[j].tag \in Tags
        /\ html.tag = job[j].tag => html.names = cache[Slot(j)].names

\* So does a JSON.
Recorded(j) ==
    job[j].at = "stamp" /\ job[j].jtag # None =>
        json # None /\ (json.tag = job[j].jtag => json.names = cache[Slot(j)].names)

Rewrites(j) == job[j].at = "rewrite" => html # None

\* A job knows the tag of a JSON it wrote only until it has pinned its slot to it.
Untagged(j) == job[j].at # "stamp" => job[j].jtag = None

JobInv(j) ==
    /\ Holds(j) /\ Derives(j) /\ Loaded(j) /\ Applied(j)
    /\ Rendered(j) /\ Recorded(j) /\ Rewrites(j) /\ Untagged(j)

\* The names in a slot are not those of the object it is pinned to.
Ahead(j) ==
    job[j].at \in {"publish", "canonical"} \/ (job[j].at = "stamp" /\ job[j].jtag # None)

\* A cache that is pinned to the stored JSON holds its names, but for a job that is ahead.
Pinned(s) ==
    cache[s] # None /\ json # None /\ json.tag = cache[s].etag =>
        cache[s].names = json.names \/ \E j \in Jobs : Slot(j) = s /\ Ahead(j)

\* Before the first HTML there is nothing to remember.
Blank(s) ==
    cache[s] # None /\ html = None =>
        /\ cache[s].etag = None
        /\ cache[s].names = {} \/ \E j \in Jobs : Slot(j) = s /\ job[j].at = "publish"

CacheInv(s) == Pinned(s) /\ Blank(s)

HtmlFirst == json # None => html # None

IndexInv ==
    /\ WorldTyped /\ StoreTyped /\ SlotsTyped /\ Exclusive
    /\ \A j \in Jobs : JobInv(j)
    /\ \A s \in Slots : CacheInv(s)
    /\ HtmlFirst /\ StampSound

-----------------------------------------------------------------------------
(* Slots and tags.                                                         *)

LEMMA SlotFacts ==
    \A j \in Jobs :
        /\ Node(j) \in Nodes /\ Slot(j) \in Slots /\ j \notin Nodes
        /\ Kind(j) \in {"tick", "audit", "drain"}
        /\ Slot(j) \in Nodes <=> Kind(j) # "drain"
    BY GlobalAssumption DEF Jobs, Node, Slot, Slots, Kind

\* The image of a finite set is no larger.
LEMMA ImageBound ==
    ASSUME NEW S, IsFiniteSet(S), NEW f
    PROVE  IsFiniteSet({f[x] : x \in S}) /\ Cardinality({f[x] : x \in S}) <= Cardinality(S)
<1>1. [x \in S |-> f[x]] \in Surjection(S, {f[x] : x \in S})
    BY DEF Surjection
<1> QED
    BY <1>1, FS_Surjection

LEMMA JobsFinite == IsFiniteSet(Jobs) /\ IsFiniteSet(Slots)
<1> DEFINE Of(kind) == {[n \in Nodes |-> <<n, kind>>][x] : x \in Nodes}
<1>1. ASSUME NEW kind PROVE IsFiniteSet(Of(kind))
    <2> DEFINE f == [n \in Nodes |-> <<n, kind>>]
    <2>1. IsFiniteSet({f[x] : x \in Nodes})
        <3> HIDE DEF f
        <3> QED
            BY ImageBound, GlobalAssumption
    <2> QED
        BY <2>1
<1>2. IsFiniteSet(Of("tick") \cup Of("audit") \cup Of("drain"))
    BY <1>1, FS_Union
<1>3. Jobs \subseteq Of("tick") \cup Of("audit") \cup Of("drain")
    BY GlobalAssumption DEF Jobs
<1>4. IsFiniteSet(Jobs)
    BY <1>2, <1>3, FS_Subset
<1>5. IsFiniteSet({j \in Jobs : Kind(j) = "drain"})
    BY <1>4, FS_Subset
<1> QED
    BY <1>4, <1>5, FS_Union, GlobalAssumption DEF Slots

\* The union of two finite sets has no more elements than the two together.
LEMMA UnionBound ==
    ASSUME NEW S, NEW T, IsFiniteSet(S), IsFiniteSet(T), NEW m \in Nat, NEW n \in Nat,
           Cardinality(S) <= m, Cardinality(T) <= n
    PROVE  IsFiniteSet(S \cup T) /\ Cardinality(S \cup T) <= m + n
<1>1. IsFiniteSet(S \cup T) /\ IsFiniteSet(S \cap T)
    BY FS_Union, FS_Subset
<1>2. Cardinality(S \cup T) = Cardinality(S) + Cardinality(T) - Cardinality(S \cap T)
    BY FS_Union
<1>3. /\ Cardinality(S) \in Nat /\ Cardinality(T) \in Nat
      /\ Cardinality(S \cap T) \in Nat /\ Cardinality(S \cup T) \in Nat
    BY <1>1, FS_CardinalityType
<1> QED
    BY <1>1, <1>2, <1>3

\* A write finds a tag that nobody remembers.
LEMMA FreshTagFact == FreshTag \in Tags /\ FreshTag \notin InUse
<1> DEFINE C == Cardinality(Slots)
           J == Cardinality(Jobs)
           etags == [s \in Slots |-> IF cache[s] = None THEN None ELSE cache[s].etag]
           pages == [s \in Slots |-> IF cache[s] = None THEN None ELSE cache[s].html_etag]
           bases == [j \in Jobs |-> Etag(job[j].base)]
           wants == [j \in Jobs |-> job[j].want]
           tags == [j \in Jobs |-> job[j].tag]
           jtags == [j \in Jobs |-> job[j].jtag]
           A == {Etag(json)} \cup {Etag(html)} \cup {Etag(stamp)}
           B == {etags[s] : s \in Slots} \cup {pages[s] : s \in Slots}
           D == {bases[j] : j \in Jobs} \cup {wants[j] : j \in Jobs}
           E == {tags[j] : j \in Jobs} \cup {jtags[j] : j \in Jobs}
           All == (A \cup B) \cup (D \cup E)
<1>1. C \in Nat /\ J \in Nat
    BY JobsFinite, FS_CardinalityType
<1>2. IsFiniteSet(A) /\ Cardinality(A) <= 3
    <2>0. \A x : IsFiniteSet({x}) /\ Cardinality({x}) = 1
        BY FS_Singleton, Zenon
    <2>1. ASSUME NEW x PROVE IsFiniteSet({x}) /\ Cardinality({x}) <= 1
        <3>1. IsFiniteSet({x}) /\ Cardinality({x}) = 1
            BY <2>0, Zenon
        <3> QED
            BY <3>1
    <2>2. 1 \in Nat /\ 2 \in Nat /\ 1 + 1 = 2 /\ 2 + 1 = 3
        OBVIOUS
    <2>3. IsFiniteSet({Etag(json)} \cup {Etag(html)}) /\ Cardinality({Etag(json)} \cup {Etag(html)}) <= 1 + 1
        BY <2>1, <2>2, UnionBound, Zenon
    <2>4. IsFiniteSet(A) /\ Cardinality(A) <= 2 + 1
        BY <2>1, <2>2, <2>3, UnionBound, Zenon
    <2> QED
        BY <2>2, <2>4
<1>3. IsFiniteSet(B) /\ Cardinality(B) <= C + C
    <2> HIDE DEF etags, pages
    <2>1. IsFiniteSet({etags[s] : s \in Slots}) /\ Cardinality({etags[s] : s \in Slots}) <= C
        BY JobsFinite, ImageBound
    <2>2. IsFiniteSet({pages[s] : s \in Slots}) /\ Cardinality({pages[s] : s \in Slots}) <= C
        BY JobsFinite, ImageBound
    <2> HIDE DEF C
    <2> QED
        BY <1>1, <2>1, <2>2, UnionBound
<1>4. IsFiniteSet(D) /\ Cardinality(D) <= J + J
    <2> HIDE DEF bases, wants
    <2>1. IsFiniteSet({bases[j] : j \in Jobs}) /\ Cardinality({bases[j] : j \in Jobs}) <= J
        BY JobsFinite, ImageBound
    <2>2. IsFiniteSet({wants[j] : j \in Jobs}) /\ Cardinality({wants[j] : j \in Jobs}) <= J
        BY JobsFinite, ImageBound
    <2> HIDE DEF J
    <2> QED
        BY <1>1, <2>1, <2>2, UnionBound
<1>5. IsFiniteSet(E) /\ Cardinality(E) <= J + J
    <2> HIDE DEF tags, jtags
    <2>1. IsFiniteSet({tags[j] : j \in Jobs}) /\ Cardinality({tags[j] : j \in Jobs}) <= J
        BY JobsFinite, ImageBound
    <2>2. IsFiniteSet({jtags[j] : j \in Jobs}) /\ Cardinality({jtags[j] : j \in Jobs}) <= J
        BY JobsFinite, ImageBound
    <2> HIDE DEF J
    <2> QED
        BY <1>1, <2>1, <2>2, UnionBound
<1>6. IsFiniteSet(All) /\ Cardinality(All) <= (3 + (C + C)) + ((J + J) + (J + J))
    <2> HIDE DEF A, B, D, E, C, J
    <2>0. 3 \in Nat /\ C + C \in Nat /\ J + J \in Nat
        BY <1>1
    <2>1. IsFiniteSet(A \cup B) /\ Cardinality(A \cup B) <= 3 + (C + C)
        BY <2>0, <1>2, <1>3, UnionBound, Zenon
    <2>2. IsFiniteSet(D \cup E) /\ Cardinality(D \cup E) <= (J + J) + (J + J)
        BY <2>0, <1>4, <1>5, UnionBound, Zenon
    <2>3. 3 + (C + C) \in Nat /\ (J + J) + (J + J) \in Nat
        BY <1>1
    <2> QED
        BY <2>1, <2>2, <2>3, UnionBound
<1>7. InUse \subseteq All
    <2>1. ASSUME NEW s \in Slots PROVE CacheTags(cache[s]) \subseteq B
        <3>1. etags[s] \in B /\ pages[s] \in B
            OBVIOUS
        <3> QED
            BY <3>1 DEF CacheTags
    <2>2. ASSUME NEW j \in Jobs PROVE JobTags(j) \subseteq D \cup E
        <3>1. bases[j] \in D /\ wants[j] \in D /\ tags[j] \in E /\ jtags[j] \in E
            OBVIOUS
        <3> QED
            BY <3>1 DEF JobTags
    <2>3. {Etag(json), Etag(html), Etag(stamp)} \subseteq A
        OBVIOUS
    <2> HIDE DEF A, B, D, E
    <2> SUFFICES ASSUME NEW x \in InUse PROVE x \in All
        OBVIOUS
    <2>4. \/ x \in {Etag(json), Etag(html), Etag(stamp)}
          \/ \E s \in Slots : x \in CacheTags(cache[s])
          \/ \E j \in Jobs : x \in JobTags(j)
        BY DEF InUse
    <2> QED
        BY <2>1, <2>2, <2>3, <2>4
<1>8. ~(Tags \subseteq All)
    <2> HIDE DEF All
    <2>1. Cardinality(All) \in Nat /\ Cardinality(Tags) \in Nat
        BY <1>6, GlobalAssumption, FS_CardinalityType
    <2>2. Tags \subseteq All => Cardinality(Tags) <= Cardinality(All)
        BY <1>6, FS_Subset
    <2> QED
        BY <1>1, <1>6, <2>1, <2>2, GlobalAssumption
<1>9. \E t \in Tags : t \notin InUse
    BY <1>7, <1>8
<1> QED
    BY <1>9, Zenon DEF FreshTag

\* What the caches and the jobs remember is in use.
LEMMA Remembered ==
    /\ \A s \in Slots : cache[s] # None => cache[s].etag \in InUse
    /\ \A j \in Jobs : Etag(job[j].base) \in InUse /\ job[j].tag \in InUse /\ job[j].jtag \in InUse
    /\ Etag(stamp) \in InUse
<1>1. ASSUME NEW s \in Slots PROVE CacheTags(cache[s]) \subseteq InUse
    BY DEF InUse
<1>2. ASSUME NEW j \in Jobs PROVE JobTags(j) \subseteq InUse
    BY DEF InUse
<1>3. Etag(stamp) \in InUse
    BY DEF InUse
<1> QED
    BY <1>1, <1>2, <1>3 DEF CacheTags, JobTags

-----------------------------------------------------------------------------
(* What a write leaves standing.                                           *)

\* A step keeps each object of the pair or puts one with a new tag in its place.
FreshStore ==
    /\ json' = json \/ (json' \in Object /\ json'.tag \notin InUse)
    /\ html' = html \/ (html' \in Object /\ html'.tag \notin InUse)

StoreSafe == FreshStore /\ StoreTyped' /\ HtmlFirst' /\ StampSound'

LEMMA ObjectFacts ==
    /\ None \notin Object
    /\ \A t \in Tags, N \in SUBSET Packages :
          /\ [tag |-> t, names |-> N] \in Object
          /\ [tag |-> t, names |-> N].tag = t /\ [tag |-> t, names |-> N].names = N
    /\ \A o \in Object : o.tag \in Tags /\ o.names \subseteq Packages /\ o # None /\ o.tag # None
    BY GlobalAssumption DEF Object

LEMMA HtmlWrite ==
    ASSUME IndexInv, NEW N \in SUBSET Packages, html' = [tag |-> FreshTag, names |-> N],
           json' = json, stamp' = stamp
    PROVE  StoreSafe
<1>1. html' \in Object /\ html'.tag = FreshTag /\ html' # None
    BY ObjectFacts, FreshTagFact
<1>2. StoreTyped'
    BY <1>1 DEF StoreTyped, IndexInv
<1>3. StampSound'
    <2>1. stamp # None => stamp.tag \in InUse
        BY Remembered DEF Etag
    <2> QED
        BY <1>1, <2>1, FreshTagFact DEF StampSound
<1> QED
    BY <1>1, <1>2, <1>3, FreshTagFact DEF StoreSafe, FreshStore, HtmlFirst

LEMMA JsonWrite ==
    ASSUME IndexInv, NEW N \in SUBSET Packages, json' = [tag |-> FreshTag, names |-> N],
           html # None, html' = html, stamp' = stamp
    PROVE  StoreSafe
<1>1. json' \in Object /\ json'.tag = FreshTag
    BY ObjectFacts, FreshTagFact
<1>2. StoreTyped' /\ StampSound' /\ HtmlFirst'
    BY <1>1 DEF StoreTyped, StampSound, HtmlFirst, IndexInv
<1> QED
    BY <1>1, <1>2, FreshTagFact DEF StoreSafe, FreshStore

LEMMA StoreKept ==
    ASSUME IndexInv, UNCHANGED store
    PROVE  StoreSafe
    BY DEF StoreSafe, FreshStore, StoreTyped, HtmlFirst, StampSound, IndexInv, store

\* A put in flight that lands after its caller is gone.
LEMMA InFlightSafe ==
    ASSUME IndexInv, NEW j \in Jobs, InFlight(j)
    PROVE  StoreSafe
<1> DEFINE N == cache[Slot(j)].names
<1>1. job[j].at \in {"publish", "rewrite", "canonical"} => N \in SUBSET Packages
    BY SlotFacts DEF IndexInv, SlotsTyped, JobInv, Holds, Updating, Phases, CachedNames
<1>2. CASE UNCHANGED store
    BY <1>2, StoreKept
<1>3. CASE /\ job[j].at \in {"publish", "rewrite"}
           /\ html' = [tag |-> FreshTag, names |-> N] /\ UNCHANGED <<json, stamp>>
    BY <1>1, <1>3, HtmlWrite
<1>4. CASE /\ job[j].at = "canonical"
           /\ json' = [tag |-> FreshTag, names |-> N] /\ UNCHANGED <<html, stamp>>
    <2>1. html # None
        BY <1>4 DEF IndexInv, JobInv, Rendered
    <2> QED
        BY <1>1, <1>4, <2>1, JsonWrite
<1> QED
    BY <1>2, <1>3, <1>4 DEF InFlight

-----------------------------------------------------------------------------
(* Who is not concerned by a step keeps its part of the invariant.         *)

LEMMA RestingJob ==
    ASSUME NEW k \in Jobs, job'[k].at \notin Updating \/ job'[k].at = "load", job'[k].jtag = None
    PROVE  JobInv(k)'
    BY DEF JobInv, Holds, Derives, Loaded, Applied, Rendered, Recorded, Rewrites, Untagged, Updating, Phases

LEMMA JobKept ==
    ASSUME IndexInv, StoreSafe, NEW k \in Jobs, job'[k] = job[k],
           job[k].at \in Updating => cache'[Slot(k)] = cache[Slot(k)]
    PROVE  JobInv(k)'
<1>1. CASE job[k].at \notin Updating
    <2>1. job[k].jtag = None
        BY <1>1 DEF IndexInv, JobInv, Untagged, Updating, Phases
    <2> QED
        BY <1>1, <2>1, RestingJob
<1>2. CASE job[k].at \in Updating
    <2>1. JobInv(k) /\ cache'[Slot(k)] = cache[Slot(k)]
        BY <1>2 DEF IndexInv
    <2>2. /\ html # None => html' # None
          /\ json # None => json' # None
          /\ cache[Slot(k)] \in CachedNames \cup {None} /\ JobTyped(job[k])
        BY SlotFacts, ObjectFacts DEF StoreSafe, FreshStore, IndexInv, SlotsTyped, JobTyped
    <2>3. /\ json' # json => json'.tag \notin InUse /\ json' # None
          /\ html' # html => html'.tag \notin InUse
        BY ObjectFacts DEF StoreSafe, FreshStore
    <2>4. /\ cache[Slot(k)] # None => cache[Slot(k)].etag \in InUse
          /\ Etag(job[k].base) \in InUse /\ job[k].tag \in InUse /\ job[k].jtag \in InUse
        BY Remembered, SlotFacts
    <2>5. Holds(k)' /\ Derives(k)' /\ Rewrites(k)' /\ Untagged(k)'
        BY <2>1, <2>2 DEF JobInv, Holds, Derives, Rewrites, Untagged
    <2>6. Loaded(k)'
        BY <2>1, <2>2, <2>3, <2>4 DEF JobInv, Loaded, Etag
    <2>7. Applied(k)'
        <3> SUFFICES ASSUME job[k].at \in {"publish", "canonical"} PROVE Applied(k)'
            BY DEF Applied
        <3>1. cache[Slot(k)] # None
            BY <2>1 DEF JobInv, Holds, Updating, Phases
        <3>2. Dropped(k)' = Dropped(k)
            BY DEF Dropped
        <3> QED
            BY <2>1, <2>3, <2>4, <3>1, <3>2 DEF JobInv, Applied
    <2>8. Rendered(k)'
        BY <2>1, <2>2, <2>3, <2>4 DEF JobInv, Rendered
    <2>9. Recorded(k)'
        BY <2>1, <2>2, <2>3, <2>4 DEF JobInv, Recorded
    <2> QED
        BY <2>5, <2>6, <2>7, <2>8, <2>9 DEF JobInv
<1> QED
    BY <1>1, <1>2

LEMMA CacheKept ==
    ASSUME IndexInv, StoreSafe, NEW s \in Slots, cache'[s] = cache[s],
           \A k \in Jobs : Slot(k) = s /\ job[k].at \in Updating => job'[k] = job[k]
    PROVE  CacheInv(s)'
<1>1. \A k \in Jobs : Ahead(k) => job[k].at \in Updating
    BY DEF Ahead, Updating, Phases
<1>2. \A k \in Jobs : Slot(k) = s /\ Ahead(k) => Ahead(k)'
    BY <1>1 DEF Ahead
<1>3. \A k \in Jobs : Slot(k) = s /\ job[k].at = "publish" => job'[k].at = "publish"
    BY DEF Updating, Phases
<1>4. cache[s] # None => cache[s].etag \in InUse
    BY Remembered
<1>5. CacheInv(s)
    BY DEF IndexInv
<1>6. Pinned(s)'
    <2> SUFFICES ASSUME cache[s] # None, json' # None, json'.tag = cache[s].etag
                 PROVE  cache[s].names = json'.names \/ \E j \in Jobs : Slot(j) = s /\ Ahead(j)'
        BY DEF Pinned
    <2>1. json' = json
        BY <1>4 DEF StoreSafe, FreshStore
    <2> QED
        BY <1>2, <1>5, <2>1 DEF CacheInv, Pinned
<1>7. Blank(s)'
    <2>1. html' = None => html = None
        BY ObjectFacts DEF StoreSafe, FreshStore
    <2> QED
        BY <1>3, <1>5, <2>1 DEF CacheInv, Blank
<1> QED
    BY <1>6, <1>7 DEF CacheInv

\* A step of one job: what is left to show of it.
LEMMA OneJob ==
    ASSUME IndexInv, NEW j \in Jobs, NEW r, NEW c,
           job' = [job EXCEPT ![j] = r], cache' = [cache EXCEPT ![Slot(j)] = c],
           WorldTyped', StoreSafe, JobTyped(r), c \in CachedNames \cup {None},
           \A k \in Jobs \ {j} : Slot(k) = Slot(j) /\ job[k].at \in Updating =>
               c = cache[Slot(j)] /\ r.at \notin Updating,
           JobInv(j)', CacheInv(Slot(j))'
    PROVE  IndexInv'
<1>0. /\ Slot(j) \in Slots /\ cache \in [Slots -> CachedNames \cup {None}]
      /\ job \in [Jobs -> Job]
    BY SlotFacts DEF IndexInv, SlotsTyped
<1>1. job'[j] = r /\ \A k \in Jobs \ {j} : job'[k] = job[k]
    BY <1>0
<1>2. cache'[Slot(j)] = c /\ \A s \in Slots \ {Slot(j)} : cache'[s] = cache[s]
    BY <1>0
<1>3. SlotsTyped'
    <2>1. job' \in [Jobs -> Job]
        BY <1>0 DEF JobTyped
    <2>2. \A i \in Jobs : IsFiniteSet(job'[i].keys)
        BY <1>1 DEF IndexInv, SlotsTyped, JobTyped
    <2> QED
        BY <1>0, <2>1, <2>2 DEF SlotsTyped
<1>4. Exclusive'
    <2> SUFFICES ASSUME NEW k \in Jobs \ {j}, Slot(k) = Slot(j), job'[k].at \in Updating
                 PROVE  job'[j].at \notin Updating
        BY <1>1 DEF Exclusive, IndexInv
    <2> QED
        BY <1>1
<1>5. ASSUME NEW k \in Jobs PROVE JobInv(k)'
    <2>1. CASE k = j
        BY <2>1
    <2>2. CASE k # j
        BY <1>1, <1>2, <2>2, JobKept, SlotFacts
    <2> QED
        BY <2>1, <2>2
<1>6. ASSUME NEW s \in Slots PROVE CacheInv(s)'
    <2>1. CASE s = Slot(j)
        BY <2>1
    <2>2. CASE s # Slot(j)
        BY <1>1, <1>2, <2>2, CacheKept
    <2> QED
        BY <2>1, <2>2
<1> QED
    BY <1>3, <1>4, <1>5, <1>6 DEF IndexInv, StoreSafe

\* The slot of a job that updates is its own.
LEMMA Alone ==
    ASSUME IndexInv, NEW j \in Jobs, job[j].at \in Updating
    PROVE  \A k \in Jobs \ {j} : Slot(k) = Slot(j) => job[k].at \notin Updating
    BY DEF IndexInv, Exclusive

\* A job that starts, ends or waits, and leaves its slot as it is or empties it.
LEMMA Resting ==
    ASSUME IndexInv, NEW j \in Jobs, NEW r, NEW c \in {cache[Slot(j)], None},
           job' = [job EXCEPT ![j] = r], cache' = [cache EXCEPT ![Slot(j)] = c],
           WorldTyped', StoreSafe, JobTyped(r), r.jtag = None,
           r.at \in {"idle", "ghosts", "lock", "done", "load"},
           \A k \in Jobs \ {j} : Slot(k) = Slot(j) /\ job[k].at \in Updating =>
               c = cache[Slot(j)] /\ r.at # "load",
           job[j].at \in Updating => c = None
    PROVE  IndexInv'
<1>0. /\ Slot(j) \in Slots /\ cache \in [Slots -> CachedNames \cup {None}]
      /\ job \in [Jobs -> Job]
    BY SlotFacts DEF IndexInv, SlotsTyped
<1>1. job'[j] = r /\ \A k \in Jobs \ {j} : job'[k] = job[k]
    BY <1>0
<1>2. cache'[Slot(j)] = c /\ c \in CachedNames \cup {None}
    BY <1>0
<1>3. JobInv(j)'
    BY <1>1, RestingJob DEF Updating
<1>4. CacheInv(Slot(j))'
    <2>1. CASE c = None
        BY <1>2, <2>1 DEF CacheInv, Pinned, Blank
    <2>2. CASE c # None
        BY <1>0, <1>1, <1>2, <2>2, CacheKept
    <2> QED
        BY <2>1, <2>2
<1>5. r.at \in Updating => r.at = "load"
    BY DEF Updating, Phases
<1>6. \A k \in Jobs \ {j} : Slot(k) = Slot(j) /\ job[k].at \in Updating =>
          c = cache[Slot(j)] /\ r.at \notin Updating
    BY <1>5
<1> QED
    BY <1>2, <1>3, <1>4, <1>6, OneJob

-----------------------------------------------------------------------------
(* The steps.                                                              *)

LEMMA IdleTyped == JobTyped(Idle) /\ Idle.at = "idle" /\ Idle.jtag = None /\ Idle \in Job
<1>1. Idle \in Job /\ Idle.at = "idle" /\ Idle.jtag = None /\ Idle.keys = {}
    BY GlobalAssumption DEF Job, Idle, Phases
<1> QED
    BY <1>1, FS_EmptySet DEF JobTyped

LEMMA WorldKept ==
    ASSUME IndexInv, fleet' = fleet, UNCHANGED <<truth, views, dirty>>
    PROVE  WorldTyped'
    BY DEF IndexInv, WorldTyped

\* There is a free nonce among as many as there are markers, and one more.
LEMMA NonceFact ==
    ASSUME IndexInv, NEW p \in Packages
    PROVE  Nonce(p) \in Nat /\ <<p, Nonce(p)>> \notin Markers
<1> DEFINE keys == [j \in Jobs |-> job[j].keys]
           c == Cardinality(Markers)
           f == [n \in 0 .. c |-> <<p, n>>]
<1>1. IsFiniteSet(Markers)
    <2>1. IsFiniteSet({keys[j] : j \in Jobs})
        <3> HIDE DEF keys
        <3> QED
            BY ImageBound, JobsFinite
    <2>2. \A T \in {keys[j] : j \in Jobs} : IsFiniteSet(T)
        BY DEF IndexInv, SlotsTyped
    <2>3. IsFiniteSet(UNION {keys[j] : j \in Jobs})
        <3> HIDE DEF keys
        <3> QED
            BY <2>1, <2>2, FS_UNION
    <2>4. {keys[j] : j \in Jobs} = {job[j].keys : j \in Jobs}
        OBVIOUS
    <2>5. IsFiniteSet(dirty) /\ IsFiniteSet(UNION {job[j].keys : j \in Jobs})
        BY <2>3, <2>4 DEF IndexInv, WorldTyped
    <2> QED
        BY <2>5, FS_Union DEF Markers
<1>2. c \in Nat /\ IsFiniteSet(0 .. c) /\ Cardinality(0 .. c) = c + 1
    <2>1. c \in Nat
        BY <1>1, FS_CardinalityType
    <2> HIDE DEF c
    <2>2. IsFiniteSet(0 .. c) /\ Cardinality(0 .. c) = IF 0 > c THEN 0 ELSE c - 0 + 1
        BY <2>1, FS_Interval
    <2> QED
        BY <2>1, <2>2
<1>3. \E n \in 0 .. c : <<p, n>> \notin Markers
    <2> SUFFICES ASSUME \A n \in 0 .. c : <<p, n>> \in Markers PROVE FALSE
        OBVIOUS
    <2>1. f \in [0 .. c -> Markers]
        OBVIOUS
    <2>2. \A m, n \in 0 .. c : f[m] = f[n] => m = n
        OBVIOUS
    <2>3. c < Cardinality(0 .. c)
        BY <1>2
    <2> HIDE DEF f
    <2>4. \E m, n \in 0 .. c : m # n /\ f[m] = f[n]
        BY <1>1, <1>2, <2>1, <2>3, FS_PigeonHole
    <2> QED
        BY <2>2, <2>4
<1>4. Nonce(p) \in 0 .. c /\ <<p, Nonce(p)>> \notin Markers
    BY <1>3, Zenon DEF Nonce
<1> QED
    BY <1>2, <1>4

LEMMA MarkFacts ==
    ASSUME IndexInv, NEW P \in SUBSET Packages
    PROVE  MarkDirty(P) \subseteq Marker /\ IsFiniteSet(MarkDirty(P))
<1>1. MarkDirty(P) \subseteq Marker
    BY NonceFact DEF MarkDirty, Marker
<1> DEFINE f == [p \in P |-> <<p, Nonce(p)>>]
<1>2. IsFiniteSet({f[p] : p \in P})
    <2>1. IsFiniteSet(P)
        BY FS_Subset, GlobalAssumption
    <2> HIDE DEF f
    <2> QED
        BY <2>1, ImageBound
<1>3. {f[p] : p \in P} = MarkDirty(P)
    BY DEF MarkDirty
<1> QED
    BY <1>1, <1>2, <1>3

LEMMA DrainKeeps ==
    ASSUME IndexInv, NEW j \in Jobs, Drain(j)
    PROVE  IndexInv'
<1> DEFINE seen == {m[1] : m \in dirty}
<1>1. PICK P \in SUBSET seen :
        /\ views' = (views \ P) \cup {p \in P : truth[p] = "live"}
        /\ job' = [job EXCEPT ![j] =
                     [Idle EXCEPT !.at = IF Kind(j) = "drain" /\ P = {} THEN "done" ELSE "lock",
                                  !.keys = {m \in dirty : m[1] \in P},
                                  !.adds = {p \in P : truth[p] = "live"},
                                  !.removes = P \ {p \in P : truth[p] = "live"}]]
    BY DEF Drain, Rebuild
<1> DEFINE r == [Idle EXCEPT !.at = IF Kind(j) = "drain" /\ P = {} THEN "done" ELSE "lock",
                             !.keys = {m \in dirty : m[1] \in P},
                             !.adds = {p \in P : truth[p] = "live"},
                             !.removes = P \ {p \in P : truth[p] = "live"}]
<1>2. /\ UNCHANGED <<fleet, truth, dirty, cache>> /\ UNCHANGED store
      /\ job[j].at = "idle"
    BY DEF Drain
<1>3. P \subseteq Packages /\ dirty \subseteq Marker
    BY DEF IndexInv, WorldTyped, Marker
<1>4. WorldTyped'
    BY <1>1, <1>2, <1>3 DEF IndexInv, WorldTyped
<1>5. JobTyped(r) /\ r.at \in {"done", "lock"} /\ r.jtag = None
    <2> DEFINE a == IF Kind(j) = "drain" /\ P = {} THEN "done" ELSE "lock"
               K == {m \in dirty : m[1] \in P}
               L == {p \in P : truth[p] = "live"}
    <2>1. /\ a \in {"done", "lock"} /\ a \in Phases /\ K \subseteq Marker
          /\ L \subseteq Packages /\ P \ L \subseteq Packages
        BY <1>3 DEF Phases
    <2>2. IsFiniteSet(K)
        BY FS_Subset DEF IndexInv, WorldTyped
    <2> HIDE DEF a, K, L
    <2>3. r = [Idle EXCEPT !.at = a, !.keys = K, !.adds = L, !.removes = P \ L]
        BY DEF a, K, L
    <2> HIDE DEF r
    <2>4. r \in Job /\ r.at = a /\ r.keys = K /\ r.jtag = None
        BY <2>1, <2>3, IdleTyped DEF Job
    <2> QED
        BY <2>1, <2>2, <2>4 DEF JobTyped
<1>6. cache' = [cache EXCEPT ![Slot(j)] = cache[Slot(j)]]
    BY <1>2, SlotFacts DEF IndexInv, SlotsTyped
<1>7. job[j].at \notin Updating
    BY <1>2 DEF Updating
<1> HIDE DEF r
<1>8. job' = [job EXCEPT ![j] = r]
    BY <1>1 DEF r
<1> QED
    BY <1>2, <1>4, <1>5, <1>6, <1>7, <1>8, StoreKept, Resting

LEMMA WalkKeeps ==
    ASSUME IndexInv, NEW j \in Jobs, Walk(j)
    PROVE  IndexInv'
<1> DEFINE walked == {p \in Packages : fingerprint(p) # EmptyFingerprint}
           live == {p \in walked : truth[p] = "live"}
           dead == {<<p, [fingerprint(p) EXCEPT !.view = FALSE]>> : p \in walked \ live}
           r == [Idle EXCEPT !.at = "ghosts", !.adds = live, !.dead = dead]
<1>1. /\ views' = (views \ walked) \cup {p \in walked : truth[p] = "live"}
      /\ job' = [job EXCEPT ![j] = r]
      /\ UNCHANGED <<fleet, truth, dirty, cache>> /\ UNCHANGED store /\ job[j].at = "idle"
    BY DEF Walk, Rebuild, bounds
<1>2. WorldTyped'
    BY <1>1 DEF IndexInv, WorldTyped
<1>3. live \subseteq Packages /\ dead \subseteq Packages \X Fingerprint
    <2>1. ASSUME NEW p \in Packages PROVE [fingerprint(p) EXCEPT !.view = FALSE] \in Fingerprint
        BY DEF fingerprint, Fingerprint, IndexInv, WorldTyped
    <2> QED
        BY <2>1
<1> HIDE DEF live, dead
<1>4. JobTyped(r) /\ r.at = "ghosts" /\ r.jtag = None
    <2>1. r \in Job /\ r.at = "ghosts" /\ r.jtag = None /\ r.keys = Idle.keys
        BY <1>3, IdleTyped DEF Job, Phases
    <2> QED
        BY <2>1, IdleTyped DEF JobTyped
<1>5. cache' = [cache EXCEPT ![Slot(j)] = cache[Slot(j)]]
    BY <1>1, SlotFacts DEF IndexInv, SlotsTyped
<1>6. job[j].at \notin Updating
    BY <1>1 DEF Updating
<1> HIDE DEF r
<1> QED
    BY <1>1, <1>2, <1>4, <1>5, <1>6, StoreKept, Resting

LEMMA FindGhostsKeeps ==
    ASSUME IndexInv, NEW j \in Jobs, FindGhosts(j)
    PROVE  IndexInv'
<1> DEFINE listed == IF json = None /\ html # None THEN views ELSE Names(json)
           walked == job[j].adds \cup {d[1] : d \in job[j].dead}
           ghosts == {p \in listed \ walked : fingerprint(p) = EmptyFingerprint}
           dead == job[j].dead \cup {<<p, EmptyFingerprint>> : p \in ghosts}
           r == [job[j] EXCEPT !.at = "lock", !.dead = dead]
<1>0. job \in [Jobs -> Job] /\ JobTyped(job[j]) /\ job[j].at = "ghosts" /\ job[j].jtag = None
    BY DEF FindGhosts, IndexInv, SlotsTyped, JobTyped, JobInv, Untagged
<1>1. ghosts \subseteq Packages
    BY ObjectFacts DEF IndexInv, WorldTyped, StoreTyped, Names
<1>2. dead \subseteq Packages \X Fingerprint
    <2>1. job[j].dead \subseteq Packages \X Fingerprint
        BY <1>0 DEF JobTyped, Job
    <2>2. EmptyFingerprint \in Fingerprint
        BY DEF EmptyFingerprint, Fingerprint
    <2> HIDE DEF ghosts
    <2> QED
        BY <1>1, <2>1, <2>2
<1>3. /\ job' = [job EXCEPT ![j].at = "lock", ![j].dead = dead]
      /\ UNCHANGED <<fleet, truth, views, dirty, cache>> /\ UNCHANGED store
    BY DEF FindGhosts, bounds
<1> HIDE DEF dead
<1>4. job' = [job EXCEPT ![j] = r]
    BY <1>0, <1>3
<1>5. JobTyped(r) /\ r.at = "lock" /\ r.jtag = None
    <2>1. r \in Job /\ r.at = "lock" /\ r.jtag = None /\ r.keys = job[j].keys
        BY <1>0, <1>2 DEF JobTyped, Job, Phases
    <2> QED
        BY <1>0, <2>1 DEF JobTyped
<1>6. cache' = [cache EXCEPT ![Slot(j)] = cache[Slot(j)]]
    BY <1>3, SlotFacts DEF IndexInv, SlotsTyped
<1>7. job[j].at \notin Updating
    BY <1>0 DEF Updating
<1> HIDE DEF r
<1> QED
    BY <1>3, <1>4, <1>5, <1>6, <1>7, StoreKept, WorldKept, Resting

LEMMA ConsumeKeeps ==
    ASSUME IndexInv, NEW j \in Jobs, Consume(j)
    PROVE  IndexInv'
<1> DEFINE c == IF Kind(j) = "drain" THEN None ELSE cache[Slot(j)]
<1>1. /\ job[j].at = "done" /\ dirty' = dirty \ job[j].keys /\ job' = [job EXCEPT ![j] = Idle]
      /\ cache' = IF Kind(j) = "drain" THEN Forget(j) ELSE cache
      /\ UNCHANGED <<fleet, truth, views>> /\ UNCHANGED store
    BY DEF Consume, bounds
<1>2. cache' = [cache EXCEPT ![Slot(j)] = c]
    BY <1>1, SlotFacts DEF Forget, IndexInv, SlotsTyped
<1>3. WorldTyped'
    <2>1. IsFiniteSet(dirty') /\ dirty' \subseteq Marker
        BY <1>1, FS_Subset DEF IndexInv, WorldTyped
    <2> QED
        BY <1>1, <2>1 DEF IndexInv, WorldTyped
<1>4. \A k \in Jobs \ {j} : Slot(k) = Slot(j) => Kind(j) # "drain"
    BY SlotFacts DEF Slot
<1>5. job[j].at \notin Updating
    BY <1>1 DEF Updating
<1> QED
    BY <1>1, <1>2, <1>3, <1>4, <1>5, IdleTyped, StoreKept, Resting

-----------------------------------------------------------------------------
(* The steps of an update.                                                 *)

\* Where no job is ahead, the slot is in step with the store.
InStep(s) ==
    cache[s] # None =>
        /\ json # None /\ json.tag = cache[s].etag => cache[s].names = json.names
        /\ html = None => cache[s].etag = None /\ cache[s].names = {}

LEMMA InStepFact ==
    ASSUME IndexInv, NEW s \in Slots, \A k \in Jobs : Slot(k) = s => ~Ahead(k)
    PROVE  InStep(s)
    BY DEF IndexInv, CacheInv, Pinned, Blank, InStep, Ahead

LEMMA InStepEnough == \A s \in Slots : InStep(s)' => CacheInv(s)'
    BY DEF InStep, CacheInv, Pinned, Blank

\* What is known of a job that updates.
LEMMA Updater ==
    ASSUME IndexInv, NEW j \in Jobs, job[j].at \in Updating
    PROVE  /\ Slot(j) \in Slots /\ cache \in [Slots -> CachedNames \cup {None}]
           /\ job \in [Jobs -> Job] /\ job[j] \in Job /\ JobTyped(job[j]) /\ JobInv(j)
           /\ job[j].at # "stamp" => job[j].jtag = None
           /\ \A k \in Jobs \ {j} : Slot(k) = Slot(j) => job[k].at \notin Updating
           /\ job[j].at \notin {"load", "html"} => cache[Slot(j)] \in CachedNames
           /\ ~Ahead(j) => InStep(Slot(j))
<1>1. /\ Slot(j) \in Slots /\ cache \in [Slots -> CachedNames \cup {None}]
      /\ job \in [Jobs -> Job] /\ job[j] \in Job /\ JobTyped(job[j]) /\ JobInv(j)
    BY SlotFacts DEF IndexInv, SlotsTyped, JobTyped
<1>2. job[j].at # "stamp" => job[j].jtag = None
    BY <1>1 DEF JobInv, Untagged
<1>3. \A k \in Jobs \ {j} : Slot(k) = Slot(j) => job[k].at \notin Updating
    BY Alone
<1>4. job[j].at \notin {"load", "html"} => cache[Slot(j)] \in CachedNames
    BY <1>1 DEF JobInv, Holds
<1>5. \A k \in Jobs : Ahead(k) => job[k].at \in Updating
    BY DEF Ahead, Updating, Phases
<1>6. ~Ahead(j) => InStep(Slot(j))
    BY <1>1, <1>3, <1>5, InStepFact
<1> QED
    BY <1>1, <1>2, <1>3, <1>4, <1>6

\* A retry empties the slot and starts over, or ends the job.
LEMMA RetryTyped ==
    ASSUME IndexInv, NEW j \in Jobs
    PROVE  JobTyped(Retry(j)) /\ Retry(j).at \in {"load", "idle"} /\ Retry(j).jtag = None
<1>0. job[j] \in Job /\ IsFiniteSet(job[j].keys)
    BY DEF IndexInv, SlotsTyped
<1>1. CASE job[j].tries + 1 < Attempts
    <2> DEFINE r == [job[j] EXCEPT !.at = "load", !.tries = @ + 1, !.first = "none",
                                   !.want = None, !.tag = None, !.jtag = None]
    <2>1. job[j].tries + 1 \in 0 .. Attempts
        BY <1>0, <1>1, GlobalAssumption DEF Job
    <2>2. r \in Job /\ r.at = "load" /\ r.jtag = None /\ r.keys = job[j].keys
        BY <1>0, <2>1 DEF Job, Phases
    <2>3. Retry(j) = r
        BY <1>1 DEF Retry
    <2> HIDE DEF r
    <2> QED
        BY <1>0, <2>2, <2>3 DEF JobTyped
<1>2. CASE ~(job[j].tries + 1 < Attempts)
    BY <1>2, IdleTyped DEF Retry
<1> QED
    BY <1>1, <1>2

LEMMA RetryKeeps ==
    ASSUME IndexInv, NEW j \in Jobs, job[j].at \in Updating,
           job' = [job EXCEPT ![j] = Retry(j)], cache' = Forget(j),
           UNCHANGED <<fleet, truth, views, dirty>>, UNCHANGED store
    PROVE  IndexInv'
    BY RetryTyped, Alone, StoreKept, WorldKept, Resting DEF Forget

LEMMA EnterKeeps ==
    ASSUME IndexInv, NEW j \in Jobs, Enter(j)
    PROVE  IndexInv'
<1> DEFINE a == IF cache[Slot(j)] = None THEN "load" ELSE "apply"
           r == [job[j] EXCEPT !.at = a]
<1>0. /\ Slot(j) \in Slots /\ cache \in [Slots -> CachedNames \cup {None}]
      /\ job \in [Jobs -> Job] /\ JobTyped(job[j]) /\ job[j].at = "lock" /\ job[j].jtag = None
    BY SlotFacts DEF Enter, IndexInv, SlotsTyped, JobTyped, JobInv, Untagged
<1>1. /\ job' = [job EXCEPT ![j] = r]
      /\ UNCHANGED <<fleet, truth, views, dirty, cache>> /\ UNCHANGED store
      /\ \A k \in Jobs : Slot(k) = Slot(j) => job[k].at \notin Updating
    BY <1>0 DEF Enter, bounds
<1>2. r \in Job /\ r.at = a /\ r.jtag = None /\ r.keys = job[j].keys
    <2>1. a \in Phases
        BY DEF Phases
    <2> HIDE DEF a
    <2> QED
        BY <1>0, <2>1 DEF JobTyped, Job
<1>3. JobTyped(r)
    BY <1>0, <1>2 DEF JobTyped
<1>4. cache' = [cache EXCEPT ![Slot(j)] = cache[Slot(j)]]
    BY <1>0, <1>1
<1>5. job'[j] = r
    BY <1>0, <1>1
<1> HIDE DEF r
<1>6. JobInv(j)'
    <2>1. job'[j].at \in {"load", "apply"} /\ job'[j].jtag = None
          /\ (job'[j].at = "apply" => cache'[Slot(j)] # None)
        BY <1>1, <1>2, <1>5
    <2> QED
        BY <2>1 DEF JobInv, Holds, Derives, Loaded, Applied, Rendered, Recorded, Rewrites, Untagged
<1>7. CacheInv(Slot(j))'
    <2>1. \A k \in Jobs : Slot(k) = Slot(j) /\ job[k].at \in Updating => job'[k] = job[k]
        BY <1>1
    <2> QED
        BY <1>0, <1>1, <2>1, StoreKept, CacheKept
<1> QED
    BY <1>0, <1>1, <1>3, <1>4, <1>6, <1>7, StoreKept, WorldKept, OneJob

LEMMA LoadJsonKeeps ==
    ASSUME IndexInv, NEW j \in Jobs, LoadJson(j)
    PROVE  IndexInv'
<1> DEFINE r == [job[j] EXCEPT !.at = "html", !.base = json]
<1>0. job[j].at = "load" /\ job[j].at \in Updating /\ ~Ahead(j)
    BY DEF LoadJson, Updating, Phases, Ahead
<1>1. /\ job' = [job EXCEPT ![j] = r]
      /\ UNCHANGED <<fleet, truth, views, dirty, cache, json, html>> /\ UNCHANGED store
    BY <1>0, Updater DEF LoadJson, bounds, store
<1>2. r \in Job /\ r.at = "html" /\ r.jtag = None /\ r.keys = job[j].keys /\ r.base = json
    <2>1. job[j] \in Job /\ job[j].jtag = None /\ json \in Object \cup {None} /\ "html" \in Phases
        BY <1>0, Updater DEF IndexInv, StoreTyped, Phases
    <2> QED
        BY <2>1 DEF Job
<1>3. JobTyped(r)
    BY <1>0, <1>2, Updater DEF JobTyped
<1>4. cache' = [cache EXCEPT ![Slot(j)] = cache[Slot(j)]]
    BY <1>0, <1>1, Updater
<1>5. job'[j] = r
    BY <1>0, <1>1, Updater
<1> HIDE DEF r
<1>6. JobInv(j)'
    BY <1>1, <1>2, <1>5 DEF JobInv, Holds, Derives, Loaded, Applied, Rendered, Recorded, Rewrites, Untagged
<1>7. CacheInv(Slot(j))'
    <2>1. InStep(Slot(j))'
        BY <1>0, <1>1, Updater DEF InStep
    <2> QED
        BY <1>0, <2>1, Updater, InStepEnough
<1>8. cache[Slot(j)] \in CachedNames \cup {None}
    BY <1>0, Updater
<1> QED
    BY <1>0, <1>1, <1>3, <1>4, <1>6, <1>7, <1>8, Updater, StoreKept, WorldKept, OneJob

LEMMA LoadHtmlKeeps ==
    ASSUME IndexInv, NEW j \in Jobs, LoadHtml(j)
    PROVE  IndexInv'
<1> DEFINE base == job[j].base
           stranded == base = None /\ html # None
           a == IF stranded THEN "derive" ELSE "apply"
           c == [etag |-> Etag(base), names |-> Names(base), html_etag |-> Etag(html),
                 html_current |-> FALSE, stranded |-> stranded]
           r == [job[j] EXCEPT !.at = a, !.base = None]
<1>0. job[j].at = "html" /\ job[j].at \in Updating /\ ~Ahead(j)
    BY DEF LoadHtml, Updating, Phases, Ahead
<1>1. /\ job' = [job EXCEPT ![j] = r] /\ cache' = [cache EXCEPT ![Slot(j)] = c]
      /\ UNCHANGED <<fleet, truth, views, dirty, json, html>> /\ UNCHANGED store
    BY <1>0, Updater DEF LoadHtml, bounds, store
<1>2. r \in Job /\ r.at = a /\ r.jtag = None /\ r.keys = job[j].keys
    <2>1. job[j] \in Job /\ job[j].jtag = None /\ a \in Phases
        BY <1>0, Updater DEF Phases
    <2> HIDE DEF a
    <2> QED
        BY <2>1 DEF Job
<1>3. JobTyped(r)
    BY <1>0, <1>2, Updater DEF JobTyped
<1>4. base \in Object \cup {None} /\ html \in Object \cup {None}
    BY <1>0, Updater DEF Job, IndexInv, StoreTyped
<1>5. /\ c \in CachedNames /\ c # None
      /\ c.etag = Etag(base) /\ c.names = Names(base)
    <2>1. /\ Etag(base) \in Tags \cup {None} /\ Etag(html) \in Tags \cup {None}
          /\ Names(base) \in SUBSET Packages
        BY <1>4, ObjectFacts DEF Etag, Names
    <2>2. stranded \in BOOLEAN
        OBVIOUS
    <2> HIDE DEF stranded
    <2>3. c \in CachedNames
        BY <2>1, <2>2 DEF CachedNames
    <2> QED
        BY <2>3, GlobalAssumption
<1>6. job'[j] = r /\ cache'[Slot(j)] = c
    BY <1>0, <1>1, Updater
<1>7. base # None => json # None /\ (json.tag = base.tag => json.names = base.names)
    BY <1>0, Updater DEF JobInv, Loaded
<1> HIDE DEF r, c, base
<1>8. JobInv(j)'
    <2>1. /\ job'[j].at \in {"derive", "apply"} /\ job'[j].jtag = None /\ cache'[Slot(j)] # None
          /\ job'[j].at = "derive" => cache'[Slot(j)].etag = None /\ html' # None
        BY <1>1, <1>2, <1>5, <1>6 DEF Etag
    <2> QED
        BY <2>1 DEF JobInv, Holds, Derives, Loaded, Applied, Rendered, Recorded, Rewrites, Untagged
<1>9. CacheInv(Slot(j))'
    <2>1. json # None /\ json.tag = c.etag => c.names = json.names
        <3>1. json # None => json.tag # None
            BY ObjectFacts DEF IndexInv, StoreTyped
        <3> QED
            BY <1>5, <1>7, <3>1 DEF Etag, Names
    <2>2. html = None => c.etag = None /\ c.names = {}
        BY <1>5, <1>7 DEF IndexInv, HtmlFirst, Etag, Names
    <2>3. InStep(Slot(j))'
        BY <1>1, <1>6, <2>1, <2>2 DEF InStep
    <2> QED
        BY <1>0, <2>3, Updater, InStepEnough
<1> QED
    BY <1>0, <1>1, <1>3, <1>5, <1>8, <1>9, Updater, StoreKept, WorldKept, OneJob

LEMMA DeriveNamesKeeps ==
    ASSUME IndexInv, NEW j \in Jobs, DeriveNames(j)
    PROVE  IndexInv'
<1> DEFINE c == [cache[Slot(j)] EXCEPT !.names = views]
           r == [job[j] EXCEPT !.at = "apply"]
<1>0. job[j].at = "derive" /\ job[j].at \in Updating /\ ~Ahead(j)
    BY DEF DeriveNames, Updating, Phases, Ahead
<1>1. /\ job' = [job EXCEPT ![j] = r] /\ cache' = [cache EXCEPT ![Slot(j)] = c]
      /\ UNCHANGED <<fleet, truth, views, dirty, json, html>> /\ UNCHANGED store
    BY <1>0, Updater DEF DeriveNames, bounds, store
<1>2. r \in Job /\ r.at = "apply" /\ r.jtag = None /\ r.keys = job[j].keys
    BY <1>0, Updater DEF Job, Phases
<1>3. JobTyped(r)
    BY <1>0, <1>2, Updater DEF JobTyped
<1>4. /\ cache[Slot(j)] \in CachedNames /\ cache[Slot(j)].etag = None /\ html # None
      /\ views \subseteq Packages
    BY <1>0, Updater DEF JobInv, Derives, IndexInv, WorldTyped
<1>5. c \in CachedNames /\ c # None /\ c.etag = None
    BY <1>4, GlobalAssumption DEF CachedNames
<1>6. job'[j] = r /\ cache'[Slot(j)] = c
    BY <1>0, <1>1, Updater
<1> HIDE DEF r, c
<1>7. JobInv(j)'
    BY <1>2, <1>5, <1>6 DEF JobInv, Holds, Derives, Loaded, Applied, Rendered, Recorded, Rewrites, Untagged
<1>8. CacheInv(Slot(j))'
    <2>1. json # None => json.tag # None
        BY ObjectFacts DEF IndexInv, StoreTyped
    <2>2. InStep(Slot(j))'
        BY <1>1, <1>4, <1>5, <1>6, <2>1 DEF InStep
    <2> QED
        BY <1>0, <2>2, Updater, InStepEnough
<1> QED
    BY <1>0, <1>1, <1>3, <1>5, <1>7, <1>8, Updater, StoreKept, WorldKept, OneJob

LEMMA ApplyDeltaKeeps ==
    ASSUME IndexInv, NEW j \in Jobs, ApplyDelta(j)
    PROVE  IndexInv'
<1> DEFINE d == cache[Slot(j)]
           confirmed == Confirmed(j)
           gone == job[j].removes \cup {x[1] : x \in confirmed}
           names == (d.names \cup job[j].adds) \ gone
           c == [d EXCEPT !.names = names]
           a == IF names # d.names \/ d.stranded THEN "publish"
                ELSE IF Kind(j) = "drain" THEN "compare" ELSE "probe"
           r == [job[j] EXCEPT !.dead = confirmed, !.at = a]
<1>0. job[j].at = "apply" /\ job[j].at \in Updating /\ ~Ahead(j)
    BY DEF ApplyDelta, Updating, Phases, Ahead
<1>1. /\ job' = [job EXCEPT ![j].dead = confirmed, ![j].at = a]
      /\ cache' = [cache EXCEPT ![Slot(j)].names = names]
      /\ dirty' = dirty \cup MarkDirty({x[1] : x \in job[j].dead \ confirmed})
      /\ UNCHANGED <<fleet, truth, views, json, html>> /\ UNCHANGED store
    BY DEF ApplyDelta, bounds, store
<1>2. /\ job[j] \in Job /\ job \in [Jobs -> Job] /\ cache \in [Slots -> CachedNames \cup {None}]
      /\ d \in CachedNames /\ Slot(j) \in Slots /\ job[j].jtag = None
      /\ confirmed \subseteq job[j].dead
    BY <1>0, Updater DEF Confirmed
<1>3. /\ names \subseteq Packages /\ confirmed \subseteq Packages \X Fingerprint /\ a \in Phases
      /\ \A x \in job[j].dead : x[1] \in Packages
    BY <1>2 DEF Job, CachedNames, Phases
<1>4. WorldTyped'
    <2>1. {x[1] : x \in job[j].dead \ confirmed} \subseteq Packages
        BY <1>3
    <2>2. dirty' \subseteq Marker /\ IsFiniteSet(dirty')
        BY <1>1, <2>1, MarkFacts, FS_Union DEF IndexInv, WorldTyped
    <2> QED
        BY <1>1, <2>2 DEF IndexInv, WorldTyped
<1>5. InStep(Slot(j))
    BY <1>0, Updater
<1>6. a \in {"publish", "compare", "probe"} /\ (a # "publish" => names = d.names)
    OBVIOUS
<1> HIDE DEF a, names, confirmed
<1>7. job' = [job EXCEPT ![j] = r] /\ cache' = [cache EXCEPT ![Slot(j)] = c]
    BY <1>1, <1>2
<1>8. /\ r \in Job /\ r.at = a /\ r.jtag = None /\ r.keys = job[j].keys
      /\ r.dead = confirmed /\ r.adds = job[j].adds /\ r.removes = job[j].removes
    BY <1>2, <1>3 DEF Job
<1>9. JobTyped(r)
    BY <1>0, <1>8, Updater DEF JobTyped
<1>10. c \in CachedNames /\ c # None /\ c.etag = d.etag /\ c.names = names
    BY <1>2, <1>3, GlobalAssumption DEF CachedNames
<1>11. job'[j] = r /\ cache'[Slot(j)] = c
    BY <1>2, <1>7
<1> HIDE DEF r, c
<1>12. JobInv(j)'
    <2>1. Applied(j)'
        <3>1. Dropped(j)' = gone
            BY <1>8, <1>11 DEF Dropped
        <3>2. json # None /\ json.tag = c.etag => d.names = json.names
            BY <1>2, <1>5, <1>10, GlobalAssumption DEF InStep
        <3>3. cache'[Slot(j)].names = (d.names \cup job[j].adds) \ gone
            BY <1>10, <1>11 DEF names
        <3> HIDE DEF gone, d
        <3> QED
            BY <1>1, <1>8, <1>10, <1>11, <3>1, <3>2, <3>3 DEF Applied
    <2> QED
        BY <1>6, <1>8, <1>10, <1>11, <2>1
        DEF JobInv, Holds, Derives, Loaded, Rendered, Recorded, Rewrites, Untagged
<1>13. CacheInv(Slot(j))'
    <2>1. CASE a = "publish"
        <3>1. Ahead(j)' /\ job'[j].at = "publish"
            BY <1>8, <1>11, <2>1 DEF Ahead
        <3>2. html = None => d.etag = None
            BY <1>2, <1>5, GlobalAssumption DEF InStep
        <3> QED
            BY <1>1, <1>10, <1>11, <3>1, <3>2 DEF CacheInv, Pinned, Blank
    <2>2. CASE a # "publish"
        <3>1. InStep(Slot(j))'
            BY <1>1, <1>2, <1>5, <1>6, <1>10, <1>11, <2>2, GlobalAssumption DEF InStep
        <3> QED
            BY <1>2, <3>1, InStepEnough
    <2> QED
        BY <2>1, <2>2
<1> QED
    BY <1>0, <1>1, <1>4, <1>7, <1>9, <1>10, <1>12, <1>13, Updater, StoreKept, OneJob

LEMMA ProbeFirstKeeps ==
    ASSUME IndexInv, NEW j \in Jobs, ProbeFirst(j)
    PROVE  IndexInv'
<1>0. job[j].at = "probe" /\ job[j].at \in Updating /\ ~Ahead(j)
    BY DEF ProbeFirst, Updating, Phases, Ahead
<1>1. PICK which \in {"json", "html"} :
          job' = [job EXCEPT ![j].first = which,
                             ![j].tag = IF which = "json" THEN Etag(json) ELSE Etag(html)]
    BY DEF ProbeFirst
<1> DEFINE t == IF which = "json" THEN Etag(json) ELSE Etag(html)
           r == [job[j] EXCEPT !.first = which, !.tag = t]
<1>2. t \in Tags \cup {None}
    BY ObjectFacts DEF IndexInv, StoreTyped, Etag
<1> HIDE DEF t
<1>3. /\ job' = [job EXCEPT ![j] = r]
      /\ UNCHANGED <<fleet, truth, views, dirty, cache, json, html>> /\ UNCHANGED store
    BY <1>0, <1>1, Updater DEF ProbeFirst, bounds, store, t
<1>4. r \in Job /\ r.at = "probe" /\ r.jtag = None /\ r.keys = job[j].keys
    <2>1. job[j] \in Job /\ job[j].jtag = None
        BY <1>0, Updater
    <2> QED
        BY <1>0, <1>2, <2>1 DEF Job
<1>5. JobTyped(r)
    BY <1>0, <1>4, Updater DEF JobTyped
<1>6. cache' = [cache EXCEPT ![Slot(j)] = cache[Slot(j)]] /\ cache[Slot(j)] \in CachedNames
    BY <1>0, <1>3, Updater
<1>7. job'[j] = r /\ cache[Slot(j)] # None
    BY <1>0, <1>3, <1>6, Updater, GlobalAssumption
<1> HIDE DEF r
<1>8. JobInv(j)'
    BY <1>3, <1>4, <1>7 DEF JobInv, Holds, Derives, Loaded, Applied, Rendered, Recorded, Rewrites, Untagged
<1>9. CacheInv(Slot(j))'
    <2>1. InStep(Slot(j))'
        BY <1>0, <1>3, Updater DEF InStep
    <2> QED
        BY <1>0, <2>1, Updater, InStepEnough
<1> QED
    BY <1>0, <1>3, <1>5, <1>6, <1>8, <1>9, Updater, StoreKept, WorldKept, OneJob

\* A step that changes only what a slot knows of the HTML.
LEMMA HtmlKnown ==
    ASSUME IndexInv, NEW j \in Jobs, job[j].at \in Updating \ {"load", "html"}, ~Ahead(j),
           NEW r, NEW c, r \in Job, r.keys = job[j].keys, r.jtag = None,
           r.at \in {"done", "compare", "rewrite"}, r.at = "rewrite" => html # None,
           c \in CachedNames, c.etag = cache[Slot(j)].etag, c.names = cache[Slot(j)].names,
           job' = [job EXCEPT ![j] = r], cache' = [cache EXCEPT ![Slot(j)] = c],
           UNCHANGED <<fleet, truth, views, dirty>>, UNCHANGED store
    PROVE  IndexInv'
<1>1. json' = json /\ html' = html
    BY DEF store
<1>2. JobTyped(r)
    BY Updater DEF JobTyped
<1>3. job'[j] = r /\ cache'[Slot(j)] = c /\ c # None /\ cache[Slot(j)] # None
    BY Updater, GlobalAssumption
<1>4. JobInv(j)'
    BY <1>1, <1>3 DEF JobInv, Holds, Derives, Loaded, Applied, Rendered, Recorded, Rewrites, Untagged
<1>5. CacheInv(Slot(j))'
    <2>1. InStep(Slot(j))'
        BY <1>1, <1>3, Updater DEF InStep
    <2> QED
        BY <2>1, Updater, InStepEnough
<1> QED
    BY <1>2, <1>4, <1>5, Updater, StoreKept, WorldKept, OneJob

LEMMA ProbeSecondKeeps ==
    ASSUME IndexInv, NEW j \in Jobs, ProbeSecond(j)
    PROVE  IndexInv'
<1> DEFINE jt == IF job[j].first = "json" THEN job[j].tag ELSE Etag(json)
           ht == IF job[j].first = "html" THEN job[j].tag ELSE Etag(html)
           d == cache[Slot(j)]
           moved == ht # d.html_etag
           stale == jt # d.etag \/ (jt = None /\ ht # None)
           fine == d.html_current /\ ~moved
           c == [d EXCEPT !.html_etag = ht, !.html_current = @ /\ ~moved]
           a == IF fine THEN "done" ELSE "compare"
           r == [job[j] EXCEPT !.at = a, !.first = "none", !.tag = None]
<1>0. job[j].at = "probe" /\ job[j].at \in Updating \ {"load", "html"} /\ ~Ahead(j)
    BY DEF ProbeSecond, Updating, Phases, Ahead
<1>1. UNCHANGED <<fleet, truth, views, dirty>> /\ UNCHANGED store
    BY DEF ProbeSecond, bounds
<1>2. CASE stale
    <2>1. job' = [job EXCEPT ![j] = Retry(j)] /\ cache' = Forget(j)
        BY <1>2 DEF ProbeSecond
    <2> QED
        BY <1>0, <1>1, <2>1, RetryKeeps
<1>3. CASE ~stale
    <2>0. /\ d \in CachedNames /\ job[j] \in Job /\ job[j].jtag = None /\ job \in [Jobs -> Job]
          /\ cache \in [Slots -> CachedNames \cup {None}] /\ Slot(j) \in Slots
        BY <1>0, Updater
    <2>1. /\ cache' = [cache EXCEPT ![Slot(j)].html_etag = ht, ![Slot(j)].html_current = @ /\ ~moved]
          /\ job' = [job EXCEPT ![j] = r]
        BY <1>3 DEF ProbeSecond
    <2>2. ht \in Tags \cup {None}
        BY <2>0, ObjectFacts DEF Job, IndexInv, StoreTyped, Etag
    <2>3. c \in CachedNames /\ c.etag = d.etag /\ c.names = d.names
        <3>1. fine \in BOOLEAN /\ c = [d EXCEPT !.html_etag = ht, !.html_current = fine]
            OBVIOUS
        <3> HIDE DEF fine, ht, c, d
        <3> QED
            BY <2>0, <2>2, <3>1 DEF CachedNames
    <2>4. a \in {"done", "compare"} /\ a \in Phases
        BY DEF Phases
    <2>5. cache' = [cache EXCEPT ![Slot(j)] = c]
        <3> HIDE DEF ht, moved
        <3> QED
            BY <2>0, <2>1
    <2> HIDE DEF a
    <2>6. r \in Job /\ r.at = a /\ r.jtag = None /\ r.keys = job[j].keys
        BY <2>0, <2>4 DEF Job
    <2> HIDE DEF r, c
    <2> QED
        BY <1>0, <1>1, <2>1, <2>3, <2>4, <2>5, <2>6, HtmlKnown
<1> QED
    BY <1>2, <1>3

LEMMA CompareHtmlKeeps ==
    ASSUME IndexInv, NEW j \in Jobs, CompareHtml(j)
    PROVE  IndexInv'
<1> DEFINE d == cache[Slot(j)]
           current == Proved(d) \/ (IF html = None THEN d.names = {} ELSE html.names = d.names)
           c == [d EXCEPT !.html_current = current]
           a == IF current THEN "done" ELSE "rewrite"
           w == IF html = None THEN None ELSE d.html_etag
           r == [job[j] EXCEPT !.at = a, !.want = w]
<1>0. job[j].at = "compare" /\ job[j].at \in Updating \ {"load", "html"} /\ ~Ahead(j)
    BY DEF CompareHtml, Updating, Phases, Ahead
<1>1. /\ cache' = [cache EXCEPT ![Slot(j)].html_current = current]
      /\ job' = [job EXCEPT ![j].at = a, ![j].want = w]
      /\ UNCHANGED <<fleet, truth, views, dirty>> /\ UNCHANGED store
    BY DEF CompareHtml, bounds
<1>2. /\ d \in CachedNames /\ job[j] \in Job /\ job[j].jtag = None /\ job \in [Jobs -> Job]
      /\ cache \in [Slots -> CachedNames \cup {None}] /\ Slot(j) \in Slots /\ InStep(Slot(j))
    BY <1>0, Updater
<1>3. current \in BOOLEAN
    BY DEF Proved
<1>4. w \in Tags \cup {None}
    BY <1>2 DEF CachedNames
<1>5. a \in {"done", "rewrite"} /\ a \in Phases /\ (a = "rewrite" => html # None)
    <2>1. html = None => current
        BY <1>2, GlobalAssumption DEF InStep
    <2> QED
        BY <2>1 DEF Phases
<1> HIDE DEF current, a, w, d
<1>6. c \in CachedNames /\ c.etag = d.etag /\ c.names = d.names
    BY <1>2, <1>3 DEF CachedNames
<1>7. r \in Job /\ r.at = a /\ r.jtag = None /\ r.keys = job[j].keys
    BY <1>2, <1>4, <1>5 DEF Job
<1>8. cache' = [cache EXCEPT ![Slot(j)] = c] /\ job' = [job EXCEPT ![j] = r]
    BY <1>1, <1>2 DEF d
<1> HIDE DEF r, c
<1>9. /\ c.etag = cache[Slot(j)].etag /\ c.names = cache[Slot(j)].names
      /\ r.at \in {"done", "compare", "rewrite"} /\ (r.at = "rewrite" => html # None)
    BY <1>5, <1>6, <1>7 DEF d
<1>10. UNCHANGED <<fleet, truth, views, dirty>> /\ UNCHANGED store
    BY <1>1
<1> QED
    BY <1>0, <1>6, <1>7, <1>8, <1>9, <1>10, HtmlKnown

LEMMA RewriteHtmlKeeps ==
    ASSUME IndexInv, NEW j \in Jobs, RewriteHtml(j)
    PROVE  IndexInv'
<1> DEFINE d == cache[Slot(j)]
           r == [job[j] EXCEPT !.at = "stamp", !.tag = FreshTag, !.want = None]
<1>0. job[j].at = "rewrite" /\ job[j].at \in Updating \ {"load", "html"} /\ ~Ahead(j)
    BY DEF RewriteHtml, Updating, Phases, Ahead
<1>1. UNCHANGED <<fleet, truth, views, dirty, json, stamp>>
    BY DEF RewriteHtml, bounds
<1>2. CASE ~PutIfMatch(html, job[j].want)
    <2>1. job' = [job EXCEPT ![j] = Retry(j)] /\ cache' = Forget(j) /\ UNCHANGED store
        BY <1>1, <1>2 DEF RewriteHtml, store
    <2> QED
        BY <1>0, <1>1, <2>1, RetryKeeps
<1>3. CASE PutIfMatch(html, job[j].want)
    <2>0. /\ d \in CachedNames /\ job[j] \in Job /\ job[j].jtag = None /\ job \in [Jobs -> Job]
          /\ cache \in [Slots -> CachedNames \cup {None}] /\ Slot(j) \in Slots /\ InStep(Slot(j))
        BY <1>0, Updater
    <2>1. /\ html' = [tag |-> FreshTag, names |-> d.names]
          /\ job' = [job EXCEPT ![j].at = "stamp", ![j].tag = FreshTag, ![j].want = None]
          /\ cache' = cache
        BY <1>3 DEF RewriteHtml
    <2>2. d.names \in SUBSET Packages /\ d # None
        BY <2>0, GlobalAssumption DEF CachedNames
    <2>3. StoreSafe
        BY <1>1, <2>1, <2>2, HtmlWrite
    <2>4. html' # None /\ html'.tag = FreshTag /\ html'.names = d.names /\ FreshTag \in Tags
        BY <2>1, <2>2, ObjectFacts, FreshTagFact
    <2> HIDE DEF d
    <2>5. job' = [job EXCEPT ![j] = r]
        BY <2>0, <2>1
    <2>6. /\ r \in Job /\ r.at = "stamp" /\ r.jtag = None /\ r.keys = job[j].keys
          /\ r.tag = FreshTag
        <3>1. "stamp" \in Phases
            BY DEF Phases
        <3> QED
            BY <2>0, <2>4, <3>1 DEF Job
    <2>7. JobTyped(r)
        BY <1>0, <2>6, Updater DEF JobTyped
    <2>8. job'[j] = r /\ cache'[Slot(j)] = d /\ cache' = [cache EXCEPT ![Slot(j)] = cache[Slot(j)]]
        BY <2>0, <2>1, <2>5 DEF d
    <2> HIDE DEF r
    <2>9. JobInv(j)'
        BY <2>2, <2>4, <2>6, <2>8
        DEF JobInv, Holds, Derives, Loaded, Applied, Rendered, Recorded, Rewrites, Untagged
    <2>10. CacheInv(Slot(j))'
        <3>1. InStep(Slot(j))'
            BY <1>1, <2>0, <2>2, <2>4, <2>8 DEF InStep, d
        <3> QED
            BY <2>0, <3>1, InStepEnough
    <2>11. cache[Slot(j)] \in CachedNames \cup {None}
        BY <2>0
    <2> QED
        BY <1>0, <1>1, <2>3, <2>5, <2>7, <2>8, <2>9, <2>10, <2>11, Updater, WorldKept, OneJob
<1> QED
    BY <1>2, <1>3

LEMMA PublishHtmlKeeps ==
    ASSUME IndexInv, NEW j \in Jobs, PublishHtml(j)
    PROVE  IndexInv'
<1> DEFINE d == cache[Slot(j)]
           r == [job[j] EXCEPT !.at = "canonical", !.tag = FreshTag]
<1>0. job[j].at = "publish" /\ job[j].at \in Updating \ {"load", "html"}
    BY DEF PublishHtml, Updating, Phases
<1>1. UNCHANGED <<fleet, truth, views, dirty, json, stamp>>
    BY DEF PublishHtml, bounds
<1>2. CASE ~PutIfMatch(html, cache[Slot(j)].html_etag)
    <2>1. job' = [job EXCEPT ![j] = Retry(j)] /\ cache' = Forget(j) /\ UNCHANGED store
        BY <1>1, <1>2 DEF PublishHtml, store
    <2> QED
        BY <1>0, <1>1, <2>1, RetryKeeps
<1>3. CASE PutIfMatch(html, cache[Slot(j)].html_etag)
    <2>0. /\ d \in CachedNames /\ job[j] \in Job /\ job[j].jtag = None /\ job \in [Jobs -> Job]
          /\ cache \in [Slots -> CachedNames \cup {None}] /\ Slot(j) \in Slots /\ Applied(j)
        BY <1>0, Updater DEF JobInv
    <2>1. /\ html' = [tag |-> FreshTag, names |-> d.names]
          /\ job' = [job EXCEPT ![j].at = "canonical", ![j].tag = FreshTag]
          /\ cache' = cache
        BY <1>3 DEF PublishHtml
    <2>2. d.names \in SUBSET Packages /\ d # None
        BY <2>0, GlobalAssumption DEF CachedNames
    <2>3. StoreSafe
        BY <1>1, <2>1, <2>2, HtmlWrite
    <2>4. html' # None /\ html'.tag = FreshTag /\ html'.names = d.names /\ FreshTag \in Tags
        BY <2>1, <2>2, ObjectFacts, FreshTagFact
    <2> HIDE DEF d
    <2>5. job' = [job EXCEPT ![j] = r]
        BY <2>0, <2>1
    <2>6. /\ r \in Job /\ r.at = "canonical" /\ r.jtag = None /\ r.keys = job[j].keys
          /\ r.tag = FreshTag /\ r.adds = job[j].adds /\ r.removes = job[j].removes
          /\ r.dead = job[j].dead
        BY <2>0, <2>4 DEF Job, Phases
    <2>7. JobTyped(r)
        BY <1>0, <2>6, Updater DEF JobTyped
    <2>8. job'[j] = r /\ cache'[Slot(j)] = d /\ cache' = [cache EXCEPT ![Slot(j)] = cache[Slot(j)]]
        BY <2>0, <2>1, <2>5 DEF d
    <2> HIDE DEF r
    <2>9. Applied(j)'
        <3>1. Dropped(j)' = Dropped(j)
            BY <2>6, <2>8 DEF Dropped
        <3> QED
            BY <1>0, <1>1, <2>0, <2>1, <2>6, <2>8, <3>1 DEF Applied
    <2>10. JobInv(j)'
        BY <2>2, <2>4, <2>6, <2>8, <2>9
        DEF JobInv, Holds, Derives, Loaded, Rendered, Recorded, Rewrites, Untagged
    <2>11. CacheInv(Slot(j))'
        <3>1. Ahead(j)'
            BY <2>6, <2>8 DEF Ahead
        <3> QED
            BY <2>4, <3>1 DEF CacheInv, Pinned, Blank
    <2>12. cache[Slot(j)] \in CachedNames \cup {None}
        BY <2>0
    <2> QED
        BY <1>0, <1>1, <2>3, <2>5, <2>7, <2>8, <2>10, <2>11, <2>12, Updater, WorldKept, OneJob
<1> QED
    BY <1>2, <1>3

LEMMA PublishJsonKeeps ==
    ASSUME IndexInv, NEW j \in Jobs, PublishJson(j)
    PROVE  IndexInv'
<1> DEFINE d == cache[Slot(j)]
           r == [job[j] EXCEPT !.at = "stamp", !.jtag = FreshTag]
<1>0. job[j].at = "canonical" /\ job[j].at \in Updating \ {"load", "html"}
    BY DEF PublishJson, Updating, Phases
<1>1. UNCHANGED <<fleet, truth, views, dirty, html, stamp>>
    BY DEF PublishJson, bounds
<1>2. CASE ~PutIfMatch(json, cache[Slot(j)].etag)
    <2>1. job' = [job EXCEPT ![j] = Retry(j)] /\ cache' = Forget(j) /\ UNCHANGED store
        BY <1>1, <1>2 DEF PublishJson, store
    <2> QED
        BY <1>0, <1>1, <2>1, RetryKeeps
<1>3. CASE PutIfMatch(json, cache[Slot(j)].etag)
    <2>0. /\ d \in CachedNames /\ job[j] \in Job /\ job \in [Jobs -> Job]
          /\ cache \in [Slots -> CachedNames \cup {None}] /\ Slot(j) \in Slots /\ Rendered(j)
        BY <1>0, Updater DEF JobInv
    <2>1. /\ json' = [tag |-> FreshTag, names |-> d.names]
          /\ job' = [job EXCEPT ![j].at = "stamp", ![j].jtag = FreshTag]
          /\ cache' = cache
        BY <1>3 DEF PublishJson
    <2>2. d.names \in SUBSET Packages /\ d # None
        BY <2>0, GlobalAssumption DEF CachedNames
    <2>3. html # None /\ job[j].tag \in Tags /\ (html.tag = job[j].tag => html.names = d.names)
        BY <1>0, <2>0 DEF Rendered
    <2>4. StoreSafe
        BY <1>1, <2>1, <2>2, <2>3, JsonWrite
    <2>5. /\ json' # None /\ json'.tag = FreshTag /\ json'.names = d.names
          /\ FreshTag \in Tags /\ FreshTag # None
        BY <2>1, <2>2, ObjectFacts, FreshTagFact, GlobalAssumption
    <2> HIDE DEF d
    <2>6. job' = [job EXCEPT ![j] = r]
        BY <2>0, <2>1
    <2>7. /\ r \in Job /\ r.at = "stamp" /\ r.jtag = FreshTag /\ r.keys = job[j].keys
          /\ r.tag = job[j].tag
        BY <2>0, <2>5 DEF Job, Phases
    <2>8. JobTyped(r)
        BY <1>0, <2>7, Updater DEF JobTyped
    <2>9. job'[j] = r /\ cache'[Slot(j)] = d /\ cache' = [cache EXCEPT ![Slot(j)] = cache[Slot(j)]]
        BY <2>0, <2>1, <2>6 DEF d
    <2> HIDE DEF r
    <2>10. JobInv(j)'
        BY <1>1, <2>2, <2>3, <2>5, <2>7, <2>9
        DEF JobInv, Holds, Derives, Loaded, Applied, Rendered, Recorded, Rewrites, Untagged
    <2>11. CacheInv(Slot(j))'
        <3>1. Ahead(j)'
            BY <2>5, <2>7, <2>9 DEF Ahead
        <3> QED
            BY <1>1, <2>3, <3>1 DEF CacheInv, Pinned, Blank
    <2>12. cache[Slot(j)] \in CachedNames \cup {None}
        BY <2>0
    <2> QED
        BY <1>0, <1>1, <2>4, <2>6, <2>8, <2>9, <2>10, <2>11, <2>12, Updater, WorldKept, OneJob
<1> QED
    BY <1>2, <1>3

LEMMA WriteStampKeeps ==
    ASSUME IndexInv, NEW j \in Jobs, WriteStamp(j)
    PROVE  IndexInv'
<1> DEFINE d == cache[Slot(j)]
           etag == IF job[j].jtag = None THEN d.etag ELSE job[j].jtag
           strand == IF job[j].jtag = None THEN d.stranded ELSE FALSE
           c == [d EXCEPT !.etag = etag, !.html_etag = job[j].tag, !.html_current = TRUE,
                          !.stranded = strand]
           r == [job[j] EXCEPT !.at = "done", !.tag = None, !.jtag = None]
<1>0. job[j].at = "stamp" /\ job[j].at \in Updating \ {"load", "html"}
    BY DEF WriteStamp, Updating, Phases
<1>1. /\ d \in CachedNames /\ job[j] \in Job /\ job \in [Jobs -> Job]
      /\ cache \in [Slots -> CachedNames \cup {None}] /\ Slot(j) \in Slots
      /\ Rendered(j) /\ Recorded(j) /\ (job[j].jtag = None => InStep(Slot(j)))
    BY <1>0, Updater DEF JobInv, Ahead
<1>2. UNCHANGED <<fleet, truth, views, dirty, json, html>>
    BY DEF WriteStamp, bounds
<1>3. html # None /\ job[j].tag \in Tags /\ (html.tag = job[j].tag => html.names = d.names)
    BY <1>0, <1>1 DEF Rendered
<1>4. stamp' = [tag |-> job[j].tag, names |-> d.names]
    BY DEF WriteStamp, StampedTag
<1>5. StoreSafe
    <2>1. stamp' \in Object /\ stamp'.tag = job[j].tag /\ stamp'.names = d.names
        BY <1>1, <1>3, <1>4, ObjectFacts DEF CachedNames
    <2> QED
        BY <1>2, <1>3, <2>1 DEF StoreSafe, FreshStore, StoreTyped, HtmlFirst, StampSound, IndexInv
<1>6. c \in CachedNames /\ c # None /\ c.etag = etag /\ c.names = d.names
    <2>1. etag \in Tags \cup {None}
        BY <1>1 DEF Job, CachedNames
    <2>2. strand \in BOOLEAN
        BY <1>1 DEF CachedNames
    <2> HIDE DEF etag, strand, d
    <2>3. c \in CachedNames /\ c.etag = etag /\ c.names = d.names
        BY <1>1, <1>3, <2>1, <2>2 DEF CachedNames
    <2> QED
        BY <2>3, GlobalAssumption
<1>7. r \in Job /\ r.at = "done" /\ r.jtag = None /\ r.keys = job[j].keys
    <2>1. "done" \in Phases
        BY DEF Phases
    <2> QED
        BY <1>1, <2>1 DEF Job
<1>8. cache' = [cache EXCEPT ![Slot(j)] = c]
    BY <1>1 DEF WriteStamp
<1>9. job' = [job EXCEPT ![j] = r]
    BY <1>1 DEF WriteStamp
<1>10. JobTyped(r)
    BY <1>0, <1>7, Updater DEF JobTyped
<1>11. job'[j] = r /\ cache'[Slot(j)] = c
    BY <1>1, <1>8, <1>9
<1> HIDE DEF r, c
<1>12. JobInv(j)'
    BY <1>7, <1>11, RestingJob DEF Updating
<1>13. CacheInv(Slot(j))'
    <2>1. json # None /\ json.tag = etag => d.names = json.names
        <3>1. CASE job[j].jtag = None
            BY <1>1, <3>1, GlobalAssumption DEF InStep
        <3>2. CASE job[j].jtag # None
            BY <1>0, <1>1, <3>2 DEF Recorded
        <3> QED
            BY <3>1, <3>2
    <2>2. InStep(Slot(j))'
        BY <1>2, <1>3, <1>6, <1>11, <2>1 DEF InStep
    <2> QED
        BY <1>1, <2>2, InStepEnough
<1> QED
    BY <1>0, <1>2, <1>5, <1>6, <1>8, <1>9, <1>10, <1>12, <1>13, Updater, WorldKept, OneJob

-----------------------------------------------------------------------------
(* Faults, and the world outside.                                          *)

LEMMA CallFailsKeeps ==
    ASSUME IndexInv, NEW j \in Jobs, CallFails(j)
    PROVE  IndexInv'
    BY InFlightSafe, IdleTyped, Alone, WorldKept, Resting DEF CallFails, Forget

LEMMA CrashKeeps ==
    ASSUME IndexInv, NEW n \in Nodes, Crash(n)
    PROVE  IndexInv'
<1>1. /\ job' = [j \in Jobs |-> IF Node(j) = n THEN Idle ELSE job[j]]
      /\ cache' = [s \in Slots |-> IF s = n \/ (s \in Jobs /\ Node(s) = n) THEN None ELSE cache[s]]
      /\ UNCHANGED <<fleet, truth, views, dirty>>
    BY DEF Crash
<1>2. StoreSafe
    BY InFlightSafe DEF Crash
<1>3. cache \in [Slots -> CachedNames \cup {None}] /\ job \in [Jobs -> Job]
    BY DEF IndexInv, SlotsTyped
<1>4. ASSUME NEW j \in Jobs
      PROVE  /\ Node(j) = n => job'[j] = Idle
             /\ Node(j) # n => job'[j] = job[j] /\ cache'[Slot(j)] = cache[Slot(j)]
    <2>1. Node(j) # n => Slot(j) # n /\ ~(Slot(j) \in Jobs /\ Node(Slot(j)) = n)
        BY SlotFacts DEF Slot
    <2> QED
        BY <1>1, <2>1, SlotFacts
<1>5. SlotsTyped'
    <2>1. cache' \in [Slots -> CachedNames \cup {None}] /\ job' \in [Jobs -> Job]
        BY <1>1, <1>3, IdleTyped
    <2>2. \A j \in Jobs : IsFiniteSet(job'[j].keys)
        BY <1>4, IdleTyped DEF JobTyped, IndexInv, SlotsTyped
    <2> QED
        BY <2>1, <2>2 DEF SlotsTyped
<1>6. Exclusive'
    <2>1. Idle.at \notin Updating
        BY IdleTyped DEF Updating
    <2> QED
        BY <1>4, <2>1 DEF IndexInv, Exclusive
<1>7. ASSUME NEW j \in Jobs PROVE JobInv(j)'
    <2>1. CASE Node(j) = n
        BY <1>4, <2>1, IdleTyped, RestingJob DEF Updating
    <2>2. CASE Node(j) # n
        BY <1>2, <1>4, <2>2, JobKept
    <2> QED
        BY <2>1, <2>2
<1>8. ASSUME NEW s \in Slots PROVE CacheInv(s)'
    <2>1. CASE cache'[s] = None
        BY <2>1 DEF CacheInv, Pinned, Blank
    <2>2. CASE cache'[s] # None
        <3>1. s # n /\ ~(s \in Jobs /\ Node(s) = n) /\ cache'[s] = cache[s]
            BY <1>1, <2>2
        <3>2. \A k \in Jobs : Slot(k) = s => Node(k) # n
            BY <3>1, SlotFacts DEF Slot
        <3> QED
            BY <1>2, <1>4, <3>1, <3>2, CacheKept
    <2> QED
        BY <2>1, <2>2
<1> QED
    BY <1>1, <1>2, <1>5, <1>6, <1>7, <1>8, WorldKept DEF IndexInv, StoreSafe

LEMMA WorldMoves ==
    ASSUME IndexInv, NEW p \in Packages, Claim(p) \/ Change(p) \/ Vanish(p)
    PROVE  IndexInv'
<1>1. UNCHANGED <<fleet, json, html, stamp, cache, job>> /\ UNCHANGED store
    BY DEF Claim, Change, Vanish, store, bounds
<1>2. WorldTyped'
    <2>1. MarkDirty({p}) \subseteq Marker /\ IsFiniteSet(MarkDirty({p}))
        BY MarkFacts
    <2>2. dirty' \subseteq Marker /\ IsFiniteSet(dirty')
        <3>1. dirty \subseteq Marker /\ IsFiniteSet(dirty)
            BY DEF IndexInv, WorldTyped
        <3>2. dirty' = dirty \/ dirty' = dirty \cup MarkDirty({p})
            BY DEF Claim, Change, Vanish
        <3> QED
            BY <2>1, <3>1, <3>2, FS_Union
    <2>3. truth' \in [Packages -> {"absent", "claimed", "live"}]
        BY DEF Claim, Change, Vanish, IndexInv, WorldTyped
    <2>4. views' \subseteq Packages
        BY DEF Claim, Change, Vanish, IndexInv, WorldTyped
    <2> QED
        BY <1>1, <2>2, <2>3, <2>4 DEF IndexInv, WorldTyped
<1>3. \A j \in Jobs : JobInv(j)'
    BY <1>1, StoreKept, JobKept
<1>4. \A s \in Slots : CacheInv(s)'
    BY <1>1, StoreKept, CacheKept
<1>5. SlotsTyped' /\ Exclusive'
    BY <1>1 DEF IndexInv, SlotsTyped, Exclusive
<1> QED
    BY <1>2, <1>3, <1>4, <1>5, <1>1, StoreKept DEF IndexInv, StoreSafe

LEMMA FleetRuns == IndexInv => fleet \subseteq Jobs
    BY DEF IndexInv, WorldTyped, Jobs

LEMMA IndexInvInit == Init => IndexInv
<1> SUFFICES ASSUME Init PROVE IndexInv
    OBVIOUS
<1>1. \A j \in Jobs : job[j] = Idle
    BY DEF Init
<1>2. \A s \in Slots : cache[s] = None
    BY DEF Init
<1>3. WorldTyped /\ StoreTyped
    BY FS_EmptySet DEF Init, WorldTyped, StoreTyped
<1>4. SlotsTyped
    BY <1>1, <1>2, IdleTyped DEF Init, SlotsTyped, JobTyped
<1>5. Exclusive
    BY <1>1, IdleTyped DEF Exclusive, Updating
<1>6. \A j \in Jobs : JobInv(j)
    BY <1>1, IdleTyped
    DEF JobInv, Holds, Derives, Loaded, Applied, Rendered, Recorded, Rewrites, Untagged, Updating
<1>7. \A s \in Slots : CacheInv(s)
    BY <1>2 DEF CacheInv, Pinned, Blank
<1> QED
    BY <1>3, <1>4, <1>5, <1>6, <1>7 DEF Init, IndexInv, HtmlFirst, StampSound

LEMMA IndexInvStep == IndexInv /\ [Next]_vars => IndexInv'
<1> SUFFICES ASSUME IndexInv, [Next]_vars PROVE IndexInv'
    OBVIOUS
<1>1. CASE \E p \in Packages : Claim(p) \/ Change(p) \/ Vanish(p)
    BY <1>1, WorldMoves
<1>2. ASSUME NEW j \in Jobs, Step(j) \/ CallFails(j) PROVE IndexInv'
    BY <1>2, DrainKeeps, WalkKeeps, FindGhostsKeeps, EnterKeeps, LoadJsonKeeps, LoadHtmlKeeps,
       DeriveNamesKeeps, ApplyDeltaKeeps, ProbeFirstKeeps, ProbeSecondKeeps, CompareHtmlKeeps,
       RewriteHtmlKeeps, PublishHtmlKeeps, PublishJsonKeeps, WriteStampKeeps, ConsumeKeeps,
       CallFailsKeeps
    DEF Step
<1>3. CASE \E n \in Nodes : Crash(n)
    BY <1>3, CrashKeeps
<1>4. CASE UNCHANGED vars
    <2>1. UNCHANGED <<fleet, truth, views, dirty, json, html, stamp, cache, job>> /\ UNCHANGED store
        BY <1>4 DEF vars, store
    <2>2. \A j \in Jobs : JobInv(j)'
        BY <2>1, StoreKept, JobKept
    <2>3. \A s \in Slots : CacheInv(s)'
        BY <2>1, StoreKept, CacheKept
    <2>4. SlotsTyped' /\ Exclusive' /\ WorldTyped'
        BY <2>1 DEF IndexInv, SlotsTyped, Exclusive, WorldTyped
    <2> QED
        BY <2>1, <2>2, <2>3, <2>4, StoreKept DEF IndexInv, StoreSafe
<1> QED
    BY <1>1, <1>2, <1>3, <1>4, FleetRuns DEF Next

LEMMA IndexInvCorrect == Spec => []IndexInv
    BY IndexInvInit, IndexInvStep, PTL DEF Spec

-----------------------------------------------------------------------------
(* The theorems.                                                           *)

(* For any packages, nodes, jobs and faults the global index is well typed, its stamp *)
(* never vouches for names that the stored HTML does not render, and a cache that is   *)
(* pinned to the stored JSON holds its names, whoever wrote, failed or died in between *)
(* (worker.rs global_html_proved_current, update_global_index_inner).                  *)
THEOREM IndexSoundHolds == Spec => []IndexSound
<1>1. IndexInv => TypeOK
    BY DEF IndexInv, WorldTyped, StoreTyped, SlotsTyped, TypeOK
<1>2. IndexInv => CacheSound
    <2> SUFFICES ASSUME IndexInv, NEW n \in Nodes, cache[n] # None,
                        \A j \in Jobs : Node(j) = n /\ Kind(j) # "drain" => job[j].at \notin Updating,
                        cache[n].etag = Etag(json), ~(json = None /\ html # None)
                 PROVE  cache[n].names = Names(json)
        BY DEF CacheSound
    <2>1. n \in Slots
        BY DEF Slots
    <2>2. \A j \in Jobs : Slot(j) = n => ~Ahead(j)
        BY SlotFacts DEF Slot, Ahead, Updating, Phases
    <2>3. InStep(n)
        BY <2>1, <2>2, InStepFact
    <2> QED
        BY <2>3 DEF InStep, Etag, Names
<1>3. IndexInv => IndexSound
    BY <1>1, <1>2 DEF IndexInv, IndexSound
<1> QED
    BY <1>3, IndexInvCorrect, PTL

\* Only the publication of a job's canonical JSON changes the names, whether its caller
\* lives to see the answer or not; the deltas of the others stand or are given up.
LEMMA JsonChanges ==
    ASSUME IndexInv, Next, json' # json
    PROVE  \E j \in Jobs :
              /\ job[j].at = "canonical" /\ Etag(json) = cache[Slot(j)].etag
              /\ json' = [tag |-> FreshTag, names |-> cache[Slot(j)].names]
              /\ \A k \in Jobs :
                    \/ job'[k].adds = job[k].adds /\ job'[k].removes = job[k].removes
                       /\ job'[k].dead = job[k].dead
                    \/ job'[k] = Idle
<1>0. job \in [Jobs -> Job]
    BY DEF IndexInv, SlotsTyped
<1>1. ~\E p \in Packages : Claim(p) \/ Change(p) \/ Vanish(p)
    BY DEF Claim, Change, Vanish, store
<1>2. CASE \E j \in fleet : Step(j)
    <2>1. PICK j \in fleet : Step(j)
        BY <1>2
    <2>2. j \in Jobs /\ PublishJson(j)
        BY <2>1, FleetRuns
        DEF Step, Drain, Walk, FindGhosts, Enter, LoadJson, LoadHtml, DeriveNames, ApplyDelta,
            ProbeFirst, ProbeSecond, CompareHtml, RewriteHtml, PublishHtml, WriteStamp, Consume, store
    <2>3. /\ job[j].at = "canonical" /\ Etag(json) = cache[Slot(j)].etag
          /\ json' = [tag |-> FreshTag, names |-> cache[Slot(j)].names]
          /\ job' = [job EXCEPT ![j].at = "stamp", ![j].jtag = FreshTag]
        BY <2>2 DEF PublishJson, PutIfMatch
    <2>4. \A k \in Jobs : /\ job'[k].adds = job[k].adds /\ job'[k].removes = job[k].removes
                          /\ job'[k].dead = job[k].dead
        BY <1>0, <2>2, <2>3 DEF Job
    <2> QED
        BY <2>2, <2>3, <2>4
<1>3. CASE \E j \in fleet : CallFails(j)
    <2>1. PICK j \in fleet : CallFails(j)
        BY <1>3
    <2>2. /\ j \in Jobs /\ job[j].at = "canonical" /\ Etag(json) = cache[Slot(j)].etag
          /\ json' = [tag |-> FreshTag, names |-> cache[Slot(j)].names]
        BY <2>1, FleetRuns DEF CallFails, InFlight, PutIfMatch, store
    <2>3. \A k \in Jobs : job'[k] = job[k] \/ job'[k] = Idle
        BY <1>0, <2>1 DEF CallFails
    <2> QED
        BY <2>2, <2>3
<1>4. CASE \E n \in Nodes : Crash(n)
    <2>1. PICK n \in Nodes : Crash(n)
        BY <1>4
    <2>2. PICK j \in Jobs : InFlight(j)
        BY <2>1 DEF Crash
    <2>3. /\ job[j].at = "canonical" /\ Etag(json) = cache[Slot(j)].etag
          /\ json' = [tag |-> FreshTag, names |-> cache[Slot(j)].names]
        BY <2>2 DEF InFlight, PutIfMatch, store
    <2>4. \A k \in Jobs : job'[k] = job[k] \/ job'[k] = Idle
        BY <2>1 DEF Crash
    <2> QED
        BY <2>3, <2>4
<1> QED
    BY <1>1, <1>2, <1>3, <1>4 DEF Next

\* The register's view of a state.
Listed == IF json = None THEN None ELSE json.names
Asserted == [j \in Jobs |-> [adds |-> job[j].adds, removes |-> job[j].removes,
                            dead |-> {d[1] : d \in job[j].dead}]]

LEMMA StepRefines ==
    ASSUME IndexInv, IndexInv', [Next]_vars
    PROVE  [Register!Next]_(Register!registerVars)
<1>1. Asserted' \in [Jobs -> Register!Deltas]
    <2>1. \A j \in Jobs : job'[j] \in Job
        BY DEF IndexInv, SlotsTyped
    <2>2. ASSUME NEW j \in Jobs
          PROVE  /\ job'[j].adds \subseteq Packages /\ job'[j].removes \subseteq Packages
                 /\ {d[1] : d \in job'[j].dead} \subseteq Packages
        BY <2>1 DEF Job
    <2> QED
        BY <2>2 DEF Asserted, Register!Deltas
<1>2. CASE json' = json
    <2>1. Register!Assert
        BY <1>1, <1>2 DEF Register!Assert, Asserted
    <2> QED
        BY <2>1 DEF Register!Next
<1>3. CASE json' # json
    <2>1. Next
        BY <1>3 DEF vars
    <2>2. PICK j \in Jobs :
              /\ job[j].at = "canonical" /\ Etag(json) = cache[Slot(j)].etag
              /\ json' = [tag |-> FreshTag, names |-> cache[Slot(j)].names]
              /\ \A k \in Jobs :
                    \/ job'[k].adds = job[k].adds /\ job'[k].removes = job[k].removes
                       /\ job'[k].dead = job[k].dead
                    \/ job'[k] = Idle
        BY <1>3, <2>1, JsonChanges
    <2>3. \A k \in Jobs : Asserted'[k] \in {Asserted[k], Register!NoDelta}
        <3>1. Idle.adds = {} /\ Idle.removes = {} /\ Idle.dead = {}
            BY DEF Idle
        <3> QED
            BY <2>2, <3>1 DEF Asserted, Register!NoDelta
    <2> DEFINE N == cache[Slot(j)].names
               dead == {d[1] : d \in job[j].dead}
               old == IF json = None THEN N ELSE json.names
    <2>4. N \in SUBSET Packages /\ cache[Slot(j)] # None
        BY <2>2, SlotFacts, GlobalAssumption
        DEF IndexInv, SlotsTyped, JobInv, Holds, Updating, Phases, CachedNames
    <2>5. N = (old \cup job[j].adds) \ (job[j].removes \cup dead)
        <3>1. Applied(j) /\ Dropped(j) = job[j].removes \cup dead
            BY DEF IndexInv, JobInv, Dropped
        <3>2. CASE json = None
            BY <2>2, <3>1, <3>2 DEF Applied
        <3>3. CASE json # None
            BY <2>2, <3>1, <3>3 DEF Applied, Etag
        <3> QED
            BY <3>2, <3>3
    <2>6. Listed' = N /\ old \in (IF Listed = None THEN SUBSET Packages ELSE {Listed})
        <3>1. json' # None /\ json'.names = N
            BY <2>2, <2>4, ObjectFacts, FreshTagFact
        <3>2. json # None => Listed # None /\ old = Listed
            BY ObjectFacts, GlobalAssumption DEF IndexInv, StoreTyped, Listed
        <3>3. json = None => Listed = None /\ old \in SUBSET Packages
            BY <2>4 DEF Listed
        <3> QED
            BY <3>1, <3>2, <3>3 DEF Listed
    <2>7. /\ Asserted[j].adds = job[j].adds /\ Asserted[j].removes = job[j].removes
          /\ Asserted[j].dead = dead
        BY DEF Asserted
    <2> HIDE DEF N, dead, old
    <2>8. \E base \in IF Listed = None THEN SUBSET Packages ELSE {Listed} :
          \E dropped \in SUBSET Asserted[j].dead :
              Listed' = (base \cup Asserted[j].adds) \ (Asserted[j].removes \cup dropped)
        BY <2>5, <2>6, <2>7
    <2>9. Register!Merge(j)
        BY <2>3, <2>8 DEF Register!Merge, Listed, Asserted
    <2> QED
        BY <2>9 DEF Register!Next
<1> QED
    BY <1>2, <1>3

(* No change is lost to a concurrent writer, for any packages, nodes, jobs and faults: *)
(* the names only ever change by one job's delta applied to the names that stand at    *)
(* that moment, as if by an atomic register (worker.rs write_global_indexes_cas).      *)
THEOREM MergesOnlyHolds == Spec => MergesOnly
<1>1. Init => Register!Init
    BY DEF Init, Idle, Register!Init, Register!NoDelta
<1>2. IndexInv /\ IndexInv' /\ [Next]_vars => [Register!Next]_(Register!registerVars)
    BY StepRefines
<1> QED
    BY <1>1, <1>2, IndexInvCorrect, PTL DEF Spec, MergesOnly, Register!Spec
=============================================================================
