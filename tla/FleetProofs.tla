----------------------------- MODULE FleetProofs -----------------------------
(***************************************************************************)
(* How a fleet agrees on its buckets, for any buckets, lists and bounds:   *)
(* the pins of a node only ever move to buckets that carry its stamps, and *)
(* reads only to one whose outage is repaired (BucketHealth); nodes of one *)
(* generation run under one list (Topology); the audits of any number of   *)
(* leaders write one chain of checkpoints (Transparency).                  *)
(***************************************************************************)
EXTENDS BucketHealth, Topology, Transparency, FiniteSetTheorems, WellFoundedInduction, TLAPS

-----------------------------------------------------------------------------
(* The extremes of a set of numbers.                                       *)

\* A nonempty family of finite sets has a smallest member.
LEMMA SmallestOf ==
    \A S, F : F \subseteq FiniteSubsetsOf(S) /\ F # {} =>
        \E T \in F : \A U \in F : U \subseteq T => U = T
<1> SUFFICES ASSUME NEW S, NEW F, F \subseteq FiniteSubsetsOf(S), F # {}
             PROVE  \E T \in F : \A U \in F : U \subseteq T => U = T
    OBVIOUS
<1>1. PICK T \in F : \A U \in F : ~(<<U, T>> \in StrictSubsetOrdering(S))
    BY WFMin, FS_StrictSubsetOrderingWellFounded
<1> QED
    BY <1>1 DEF StrictSubsetOrdering, FiniteSubsetsOf

\* The initial and the final segments of a set of numbers.
Below(S) == {{y \in S : y < n} : n \in S}
Above(S) == {{y \in S : y > n} : n \in S}

\* Min of FiniteSetsExt is the least element.
LEMMA MinFact ==
    ASSUME NEW S \in SUBSET Nat, S # {}
    PROVE  Min(S) \in S /\ \A y \in S : Min(S) <= y
<1>1. Below(S) \subseteq SUBSET S /\ Below(S) # {}
    BY DEF Below
<1>2. \A U \in Below(S) : IsFiniteSet(U)
    <2> SUFFICES ASSUME NEW n \in S PROVE IsFiniteSet({y \in S : y < n})
        BY DEF Below
    <2>1. \A y \in {z \in S : z < n} : y <= n
        OBVIOUS
    <2> QED
        BY <2>1, FS_BoundedSetOfNaturals
<1>3. \E T \in Below(S) : \A U \in Below(S) : U \subseteq T => U = T
    <2>1. Below(S) \subseteq FiniteSubsetsOf(S)
        BY <1>1, <1>2 DEF FiniteSubsetsOf
    <2>2. Below(S) # {}
        BY <1>1
    <2> QED
        BY <2>1, <2>2, SmallestOf
<1>4. PICK x \in S : \A U \in Below(S) : U \subseteq {y \in S : y < x} => U = {y \in S : y < x}
    BY <1>3 DEF Below
<1>5. ASSUME NEW y \in S PROVE x <= y
    <2> SUFFICES ASSUME y < x PROVE FALSE
        OBVIOUS
    <2>0. {z \in S : z < y} \in Below(S)
        BY Zenon DEF Below
    <2>1. \A z \in S : z < y => z < x
        OBVIOUS
    <2>2. {z \in S : z < y} = {z \in S : z < x}
        BY <1>4, <2>0, <2>1
    <2>3. y \in {z \in S : z < x}
        OBVIOUS
    <2>4. y \in {z \in S : z < y}
        BY <2>2, <2>3
    <2> QED
        BY <2>4
<1> QED
    BY <1>5 DEF Min

\* Max of FiniteSetsExt is the greatest, if there is one.
LEMMA MaxFact ==
    ASSUME NEW S \in SUBSET Nat, S # {}, IsFiniteSet(S)
    PROVE  Max(S) \in S /\ \A y \in S : Max(S) >= y
<1>1. Above(S) \subseteq SUBSET S /\ Above(S) # {}
    BY DEF Above
<1>2. \A U \in Above(S) : IsFiniteSet(U)
    <2> SUFFICES ASSUME NEW U \in Above(S) PROVE IsFiniteSet(U)
        OBVIOUS
    <2>1. U \in SUBSET S
        BY <1>1
    <2> QED
        BY <2>1, FS_Subset
<1>3. \E T \in Above(S) : \A U \in Above(S) : U \subseteq T => U = T
    <2>1. Above(S) \subseteq FiniteSubsetsOf(S)
        BY <1>1, <1>2 DEF FiniteSubsetsOf
    <2>2. Above(S) # {}
        BY <1>1
    <2> QED
        BY <2>1, <2>2, SmallestOf
<1>4. PICK x \in S : \A U \in Above(S) : U \subseteq {y \in S : y > x} => U = {y \in S : y > x}
    BY <1>3 DEF Above
<1>5. ASSUME NEW y \in S PROVE x >= y
    <2> SUFFICES ASSUME y > x PROVE FALSE
        OBVIOUS
    <2>0. {z \in S : z > y} \in Above(S)
        BY Zenon DEF Above
    <2>1. \A z \in S : z > y => z > x
        OBVIOUS
    <2>2. {z \in S : z > y} = {z \in S : z > x}
        BY <1>4, <2>0, <2>1
    <2>3. y \in {z \in S : z > x}
        OBVIOUS
    <2>4. y \in {z \in S : z > y}
        BY <2>2, <2>3
    <2> QED
        BY <2>4
<1> QED
    BY <1>5 DEF Max

-----------------------------------------------------------------------------
(* The health loop: the inductive invariant.                               *)

LoopType ==
    [at : LoopSteps, todo : SUBSET Slots, caughtUp : BOOLEAN, to : Slots \cup {NoSlot},
     readTo : Slots \cup {NoSlot}, blocked : SUBSET Slots]

HealthTypes ==
    /\ outlook \in Outlooks
    /\ up \in [Slots -> BOOLEAN]
    /\ stamp \in [Slots -> {"ours", "other", "newer"}]
    /\ health \in [Slots -> Status]
    /\ selected \in Slots /\ applied \in Slots /\ appliedRead \in Slots
    /\ readPin \in {"follow", "earned"}
    /\ readPin = "earned" => outlook.region # NoSlot
    /\ owed \subseteq {"outage", "standing", "new"}
    /\ fanout \in {Never} \cup 0 .. Grace /\ lull \in Nat
    /\ loop \in LoopType

\* A switch is proposed once.
ToApply == loop.to # applied

\* What the acknowledgement is about to verify is ours, unless the bucket failed since.
AckIsOurs ==
    loop.at = "ack" =>
        /\ loop.todo # {}
        /\ LET b == Min(loop.todo)
           IN  health[b].state = "healthy" /\ health[b].topology = "checking" => stamp[b] = "ours"

\* A bucket that left has not begun its way back.
GoneHasNoSince == \A b \in Slots : health[b].state = "unhealthy" => health[b].since = Never

HealthInv ==
    /\ HealthTypes /\ ToApply /\ UsableIsOurs /\ AckIsOurs /\ GoneHasNoSince

-----------------------------------------------------------------------------
(* What the operators return.                                              *)

\* An observation never makes a bucket usable, never resumes a check that a failure
\* interrupted, and sets the window back or leaves it.
LEMMA ObserveFacts ==
    ASSUME NEW s \in Status, NEW c \in {"healthy", "failure", "ignored"}
    PROVE  LET r == observe(s, c)
           IN  /\ r \in Status
               /\ usable(r) => usable(s)
               /\ r.state = "healthy" /\ r.topology = "checking" =>
                     s.state = "healthy" /\ s.topology = "checking"
               /\ r.state = "unhealthy" => r.since = Never \/ (s.state = "unhealthy" /\ r = s)
               /\ r.since \in {s.since, 0, Never}
               /\ c = "failure" => r.since = Never
<1> USE HealthAssumption
<1>0. /\ s.state \in {"unknown", "healthy", "unhealthy"} /\ s.failures \in 0 .. LeaveAfter
      /\ s.since \in -1 .. Window /\ s.topology \in {"verified", "pending", "checking"}
      /\ s = [state |-> s.state, failures |-> s.failures, since |-> s.since, topology |-> s.topology]
    BY DEF Status
<1>1. CASE c = "healthy"
    <2> DEFINE t == IF s.state = "healthy" THEN s.topology ELSE "pending"
               n == IF s.since = Never THEN 0 ELSE s.since
    <2>1. observe(s, c) = [state |-> "healthy", failures |-> 0, since |-> n, topology |-> t]
        BY <1>0, <1>1 DEF observe, Recovered
    <2>2. observe(s, c) \in Status
        BY <1>0, <2>1 DEF Status, Never
    <2> QED
        BY <1>0, <1>1, <2>1, <2>2 DEF usable
<1>2. CASE c = "failure"
    <2> DEFINE n == IF s.failures = LeaveAfter THEN LeaveAfter ELSE s.failures + 1
               e == IF n >= LeaveAfter THEN "unhealthy" ELSE s.state
    <2>1. observe(s, c) = [state |-> e, failures |-> n, since |-> Never, topology |-> s.topology]
        BY <1>0, <1>2 DEF observe, Failed
    <2>2. observe(s, c) \in Status
        BY <1>0, <2>1 DEF Status, Never
    <2> QED
        BY <1>0, <1>2, <2>1, <2>2 DEF usable
<1>3. CASE c = "ignored"
    <2>1. observe(s, c) = s
        BY <1>3 DEF observe
    <2> QED
        BY <1>3, <2>1
<1> QED
    BY <1>1, <1>2, <1>3

LEMMA ClassOf == \A signal : classify(signal) \in {"healthy", "failure", "ignored"}
    BY DEF classify

LEMMA SelectInSlots ==
    ASSUME NEW h, NEW tick, selected \in Slots
    PROVE  Select(h, tick) \in Slots
<1>1. ASSUME NEW T \in SUBSET Slots PROVE First(T, selected) \in Slots
    BY MinFact, HealthAssumption DEF First
<1> QED
    BY <1>1 DEF Select

LEMMA ReadPinFacts ==
    ASSUME HealthTypes, NEW h, NEW c \in BOOLEAN
    PROVE  LET pin == next_read_pin(h, readPin, c)
           IN  /\ pin \in {"follow", "earned"}
               /\ pin = "earned" => outlook.region # NoSlot
               /\ pin = "earned" /\ readPin = "follow" => c /\ served(h[outlook.region])
    BY DEF HealthTypes, next_read_pin

LEMMA RegionType == HealthTypes => outlook.region \in Slots \cup {NoSlot}
    BY HealthAssumption DEF HealthTypes, Outlook

\* What an observation of one bucket, however it comes about, does to the state.
LEMMA ObserveStep ==
    ASSUME HealthInv, NEW b \in Slots, NEW c \in {"healthy", "failure", "ignored"},
           evaluate([health EXCEPT ![b] = observe(@, c)], FALSE, FALSE)
    PROVE  /\ health' \in [Slots -> Status] /\ selected' \in Slots
           /\ readPin' \in {"follow", "earned"}
           /\ readPin' = "earned" => outlook.region # NoSlot /\ readPin = "earned"
           /\ \A d \in Slots :
                 /\ usable(health'[d]) => usable(health[d])
                 /\ health'[d].state = "healthy" /\ health'[d].topology = "checking" =>
                       health[d].state = "healthy" /\ health[d].topology = "checking"
                 /\ health'[d].state = "unhealthy" => health'[d].since = Never
                 /\ health'[d].since \in {health[d].since, 0, Never}
           /\ c = "failure" => health'[b].since = Never
<1> DEFINE h == [health EXCEPT ![b] = observe(@, c)]
<1>0. HealthTypes /\ GoneHasNoSince
    BY DEF HealthInv
<1>1. health' = h /\ selected' = Select(h, FALSE) /\ readPin' = next_read_pin(h, readPin, FALSE)
    BY DEF evaluate
<1>2. health[b] \in Status /\ h[b] = observe(health[b], c) /\ h \in [Slots -> Status]
    BY <1>0, ObserveFacts DEF HealthTypes
<1>3. \A d \in Slots : d # b => h[d] = health[d]
    BY <1>0 DEF HealthTypes
<1> HIDE DEF h
<1>4. selected' \in Slots
    BY <1>0, <1>1, SelectInSlots DEF HealthTypes
<1>5. /\ readPin' \in {"follow", "earned"}
      /\ readPin' = "earned" => outlook.region # NoSlot /\ readPin = "earned"
    BY <1>0, <1>1, ReadPinFacts DEF HealthTypes
<1>6. /\ usable(h[b]) => usable(health[b])
      /\ h[b].state = "healthy" /\ h[b].topology = "checking" =>
            health[b].state = "healthy" /\ health[b].topology = "checking"
      /\ h[b].state = "unhealthy" => h[b].since = Never
      /\ h[b].since \in {health[b].since, 0, Never}
      /\ c = "failure" => h[b].since = Never
    BY <1>0, <1>2, ObserveFacts DEF GoneHasNoSince
<1> QED
    BY <1>0, <1>1, <1>2, <1>3, <1>4, <1>5, <1>6 DEF GoneHasNoSince

-----------------------------------------------------------------------------
(* The invariant is inductive.                                             *)

LEMMA HealthInvInit == HealthInit => HealthInv
<1> SUFFICES ASSUME HealthInit PROVE HealthInv
    OBVIOUS
<1> USE HealthAssumption
<1>1. selected \in Slots
    <2>1. {b \in Slots : up[b]} # {} /\ {b \in Slots : up[b]} \subseteq Nat
        BY DEF HealthInit
    <2> QED
        BY <2>1, MinFact DEF HealthInit
<1>2. outlook \in Outlook /\ outlook.region \in Slots \cup {NoSlot}
    BY DEF HealthInit, Outlook
<1>3. health \in [Slots -> Status]
    BY DEF HealthInit, StartStatus, Status, Never
<1>4. loop \in LoopType
    BY DEF HealthInit, Calm, LoopType, LoopSteps
<1>5. HealthTypes
    BY <1>1, <1>2, <1>3, <1>4 DEF HealthTypes, HealthInit
<1>6. UsableIsOurs /\ GoneHasNoSince
    BY DEF HealthInit, UsableIsOurs, GoneHasNoSince, StartStatus
<1>7. ToApply /\ AckIsOurs
    BY <1>1 DEF HealthInit, ToApply, AckIsOurs, Calm
<1> QED
    BY <1>5, <1>6, <1>7 DEF HealthInv

\* An observation keeps what the buckets' states promise.
LEMMA ObserveKeeps ==
    ASSUME HealthInv, NEW b \in Slots, NEW c \in {"healthy", "failure", "ignored"},
           evaluate([health EXCEPT ![b] = observe(@, c)], FALSE, FALSE), UNCHANGED stamp
    PROVE  UsableIsOurs' /\ GoneHasNoSince'
    BY ObserveStep DEF HealthInv, UsableIsOurs, GoneHasNoSince

LEMMA HealthInvStep == HealthInv /\ [HealthNext]_healthVars => HealthInv'
<1> SUFFICES ASSUME HealthInv, [HealthNext]_healthVars PROVE HealthInv'
    OBVIOUS
<1> USE HealthAssumption
<1>0. HealthTypes /\ ToApply /\ UsableIsOurs /\ AckIsOurs /\ GoneHasNoSince
    BY DEF HealthInv
<1>a. outlook.region \in Slots \cup {NoSlot}
    BY <1>0, RegionType
<1>b. loop.todo \subseteq Nat /\ (loop.todo # {} => Min(loop.todo) \in loop.todo)
    BY <1>0, MinFact DEF HealthTypes, LoopType
<1>1. ASSUME NEW b \in Slots, Probe(b) PROVE HealthInv'
    <2>1. /\ classify(Truth(b)) \in {"healthy", "failure", "ignored"} /\ loop.at = "probe"
          /\ evaluate([health EXCEPT ![b] = observe(@, classify(Truth(b)))], FALSE, FALSE)
          /\ UNCHANGED <<outlook, up, stamp, applied, appliedRead, owed, fanout, lull>>
          /\ loop' = [loop EXCEPT !.todo = @ \ {b}]
        BY <1>1, ClassOf DEF Probe, world, pinVars
    <2>2. UsableIsOurs' /\ GoneHasNoSince'
        BY <2>1, ObserveKeeps
    <2>3. loop' \in LoopType /\ loop'.at = "probe" /\ loop'.to = loop.to
        BY <1>0, <2>1 DEF HealthTypes, LoopType
    <2>4. HealthTypes'
        BY <1>0, <2>1, <2>3, ObserveStep DEF HealthTypes
    <2>5. ToApply' /\ AckIsOurs'
        BY <1>0, <2>1, <2>3 DEF ToApply, AckIsOurs
    <2> QED
        BY <2>2, <2>4, <2>5 DEF HealthInv
<1>2. CASE CheckRegion
    <2>1. /\ loop' = [loop EXCEPT !.at = "tick", !.todo = {}, !.caughtUp = ReturnPending /\ CaughtUp]
          /\ lull' = 0 /\ owed' = {IF kind = "new" THEN "standing" ELSE kind : kind \in owed}
          /\ UNCHANGED <<outlook, up, stamp, health, selected, readPin, applied, appliedRead, fanout>>
        BY <1>2 DEF CheckRegion, world, pinVars
    <2>2. owed' \subseteq {"outage", "standing", "new"}
        BY <1>0, <2>1 DEF HealthTypes
    <2>3. (ReturnPending /\ CaughtUp) \in BOOLEAN
        BY DEF ReturnPending, CaughtUp
    <2>4. loop' \in LoopType /\ loop'.at = "tick" /\ loop'.to = loop.to
        BY <1>0, <2>1, <2>3 DEF HealthTypes, LoopType, LoopSteps
    <2>5. HealthTypes'
        BY <1>0, <2>1, <2>2, <2>4 DEF HealthTypes
    <2>6. ToApply' /\ AckIsOurs'
        BY <1>0, <2>1, <2>4 DEF ToApply, AckIsOurs
    <2>7. UsableIsOurs' /\ GoneHasNoSince'
        BY <1>0, <2>1 DEF UsableIsOurs, GoneHasNoSince
    <2> QED
        BY <2>5, <2>6, <2>7 DEF HealthInv
<1>3. CASE Tick
    <2> DEFINE to == Select(health, TRUE)
               pin == next_read_pin(health, readPin, loop.caughtUp)
               readTo == IF pin = "earned" THEN outlook.region ELSE to
    <2>1. /\ health' = [b \in Slots |-> [health[b] EXCEPT !.topology = IF @ = "verified" THEN @ ELSE "checking"]]
          /\ selected' = to /\ readPin' = pin /\ lull' = 0
          /\ UNCHANGED <<outlook, up, stamp, applied, appliedRead, owed, fanout>>
          /\ loop' = [loop EXCEPT
                !.at = "check", !.caughtUp = FALSE, !.todo = Unverified,
                !.to = IF to = applied THEN NoSlot ELSE to,
                !.readTo = IF outlook.region = NoSlot \/ readTo = appliedRead THEN NoSlot ELSE readTo]
        BY <1>3 DEF Tick, world, pinVars
    <2>2. to \in Slots
        BY <1>0, SelectInSlots DEF HealthTypes
    <2>3. loop.caughtUp \in BOOLEAN
        BY <1>0 DEF HealthTypes, LoopType
    <2>4. pin \in {"follow", "earned"} /\ (pin = "earned" => outlook.region # NoSlot)
        BY <1>0, <2>3, ReadPinFacts
    <2> HIDE DEF to, pin
    <2>5. readTo \in Slots
        BY <1>a, <2>2, <2>4
    <2>6. loop' \in LoopType /\ loop'.at = "check" /\ loop'.to = IF to = applied THEN NoSlot ELSE to
        <3>1. Unverified \in SUBSET Slots
            BY DEF Unverified
        <3> HIDE DEF readTo
        <3> QED
            BY <1>0, <2>1, <2>2, <2>5, <3>1 DEF HealthTypes, LoopType, LoopSteps
    <2>7. /\ health' \in [Slots -> Status]
          /\ \A b \in Slots : /\ health'[b].state = health[b].state /\ health'[b].since = health[b].since
                              /\ health'[b].topology = "verified" <=> health[b].topology = "verified"
        BY <1>0, <2>1 DEF HealthTypes, Status
    <2>8. HealthTypes'
        BY <1>0, <2>1, <2>2, <2>4, <2>6, <2>7 DEF HealthTypes
    <2>9. UsableIsOurs' /\ GoneHasNoSince'
        BY <1>0, <2>1, <2>7 DEF UsableIsOurs, GoneHasNoSince, usable
    <2>10. ToApply' /\ AckIsOurs'
        BY <1>0, <2>1, <2>2, <2>6 DEF ToApply, AckIsOurs, HealthTypes
    <2> QED
        BY <2>8, <2>9, <2>10 DEF HealthInv
<1>4. CASE CheckTopology
    <2> DEFINE b == Min(loop.todo)
               blocked == [loop EXCEPT !.todo = @ \ {b}, !.blocked = @ \cup {b}]
    <2>1. loop.at = "check" /\ loop.todo # {} /\ b \in loop.todo /\ b \in Slots
        BY <1>0, <1>b, <1>4 DEF CheckTopology, HealthTypes, LoopType
    <2>2. UNCHANGED <<outlook, up, stamp, applied, appliedRead, owed, fanout, lull>>
        BY <1>4 DEF CheckTopology, world, pinVars
    <2>3. PICK c \in {"healthy", "failure", "ignored"} :
             evaluate([health EXCEPT ![b] = observe(@, c)], FALSE, FALSE)
        BY <1>4 DEF CheckTopology
    <2>4. loop' = blocked \/ (loop' = [loop EXCEPT !.at = "ack"] /\ stamp[b] = "ours")
        BY <1>4 DEF CheckTopology
    <2>5. /\ loop' \in LoopType /\ loop'.to = loop.to /\ loop'.at \in {"check", "ack"}
          /\ loop'.at = "ack" => loop'.todo = loop.todo /\ stamp[b] = "ours"
        <3> HIDE DEF b
        <3>1. CASE loop' = blocked
            BY <1>0, <2>1, <3>1 DEF HealthTypes, LoopType
        <3>2. CASE loop' = [loop EXCEPT !.at = "ack"] /\ stamp[b] = "ours"
            BY <1>0, <3>2 DEF HealthTypes, LoopType, LoopSteps
        <3> QED
            BY <2>4, <3>1, <3>2
    <2> HIDE DEF b
    <2>6. UsableIsOurs' /\ GoneHasNoSince'
        BY <2>1, <2>2, <2>3, ObserveKeeps
    <2>7. HealthTypes'
        BY <1>0, <2>1, <2>2, <2>3, <2>5, ObserveStep DEF HealthTypes
    <2>8. ToApply'
        BY <1>0, <2>2, <2>5 DEF ToApply
    <2>9. AckIsOurs'
        BY <2>1, <2>2, <2>5 DEF AckIsOurs, b
    <2> QED
        BY <2>6, <2>7, <2>8, <2>9 DEF HealthInv
<1>5. CASE Acknowledge
    <2> DEFINE b == Min(loop.todo)
    <2>1. loop.at = "ack" /\ loop.todo # {} /\ b \in loop.todo /\ b \in Slots
        BY <1>0, <1>b, <1>5 DEF Acknowledge, AckIsOurs, HealthTypes, LoopType
    <2>2. /\ UNCHANGED <<outlook, up, stamp, selected, readPin, applied, appliedRead, owed, fanout, lull>>
          /\ health' = [health EXCEPT ![b].topology = IF @ = "checking" THEN "verified" ELSE @]
          /\ loop' = [loop EXCEPT !.at = "check", !.todo = @ \ {b}]
        BY <1>5 DEF Acknowledge, topology_check_passed, world, pinVars
    <2>3. health[b].state = "healthy" /\ health[b].topology = "checking" => stamp[b] = "ours"
        BY <1>0, <2>1 DEF AckIsOurs
    <2> HIDE DEF b
    <2>4. loop' \in LoopType /\ loop'.at = "check" /\ loop'.to = loop.to
        BY <1>0, <2>2 DEF HealthTypes, LoopType, LoopSteps
    <2>5. /\ health' \in [Slots -> Status]
          /\ \A d \in Slots : d # b => health'[d] = health[d]
          /\ health'[b].state = health[b].state /\ health'[b].since = health[b].since
          /\ health'[b].topology = IF health[b].topology = "checking" THEN "verified" ELSE health[b].topology
        BY <1>0, <2>1, <2>2 DEF HealthTypes, Status
    <2>6. HealthTypes'
        BY <1>0, <2>2, <2>4, <2>5 DEF HealthTypes
    <2>7. UsableIsOurs' /\ GoneHasNoSince'
        BY <1>0, <2>1, <2>2, <2>3, <2>5 DEF UsableIsOurs, GoneHasNoSince, usable
    <2>8. ToApply' /\ AckIsOurs'
        BY <1>0, <2>2, <2>4 DEF ToApply, AckIsOurs
    <2> QED
        BY <2>6, <2>7, <2>8 DEF HealthInv
<1>6. CASE Apply
    <2>1. /\ UNCHANGED <<outlook, up, stamp, health, selected, readPin, appliedRead, owed, fanout, lull>>
          /\ applied' = IF Publishable(loop.to, selected) THEN loop.to ELSE applied
          /\ loop' = [loop EXCEPT !.at = "applyRead", !.to = NoSlot]
        BY <1>6 DEF Apply, world
    <2>2. applied' \in Slots
        BY <1>0, <2>1 DEF HealthTypes, LoopType, Publishable
    <2>3. loop' \in LoopType /\ loop'.at = "applyRead" /\ loop'.to = NoSlot
        BY <1>0, <2>1 DEF HealthTypes, LoopType, LoopSteps
    <2>4. HealthTypes'
        BY <1>0, <2>1, <2>2, <2>3 DEF HealthTypes
    <2>5. UsableIsOurs' /\ GoneHasNoSince' /\ ToApply' /\ AckIsOurs'
        BY <1>0, <2>1, <2>2, <2>3
           DEF UsableIsOurs, GoneHasNoSince, ToApply, AckIsOurs
    <2> QED
        BY <2>4, <2>5 DEF HealthInv
<1>7. CASE ApplyRead
    <2>1. /\ UNCHANGED <<outlook, up, stamp, health, selected, readPin, applied, owed, fanout, lull>>
          /\ appliedRead' \in {appliedRead} \cup ({loop.readTo} \ {NoSlot})
          /\ loop' = Calm
        BY <1>7 DEF ApplyRead, Publishable, world
    <2>2. appliedRead' \in Slots
        BY <1>0, <2>1 DEF HealthTypes, LoopType
    <2>3. loop' \in LoopType /\ loop'.at = "probe" /\ loop'.to = NoSlot
        BY <2>1 DEF Calm, LoopType, LoopSteps
    <2>4. HealthTypes'
        BY <1>0, <2>1, <2>2, <2>3 DEF HealthTypes
    <2>5. UsableIsOurs' /\ GoneHasNoSince' /\ ToApply' /\ AckIsOurs'
        BY <1>0, <2>1, <2>3
           DEF UsableIsOurs, GoneHasNoSince, ToApply, AckIsOurs, HealthTypes
    <2> QED
        BY <2>4, <2>5 DEF HealthInv
<1>8. CASE Elapse
    <2>1. /\ UNCHANGED <<outlook, up, stamp, selected, readPin, applied, appliedRead, loop, owed>>
          /\ fanout < Grace /\ fanout' = IF fanout = Never THEN Never ELSE fanout + 1
          /\ lull' = IF loop.at = "tick" THEN lull + 1 ELSE 0
          /\ health' = [b \in Slots |->
                [health[b] EXCEPT !.since = IF @ \in 0 .. Window - 1 THEN @ + 1 ELSE @]]
        BY <1>8 DEF Elapse, world, pinVars
    <2>2. \A b \in Slots :
             /\ health'[b].state = health[b].state /\ health'[b].topology = health[b].topology
             /\ health'[b].since =
                   IF health[b].since \in 0 .. Window - 1 THEN health[b].since + 1 ELSE health[b].since
             /\ health[b].since \in -1 .. Window
        BY <1>0, <2>1 DEF HealthTypes, Status
    <2>3. health' \in [Slots -> Status]
        <3> SUFFICES ASSUME NEW b \in Slots
                     PROVE  [health[b] EXCEPT !.since = IF @ \in 0 .. Window - 1 THEN @ + 1 ELSE @] \in Status
            BY <2>1
        <3>1. (IF health[b].since \in 0 .. Window - 1 THEN health[b].since + 1 ELSE health[b].since) \in -1 .. Window
            BY <2>2
        <3> QED
            BY <1>0, <3>1 DEF HealthTypes, Status
    <2>4. HealthTypes'
        <3>1. fanout' \in {Never} \cup 0 .. Grace /\ lull' \in Nat
            BY <1>0, <2>1 DEF HealthTypes, Never
        <3> QED
            BY <1>0, <2>1, <2>3, <3>1 DEF HealthTypes
    <2>5. UsableIsOurs' /\ GoneHasNoSince'
        <3>1. UsableIsOurs'
            BY <1>0, <2>1, <2>2 DEF UsableIsOurs, usable
        <3>2. ASSUME NEW b \in Slots, health'[b].state = "unhealthy" PROVE health'[b].since = Never
            <4>1. health[b].since = -1
                BY <1>0, <2>2, <3>2 DEF GoneHasNoSince, Never
            <4> QED
                BY <2>2, <4>1 DEF Never
        <3> QED
            BY <3>1, <3>2 DEF GoneHasNoSince
    <2>6. ToApply'
        BY <1>0, <2>1 DEF ToApply
    <2>7. AckIsOurs'
        <3>1. loop.at = "ack" => Min(loop.todo) \in Slots
            BY <1>0, <1>b DEF AckIsOurs, HealthTypes, LoopType
        <3> QED
            BY <1>0, <2>1, <2>2, <3>1 DEF AckIsOurs
    <2> QED
        BY <2>4, <2>5, <2>6, <2>7 DEF HealthInv
<1>9. CASE SkipRegion \/ Owe \/ OweServing \/ Drain
    <2>1. /\ UNCHANGED <<outlook, up, stamp, health, selected, readPin, applied, appliedRead, loop, lull>>
          /\ owed' \subseteq owed \cup {"outage", "new"} /\ fanout' \in {fanout, 0, Never}
        BY <1>9 DEF SkipRegion, Owe, OweServing, Drain, world, pinVars
    <2>2. HealthTypes'
        BY <1>0, <2>1 DEF HealthTypes
    <2>3. UsableIsOurs' /\ GoneHasNoSince' /\ ToApply' /\ AckIsOurs'
        BY <1>0, <2>1 DEF UsableIsOurs, GoneHasNoSince, ToApply, AckIsOurs
    <2> QED
        BY <2>2, <2>3 DEF HealthInv
<1>10. ASSUME NEW b \in Slots, Flip(b) PROVE HealthInv'
    <2>1. /\ UNCHANGED <<outlook, health, selected, readPin, applied, appliedRead, loop, owed, fanout, lull>>
          /\ up' = [up EXCEPT ![b] = ~@]
          /\ \/ stamp' = stamp
             \/ /\ health[b].state = "unhealthy"
                /\ \E s \in {"other", "newer"} : stamp' = [stamp EXCEPT ![b] = s]
        BY <1>10 DEF Flip, pinVars
    <2>2. up' \in [Slots -> BOOLEAN] /\ stamp' \in [Slots -> {"ours", "other", "newer"}]
        BY <1>0, <2>1 DEF HealthTypes
    <2>3. \A d \in Slots : stamp'[d] = stamp[d] \/ health[d].state = "unhealthy"
        BY <1>0, <2>1 DEF HealthTypes
    <2>4. HealthTypes'
        BY <1>0, <2>1, <2>2 DEF HealthTypes
    <2>5. UsableIsOurs' /\ GoneHasNoSince' /\ ToApply'
        BY <1>0, <2>1, <2>3 DEF UsableIsOurs, usable, GoneHasNoSince, ToApply
    <2>6. AckIsOurs'
        <3>1. loop.at = "ack" => Min(loop.todo) \in Slots
            BY <1>0, <1>b DEF AckIsOurs, HealthTypes, LoopType
        <3> QED
            BY <1>0, <2>1, <2>3, <3>1 DEF AckIsOurs
    <2> QED
        BY <2>4, <2>5, <2>6 DEF HealthInv
<1>11. ASSUME NEW b \in Slots, NEW signal \in Signals, Report(b, signal) PROVE HealthInv'
    <2> DEFINE c == classify(signal)
    <2>1. /\ c \in {"healthy", "failure", "ignored"}
          /\ evaluate([health EXCEPT ![b] = observe(@, c)], FALSE, FALSE)
          /\ UNCHANGED <<outlook, up, stamp, applied, appliedRead, loop, owed, lull>>
          /\ fanout' \in {fanout, 0}
        BY <1>11, ClassOf DEF Report, world, pinVars
    <2> HIDE DEF c
    <2>2. UsableIsOurs' /\ GoneHasNoSince'
        BY <2>1, ObserveKeeps
    <2>3. fanout' \in {Never} \cup 0 .. Grace
        BY <1>0, <2>1 DEF HealthTypes
    <2>4. HealthTypes'
        BY <1>0, <2>1, <2>3, ObserveStep DEF HealthTypes
    <2>5. ToApply'
        BY <1>0, <2>1 DEF ToApply
    <2>6. AckIsOurs'
        <3>1. loop.at = "ack" => Min(loop.todo) \in Slots
            BY <1>0, <1>b DEF AckIsOurs, HealthTypes, LoopType
        <3> QED
            BY <1>0, <2>1, <3>1, ObserveStep DEF AckIsOurs
    <2> QED
        BY <2>2, <2>4, <2>5, <2>6 DEF HealthInv
<1>12. CASE UNCHANGED healthVars
    BY <1>0, <1>12 DEF healthVars, world, pinVars, HealthInv, HealthTypes, ToApply, UsableIsOurs,
                       AckIsOurs, GoneHasNoSince
<1> QED
    BY <1>1, <1>2, <1>3, <1>4, <1>5, <1>6, <1>7, <1>8, <1>9, <1>10, <1>11, <1>12
       DEF HealthNext, LoopStep

LEMMA HealthInvCorrect == HealthSpec => []HealthInv
    BY HealthInvInit, HealthInvStep, PTL DEF HealthSpec

-----------------------------------------------------------------------------
(* The theorems.                                                           *)

(* A bucket that another deployment or a newer release stamped while it was gone   *)
(* is never usable again, however often it recovers between the read of its stamp  *)
(* and the acknowledgement (bucket_health.rs observe, topology_check_passed).      *)
THEOREM HealthSafeHolds == HealthSpec => []HealthSafe
<1>1. HealthInv => HealthSafe
    BY DEF HealthInv, HealthTypes, LoopType, ToApply, HealthTypeOK, HealthSafe
<1> QED
    BY <1>1, HealthInvCorrect, PTL

\* What is published is usable.
LEMMA PinsStep == HealthInv /\ [HealthNext]_healthVars =>
    [/\ applied' # applied => stamp[applied'] = "ours"
     /\ appliedRead' # appliedRead => stamp[appliedRead'] = "ours"]_healthVars
<1> SUFFICES ASSUME HealthInv, HealthNext
             PROVE  /\ applied' # applied => stamp[applied'] = "ours"
                    /\ appliedRead' # appliedRead => stamp[appliedRead'] = "ours"
    BY DEF healthVars
<1>0. ASSUME NEW b, NEW w, Publishable(b, w), b \in Slots \cup {NoSlot} PROVE stamp[b] = "ours"
    BY <1>0 DEF HealthInv, UsableIsOurs, Publishable
<1>1. loop.to \in Slots \cup {NoSlot} /\ loop.readTo \in Slots \cup {NoSlot}
    BY DEF HealthInv, HealthTypes, LoopType
<1>2. CASE Apply
    BY <1>0, <1>1, <1>2 DEF Apply
<1>3. CASE ApplyRead
    BY <1>0, <1>1, <1>3 DEF ApplyRead
<1>4. CASE ~(Apply \/ ApplyRead)
    BY <1>4 DEF HealthNext, LoopStep, Probe, CheckRegion, Tick, CheckTopology, Acknowledge, Elapse,
                SkipRegion, Owe, OweServing, Drain, Flip, Report, pinVars
<1> QED
    BY <1>2, <1>3, <1>4

-----------------------------------------------------------------------------
(* What is owed to the region's bucket when reads are promised to it.      *)

\* A write that gave up on the region's bucket did so at a failure, or while the
\* bucket counted as gone, so the window has run no longer than the write.
FanoutFresh ==
    fanout # Never => outlook.region # NoSlot /\ health[outlook.region].since <= fanout

\* Since a good verdict nothing old is owed, and a note of an outage comes from a
\* write that was under way: the window is no older than its grace and the verdict.
VerdictFresh ==
    loop.at = "tick" =>
        /\ lull <= CycleTime
        /\ loop.caughtUp =>
              /\ outlook.region # NoSlot /\ "standing" \notin owed
              /\ "outage" \in owed => health[outlook.region].since <= lull + Grace

DebtInv == FanoutFresh /\ VerdictFresh

LEMMA DebtInit == HealthInit => DebtInv
    BY DEF HealthInit, DebtInv, FanoutFresh, VerdictFresh, Calm

\* An observation never moves the window of any bucket forward.
LEMMA DebtObserve ==
    ASSUME HealthInv, DebtInv, NEW b \in Slots, NEW c \in {"healthy", "failure", "ignored"},
           evaluate([health EXCEPT ![b] = observe(@, c)], FALSE, FALSE),
           UNCHANGED <<outlook, owed, lull>>,
           \/ fanout' = fanout
           \/ fanout' = 0 /\ b = outlook.region /\ c = "failure",
           \/ loop' = loop
           \/ loop'.at # "tick"
    PROVE  DebtInv'
<1>0. HealthTypes /\ FanoutFresh /\ VerdictFresh
    BY DEF HealthInv, DebtInv
<1>1. outlook.region # NoSlot => outlook.region \in Slots
    BY <1>0, RegionType
<1>2. ASSUME NEW r \in Slots, NEW k \in Nat, health[r].since <= k
      PROVE  health'[r].since <= k
    <2>1. health'[r].since \in {health[r].since, 0, Never}
        BY ObserveStep
    <2>2. health[r].since \in Int
        BY <1>0, HealthAssumption DEF HealthTypes, Status
    <2> QED
        BY <1>2, <2>1, <2>2 DEF Never
<1>3. FanoutFresh'
    <2>1. CASE fanout' = fanout
        <3>1. fanout # Never => fanout \in Nat
            BY <1>0, HealthAssumption DEF HealthTypes
        <3> QED
            BY <1>0, <1>1, <1>2, <2>1, <3>1 DEF FanoutFresh
    <2>2. CASE fanout' = 0 /\ b = outlook.region /\ c = "failure"
        <3>1. health'[b].since = -1
            BY <2>2, ObserveStep DEF Never
        <3>2. b # NoSlot
            BY HealthAssumption
        <3> QED
            BY <2>2, <3>1, <3>2 DEF FanoutFresh
    <2> QED
        BY <2>1, <2>2
<1>4. VerdictFresh'
    <2>1. lull + Grace \in Nat
        BY <1>0, HealthAssumption DEF HealthTypes
    <2> QED
        BY <1>0, <1>1, <1>2, <2>1 DEF VerdictFresh
<1> QED
    BY <1>3, <1>4 DEF DebtInv

LEMMA DebtStep == HealthInv /\ DebtInv /\ [HealthNext]_healthVars => DebtInv'
<1> SUFFICES ASSUME HealthInv, DebtInv, [HealthNext]_healthVars PROVE DebtInv'
    OBVIOUS
<1> USE HealthAssumption
<1>0. HealthTypes /\ FanoutFresh /\ VerdictFresh /\ GoneHasNoSince
    BY DEF HealthInv, DebtInv
<1>a. outlook.region # NoSlot => outlook.region \in Slots
    BY <1>0, RegionType
<1>b. fanout # Never => fanout \in 0 .. Grace
    BY <1>0 DEF HealthTypes
<1>1. ASSUME NEW b \in Slots, Probe(b) PROVE DebtInv'
    <2>1. PICK c \in {"healthy", "failure", "ignored"} : c = classify(Truth(b))
        BY ClassOf
    <2>2. /\ evaluate([health EXCEPT ![b] = observe(@, c)], FALSE, FALSE)
          /\ UNCHANGED <<outlook, owed, lull, fanout>>
          /\ loop' = [loop EXCEPT !.todo = @ \ {b}] /\ loop.at = "probe"
        BY <1>1, <2>1 DEF Probe, world
    <2>3. loop'.at # "tick"
        BY <1>0, <2>2 DEF HealthTypes, LoopType
    <2> QED
        BY <2>2, <2>3, DebtObserve
<1>2. ASSUME NEW b \in Slots, NEW signal \in Signals, Report(b, signal) PROVE DebtInv'
    <2>1. PICK c \in {"healthy", "failure", "ignored"} : c = classify(signal)
        BY ClassOf
    <2>2. /\ evaluate([health EXCEPT ![b] = observe(@, c)], FALSE, FALSE)
          /\ UNCHANGED <<outlook, owed, lull, loop>>
          /\ fanout' = fanout \/ (fanout' = 0 /\ b = outlook.region /\ c = "failure")
        BY <1>2, <2>1 DEF Report, world
    <2> QED
        BY <2>2, DebtObserve
<1>3. CASE CheckTopology
    <2>1. PICK b : b = Min(loop.todo)
        OBVIOUS
    <2>2. b \in Slots
        BY <1>0, <1>3, <2>1, MinFact DEF CheckTopology, HealthTypes, LoopType
    <2>3. PICK c \in {"healthy", "failure", "ignored"} :
             evaluate([health EXCEPT ![b] = observe(@, c)], FALSE, FALSE)
        BY <1>3, <2>1 DEF CheckTopology
    <2>4. UNCHANGED <<outlook, owed, lull, fanout>>
        BY <1>3 DEF CheckTopology, world
    <2>5. loop'.at # "tick"
        BY <1>0, <1>3 DEF CheckTopology, HealthTypes, LoopType
    <2> QED
        BY <2>2, <2>3, <2>4, <2>5, DebtObserve
<1>4. CASE CheckRegion
    <2>1. /\ loop' = [loop EXCEPT !.at = "tick", !.todo = {}, !.caughtUp = ReturnPending /\ CaughtUp]
          /\ lull' = 0 /\ owed' = {IF kind = "new" THEN "standing" ELSE kind : kind \in owed}
          /\ UNCHANGED <<outlook, health, fanout>>
        BY <1>4 DEF CheckRegion, world
    <2>2. loop'.caughtUp => outlook.region # NoSlot /\ owed = {}
        BY <1>0, <2>1 DEF ReturnPending, CaughtUp, HealthTypes, LoopType
    <2>3. loop'.caughtUp => owed' = {}
        BY <2>1, <2>2
    <2> QED
        BY <1>0, <2>1, <2>2, <2>3 DEF DebtInv, FanoutFresh, VerdictFresh
<1>5. CASE Tick \/ Acknowledge
    <2>1. UNCHANGED <<outlook, owed, fanout>> /\ loop'.at = "check"
        BY <1>0, <1>5 DEF Tick, Acknowledge, world, HealthTypes, LoopType
    <2>2. \A r \in Slots : health'[r].since = health[r].since
        <3>1. CASE Tick
            BY <1>0, <3>1 DEF Tick, HealthTypes, Status
        <3>2. CASE Acknowledge
            <4>1. PICK b : b = Min(loop.todo)
                OBVIOUS
            <4>2. health' = [health EXCEPT ![b].topology = IF @ = "checking" THEN "verified" ELSE @]
                BY <3>2, <4>1 DEF Acknowledge, topology_check_passed
            <4> QED
                BY <1>0, <4>2 DEF HealthTypes, Status
        <3> QED
            BY <1>5, <3>1, <3>2
    <2> QED
        BY <1>0, <1>a, <2>1, <2>2 DEF DebtInv, FanoutFresh, VerdictFresh
<1>6. CASE Apply \/ ApplyRead
    <2>1. UNCHANGED <<outlook, health, owed, fanout>>
        BY <1>6 DEF Apply, ApplyRead, world
    <2>2. loop'.at # "tick"
        <3>1. CASE Apply
            BY <1>0, <3>1 DEF Apply, HealthTypes, LoopType
        <3>2. CASE ApplyRead
            BY <3>2 DEF ApplyRead, Calm
        <3> QED
            BY <1>6, <3>1, <3>2
    <2> QED
        BY <1>0, <2>1, <2>2 DEF DebtInv, FanoutFresh, VerdictFresh
<1>7. CASE Elapse
    <2>1. /\ UNCHANGED <<outlook, loop, owed>> /\ (loop.at = "tick" => lull < CycleTime)
          /\ fanout' = IF fanout = Never THEN Never ELSE fanout + 1
          /\ lull' = IF loop.at = "tick" THEN lull + 1 ELSE 0
        BY <1>7 DEF Elapse, world
    <2>2. ASSUME NEW r \in Slots, NEW k \in Nat, health[r].since <= k
          PROVE  health'[r].since <= k + 1
        <3>1. health[r].since \in Int /\ health'[r].since \in {health[r].since, health[r].since + 1}
            BY <1>0, <1>7 DEF Elapse, HealthTypes, Status
        <3> QED
            BY <2>2, <3>1
    <2>3. FanoutFresh'
        <3> SUFFICES ASSUME fanout' # Never
                     PROVE  outlook.region # NoSlot /\ health'[outlook.region].since <= fanout'
            BY <2>1 DEF FanoutFresh
        <3>1. fanout # Never /\ fanout \in Nat /\ fanout' = fanout + 1
            BY <1>b, <2>1
        <3> QED
            BY <1>0, <1>a, <2>2, <3>1 DEF FanoutFresh
    <2>4. VerdictFresh'
        <3> SUFFICES ASSUME loop.at = "tick" PROVE VerdictFresh'
            BY <2>1 DEF VerdictFresh
        <3>1. lull \in Nat /\ lull' = lull + 1 /\ lull' <= CycleTime /\ lull + Grace \in Nat
            BY <1>0, <2>1 DEF HealthTypes
        <3>2. ASSUME loop.caughtUp, "outage" \in owed
              PROVE  health'[outlook.region].since <= lull' + Grace
            <4>1. health[outlook.region].since <= lull + Grace /\ outlook.region \in Slots
                BY <1>0, <1>a, <3>2 DEF VerdictFresh
            <4>2. health'[outlook.region].since <= (lull + Grace) + 1
                BY <2>2, <3>1, <4>1
            <4> QED
                BY <3>1, <4>2
        <3> QED
            BY <1>0, <2>1, <3>1, <3>2 DEF VerdictFresh
    <2> QED
        BY <2>3, <2>4 DEF DebtInv
<1>8. CASE SkipRegion
    <2>1. /\ UNCHANGED <<outlook, health, owed, lull, loop>> /\ fanout' = 0
          /\ outlook.region \in Slots /\ health[outlook.region].since = -1
        BY <1>0, <1>a, <1>8 DEF SkipRegion, GoneHasNoSince, Never, world
    <2> QED
        BY <1>0, <2>1 DEF DebtInv, FanoutFresh, VerdictFresh
<1>9. CASE Owe
    <2>1. /\ UNCHANGED <<outlook, health, lull, loop>> /\ fanout' = Never /\ fanout \in 0 .. Grace
          /\ owed' = owed \cup {"outage"}
        BY <1>b, <1>9 DEF Owe, world
    <2>2. outlook.region \in Slots /\ health[outlook.region].since <= fanout
        BY <1>0, <1>a, <1>9 DEF Owe, FanoutFresh
    <2>3. health[outlook.region].since <= lull + Grace
        <3>1. health[outlook.region] \in Status /\ lull \in Nat
            BY <1>0, <2>2 DEF HealthTypes
        <3>2. health[outlook.region].since \in Int
            BY <3>1 DEF Status
        <3> QED
            BY <2>1, <2>2, <3>1, <3>2
    <2> QED
        BY <1>0, <2>1, <2>2, <2>3 DEF DebtInv, FanoutFresh, VerdictFresh
<1>10. CASE OweServing \/ Drain
    <2>1. /\ UNCHANGED <<outlook, health, lull, loop, fanout>>
          /\ owed' \subseteq owed \cup {"new"}
        BY <1>10 DEF OweServing, Drain, world
    <2> QED
        BY <1>0, <2>1 DEF DebtInv, FanoutFresh, VerdictFresh
<1>11. ASSUME NEW b \in Slots, Flip(b) PROVE DebtInv'
    <2>1. UNCHANGED <<outlook, health, owed, fanout, lull, loop>>
        BY <1>11 DEF Flip
    <2> QED
        BY <1>0, <2>1 DEF DebtInv, FanoutFresh, VerdictFresh
<1>12. CASE UNCHANGED healthVars
    BY <1>0, <1>12 DEF healthVars, world, DebtInv, FanoutFresh, VerdictFresh
<1> QED
    BY <1>1, <1>2, <1>3, <1>4, <1>5, <1>6, <1>7, <1>8, <1>9, <1>10, <1>11, <1>12
       DEF HealthNext, LoopStep

\* Only the tick can promise the reads, and by then a failed write has reset the window.
LEMMA ReadsStep ==
    ASSUME Grace + CycleTime < Window, HealthInv, DebtInv, [HealthNext]_healthVars
    PROVE  [readPin = "follow" /\ readPin' = "earned" => owed \subseteq {"new"}]_healthVars
<1> SUFFICES ASSUME HealthNext, readPin = "follow", readPin' = "earned" PROVE owed \subseteq {"new"}
    BY DEF healthVars
<1>0. HealthTypes /\ VerdictFresh
    BY DEF HealthInv, DebtInv
<1>1. Tick
    <2>1. ASSUME NEW b \in Slots, NEW c \in {"healthy", "failure", "ignored"},
                 evaluate([health EXCEPT ![b] = observe(@, c)], FALSE, FALSE)
          PROVE  FALSE
        BY <2>1, ObserveStep
    <2>2. \A b \in Slots : ~Probe(b)
        BY <2>1, ClassOf DEF Probe
    <2>3. \A b \in Slots, signal \in Signals : ~Report(b, signal)
        BY <2>1, ClassOf DEF Report
    <2>4. ~CheckTopology
        <3>1. loop.todo # {} => Min(loop.todo) \in Slots
            BY <1>0, MinFact, HealthAssumption DEF HealthTypes, LoopType
        <3> QED
            BY <2>1, <3>1 DEF CheckTopology
    <2> QED
        BY <2>2, <2>3, <2>4 DEF HealthNext, LoopStep, CheckRegion, Acknowledge, Apply, ApplyRead,
                                Elapse, SkipRegion, Owe, OweServing, Drain, Flip
<1>2. /\ loop.at = "tick" /\ loop.caughtUp \in BOOLEAN
      /\ readPin' = next_read_pin(health, readPin, loop.caughtUp)
    BY <1>0, <1>1 DEF Tick, HealthTypes, LoopType
<1>3. loop.caughtUp /\ served(health[outlook.region])
    BY <1>0, <1>2, ReadPinFacts
<1>4. health[outlook.region].since = Window
    BY <1>3 DEF served
<1>5. "outage" \notin owed /\ "standing" \notin owed
    BY <1>0, <1>2, <1>3, <1>4, HealthAssumption DEF VerdictFresh, HealthTypes
<1> QED
    BY <1>0, <1>5 DEF HealthTypes

(* Neither pin moves onto a bucket that others have stamped, and, if the return     *)
(* window is longer than the fan-out's grace and the way from the caught-up check to *)
(* the tick together, all that may be owed to the region's bucket when reads are     *)
(* promised to it is what was left since that check for a bucket nobody here saw     *)
(* fail (worker.rs apply_selection, region_bucket_caught_up).                        *)
THEOREM HealthStepsHold ==
    ASSUME Grace + CycleTime < Window
    PROVE  HealthSpec => HealthSteps
<1>1. HealthInv /\ DebtInv /\ [HealthNext]_healthVars =>
          [readPin = "follow" /\ readPin' = "earned" => owed \subseteq {"new"}]_healthVars
    BY ReadsStep
<1>2. HealthSpec => PinsMoveToOurs
    BY PinsStep, HealthInvCorrect, PTL DEF HealthSpec, PinsMoveToOurs
<1>3. HealthSpec => []DebtInv
    BY DebtInit, DebtStep, HealthInvCorrect, PTL DEF HealthSpec
<1>4. HealthSpec => ReadsCaughtUp
    BY <1>1, <1>3, HealthInvCorrect, PTL DEF HealthSpec, ReadsCaughtUp
<1> QED
    BY <1>2, <1>4, PTL DEF HealthSteps

-----------------------------------------------------------------------------
(* The topology stamps: the inductive invariant.                           *)

Where == DOMAIN rollout.stamped
AStamp == StampsOver(Where)
Sightings == UNION {[D -> AStamp \cup {NoStamp, Silent}] : D \in SUBSET Where}

ProcType ==
    [at : ProcSteps, gen : Nat \cup {NoStamp}, seen : Sightings, todo : SUBSET Where,
     target : AStamp \cup {NoStamp}, lost : SUBSET Where]

TopologyTypes ==
    /\ rollout \in Rollouts
    /\ stamps \in [Where -> AStamp \cup {NoStamp}]
    /\ proc \in [Processes -> ProcType]
    /\ silences \in 0 .. rollout.silences

\* Who writes has read its whole list, and what it still has to write is older than
\* what it writes.
Writing(q) ==
    proc[q].at \in {"write", "raced"} =>
        /\ DOMAIN proc[q].seen = Members(q)
        /\ proc[q].todo \subseteq Members(q)
        /\ proc[q].at = "raced" => proc[q].lost \subseteq proc[q].todo
        /\ proc[q].target \in AStamp /\ proc[q].target.buckets = List(q)
        /\ \A b \in proc[q].todo :
              /\ proc[q].seen[b] # Silent
              /\ proc[q].seen[b] # NoStamp =>
                    proc[q].seen[b].generation < proc[q].target.generation

Running(q) == proc[q].at \in {"on", "fenced", "done"} => proc[q].gen \in Nat

TopologyInv == TopologyTypes /\ \A q \in Processes : Writing(q) /\ Running(q)

\* What the assumption says of the rollout at hand.
LEMMA RolloutFacts ==
    ASSUME TopologyTypes
    PROVE  /\ \A q \in Processes : List(q) \in Seq(Where) /\ Members(q) \subseteq Where
           /\ \A q \in Processes : IsFiniteSet(Members(q))
           /\ NoStamp \notin AStamp /\ Silent \notin AStamp /\ NoStamp # Silent
           /\ rollout.silences \in 0 .. MaxSilences
           /\ rollout.stamped \in [Where -> AStamp \cup {NoStamp}]
<1>1. IsRollout(rollout) /\ NoStamp # Silent
    BY TopologyAssumption DEF TopologyTypes
<1>2. ASSUME NEW q \in Processes
      PROVE  List(q) \in Seq(Where) /\ Members(q) \subseteq Where /\ IsFiniteSet(Members(q))
    <2>1. List(q) \in Seq(Where)
        BY <1>1 DEF IsRollout, List, Where
    <2>2. Len(List(q)) \in Nat /\ \A i \in 1 .. Len(List(q)) : List(q)[i] \in Where
        BY <2>1
    <2>3. Members(q) \subseteq Where
        BY <2>2 DEF Members
    <2>4. IsFiniteSet(Members(q))
        <3> DEFINE f == [i \in 1 .. Len(List(q)) |-> List(q)[i]]
        <3>1. f \in Surjection(1 .. Len(List(q)), Members(q))
            BY DEF Surjection, Members
        <3>2. IsFiniteSet(1 .. Len(List(q)))
            BY <2>2, FS_Interval
        <3> HIDE DEF f
        <3> QED
            BY <3>1, <3>2, FS_Surjection
    <2> QED
        BY <2>1, <2>3, <2>4
<1> QED
    BY <1>1, <1>2 DEF IsRollout, Where, AStamp

\* The highest generation seen bounds every one seen.
LEMMA HighestFacts ==
    ASSUME TopologyTypes, NEW q \in Processes, DOMAIN proc[q].seen = Members(q)
    PROVE  /\ Highest(q) \in Nat
           /\ \A b \in Stamped(q) : proc[q].seen[b] \in AStamp /\ proc[q].seen[b].generation <= Highest(q)
<1> DEFINE G == {proc[q].seen[b].generation : b \in Stamped(q)}
<1>1. \A b \in Stamped(q) : proc[q].seen[b] \in AStamp
    BY DEF TopologyTypes, ProcType, Sightings, Stamped, Answered
<1>2. G \subseteq Nat
    BY <1>1 DEF AStamp, StampsOver
<1>3. CASE Stamped(q) = {}
    BY <1>3 DEF Highest
<1>4. CASE Stamped(q) # {}
    <2>1. IsFiniteSet(G)
        <3> DEFINE f == [b \in Stamped(q) |-> proc[q].seen[b].generation]
        <3>1. f \in Surjection(Stamped(q), G)
            BY DEF Surjection
        <3>2. IsFiniteSet(Stamped(q))
            <4>1. Stamped(q) \in SUBSET Members(q) /\ IsFiniteSet(Members(q))
                BY RolloutFacts DEF Stamped, Answered
            <4> QED
                BY <4>1, FS_Subset
        <3> HIDE DEF f, G
        <3> QED
            BY <3>1, <3>2, FS_Surjection
    <2>2. Highest(q) = Max(G) /\ G # {}
        BY <1>4 DEF Highest
    <2> HIDE DEF G
    <2>3. Highest(q) \in Nat /\ \A g \in G : Highest(q) >= g
        BY <1>2, <2>1, <2>2, MaxFact
    <2> QED
        BY <1>1, <1>2, <2>3 DEF G
<1> QED
    BY <1>3, <1>4

LEMMA OffType == Off \in ProcType /\ Off.at = "off"
<1>1. [b \in {} |-> NoStamp] \in Sightings
    <2>1. {} \in SUBSET Where /\ [b \in {} |-> NoStamp] \in [{} -> AStamp \cup {NoStamp, Silent}]
        OBVIOUS
    <2> QED
        BY <2>1 DEF Sightings
<1>2. Off.seen = [b \in {} |-> NoStamp]
    BY DEF Off
<1> QED
    BY <1>1 DEF Off, ProcType, ProcSteps

LEMMA TopologyInvInit == TopologyInit => TopologyInv
<1> SUFFICES ASSUME TopologyInit PROVE TopologyInv
    OBVIOUS
<1>1. IsRollout(rollout)
    BY TopologyAssumption DEF TopologyInit
<1>2. Off \in ProcType
    BY OffType
<1>3. TopologyTypes
    <2>1. stamps \in [Where -> AStamp \cup {NoStamp}]
        BY <1>1 DEF TopologyInit, IsRollout, Where, AStamp
    <2>2. rollout.silences \in 0 .. MaxSilences
        BY <1>1 DEF IsRollout
    <2>3. silences \in 0 .. rollout.silences
        BY <2>2, TopologyAssumption DEF TopologyInit
    <2> QED
        BY <1>2, <2>1, <2>3 DEF TopologyInit, TopologyTypes
<1> QED
    BY <1>3 DEF TopologyInit, TopologyInv, Writing, Running, Off

\* A step of one process leaves the others alone.
LEMMA OneMoves ==
    ASSUME TopologyInv, NEW q \in Processes, NEW p \in ProcType, Becomes(q, p), UNCHANGED rollout,
           stamps' \in [Where -> AStamp \cup {NoStamp}], silences' \in 0 .. rollout.silences,
           Writing(q)', Running(q)'
    PROVE  TopologyInv'
<1>1. /\ proc' \in [Processes -> ProcType] /\ \A r \in Processes : r # q => proc'[r] = proc[r]
    BY DEF Becomes, TopologyInv, TopologyTypes
<1>2. Where' = Where /\ AStamp' = AStamp /\ ProcType' = ProcType
    BY DEF Where, AStamp, ProcType, Sightings
<1>3. TopologyTypes'
    BY <1>1, <1>2 DEF TopologyInv, TopologyTypes
<1>4. ASSUME NEW r \in Processes, r # q PROVE Writing(r)' /\ Running(r)'
    <2>1. proc'[r] = proc[r] /\ List(r)' = List(r) /\ Members(r)' = Members(r)
        BY <1>1, <1>4 DEF List, Members
    <2> QED
        BY <1>2, <1>4, <2>1 DEF TopologyInv, Writing, Running
<1> QED
    BY <1>3, <1>4 DEF TopologyInv

\* A process that is neither writing nor running owes nothing.
LEMMA Idles ==
    ASSUME TopologyInv, NEW q \in Processes, NEW p \in ProcType,
           p.at \in {"off", "read", "refused"}, Becomes(q, p), UNCHANGED <<rollout, stamps>>,
           silences' \in 0 .. rollout.silences
    PROVE  TopologyInv'
<1>1. proc'[q] = p
    BY DEF Becomes, TopologyInv, TopologyTypes
<1>2. Writing(q)' /\ Running(q)'
    BY <1>1 DEF Writing, Running
<1> QED
    BY <1>2, OneMoves DEF TopologyInv, TopologyTypes

LEMMA TopologyInvStep == TopologyInv /\ [TopologyNext]_topologyVars => TopologyInv'
<1> SUFFICES ASSUME TopologyInv, [TopologyNext]_topologyVars PROVE TopologyInv'
    OBVIOUS
<1>0. TopologyTypes /\ \A q \in Processes : Writing(q) /\ Running(q)
    BY DEF TopologyInv
<1>a. /\ Off \in ProcType /\ Off.at = "off"
      /\ [Off EXCEPT !.at = "read"] \in ProcType /\ [Off EXCEPT !.at = "read"].at = "read"
      /\ [Off EXCEPT !.at = "refused"] \in ProcType /\ [Off EXCEPT !.at = "refused"].at = "refused"
    <2>1. Off \in ProcType /\ Off.at = "off"
        BY OffType
    <2>2. ASSUME NEW w \in ProcSteps
          PROVE  [Off EXCEPT !.at = w] \in ProcType /\ [Off EXCEPT !.at = w].at = w
        BY OffType DEF ProcType
    <2> QED
        BY <2>1, <2>2 DEF ProcSteps
<1>b. silences \in 0 .. rollout.silences /\ rollout.silences \in Nat
    BY <1>0, RolloutFacts, TopologyAssumption DEF TopologyTypes
<1>c. Hush => silences' \in 0 .. rollout.silences
    BY <1>b DEF Hush
<1>d. ASSUME NEW q \in Processes PROVE proc[q] \in ProcType
    BY <1>0 DEF TopologyTypes
<1>1. ASSUME NEW q \in Processes, Begin(q) \/ Stop(q) PROVE TopologyInv'
    BY <1>1, <1>a, <1>b, Idles DEF Begin, Stop
<1>2. ASSUME NEW q \in Processes, NEW b \in Members(q), ReadStamp(q, b) PROVE TopologyInv'
    <2> DEFINE saw(s) == [c \in DOMAIN proc[q].seen \cup {b} |-> IF c = b THEN s ELSE proc[q].seen[c]]
    <2>1. PICK s \in AStamp \cup {NoStamp, Silent} :
             /\ Becomes(q, [proc[q] EXCEPT !.seen = saw(s)]) /\ proc[q].at = "read"
             /\ UNCHANGED <<rollout, stamps>> /\ silences' \in 0 .. rollout.silences
        <3>1. stamps[b] \in AStamp \cup {NoStamp, Silent}
            BY <1>0, RolloutFacts DEF TopologyTypes
        <3> QED
            BY <1>2, <1>b, <1>c, <3>1 DEF ReadStamp
    <2>2. saw(s) \in Sightings
        <3>1. b \in Where
            BY <1>0, RolloutFacts
        <3>2. PICK D \in SUBSET Where : proc[q].seen \in [D -> AStamp \cup {NoStamp, Silent}]
            BY <1>d DEF ProcType, Sightings
        <3>3. D \cup {b} \in SUBSET Where /\ saw(s) \in [D \cup {b} -> AStamp \cup {NoStamp, Silent}]
            BY <3>1, <3>2
        <3> QED
            BY <3>3 DEF Sightings
    <2> HIDE DEF saw
    <2>3. /\ [proc[q] EXCEPT !.seen = saw(s)] \in ProcType
          /\ [proc[q] EXCEPT !.seen = saw(s)].at = "read"
        BY <1>d, <2>1, <2>2 DEF ProcType
    <2> QED
        BY <2>1, <2>3, Idles
<1>3. ASSUME NEW q \in Processes, Verify(q) \/ Migrate(q) PROVE TopologyInv'
    <2>1. UNCHANGED <<rollout, stamps, silences>> /\ DOMAIN proc[q].seen = Members(q)
        BY <1>3 DEF Verify, Migrate
    <2>2. CASE Fails(q)
        BY <1>a, <1>b, <2>1, <2>2, Idles DEF Fails
    <2>3. ASSUME NEW T, NEW g, T \subseteq Answered(q), g \in Nat,
                 \A b \in T : proc[q].seen[b] # NoStamp => proc[q].seen[b].generation < g,
                 Becomes(q, [proc[q] EXCEPT !.at = "write", !.todo = T, !.target = Stamp(q, g)])
          PROVE  TopologyInv'
        <3> DEFINE p == [proc[q] EXCEPT !.at = "write", !.todo = T, !.target = Stamp(q, g)]
        <3>1. T \subseteq Members(q) /\ T \subseteq Where /\ \A b \in T : proc[q].seen[b] # Silent
            BY <1>0, <2>3, RolloutFacts DEF Answered
        <3>2. Stamp(q, g) \in AStamp /\ Stamp(q, g).buckets = List(q) /\ Stamp(q, g).generation = g
            BY <1>0, <2>3, RolloutFacts DEF Stamp, AStamp, StampsOver
        <3>3. /\ p \in ProcType /\ p.at = "write" /\ p.todo = T /\ p.target = Stamp(q, g)
              /\ p.seen = proc[q].seen /\ p.lost = proc[q].lost
            BY <1>d, <3>1, <3>2 DEF ProcType, ProcSteps
        <3>4. proc'[q] = p
            BY <1>0, <2>3 DEF Becomes, TopologyTypes
        <3> HIDE DEF p
        <3>5. Running(q)'
            BY <3>3, <3>4 DEF Running
        <3>6. Writing(q)'
            <4>1. List(q)' = List(q) /\ Members(q)' = Members(q) /\ AStamp' = AStamp
                BY <2>1 DEF List, Members, AStamp, Where
            <4> QED
                BY <2>1, <2>3, <3>1, <3>2, <3>3, <3>4, <4>1 DEF Writing
        <3> QED
            BY <1>0, <1>b, <2>1, <2>3, <3>3, <3>5, <3>6, OneMoves DEF p, TopologyTypes
    <2>4. CASE Verify(q) /\ Acceptable(q)
        <3>1. \A b \in Answered(q) \ Latest(q) :
                 proc[q].seen[b] # NoStamp => proc[q].seen[b].generation < Highest(q)
            BY <1>0, <2>1, HighestFacts DEF Latest, Stamped, AStamp, StampsOver
        <3> QED
            BY <1>0, <2>1, <2>3, <2>4, <3>1, HighestFacts DEF Verify
    <2>5. CASE Migrate(q) /\ Answered(q) # {}
        <3>1. /\ NextGeneration(q) \in Nat
              /\ \A b \in Answered(q) :
                    proc[q].seen[b] # NoStamp => proc[q].seen[b].generation < NextGeneration(q)
            BY <1>0, <2>1, HighestFacts DEF NextGeneration, Stamped, AStamp, StampsOver
        <3> QED
            BY <2>3, <2>5, <3>1 DEF Migrate
    <2> QED
        BY <1>3, <2>2, <2>4, <2>5 DEF Verify, Migrate
<1>4. ASSUME NEW q \in Processes, NEW b \in Members(q), WriteStamp(q, b) PROVE TopologyInv'
    <2>1. /\ proc[q].at = "write" /\ b \in proc[q].todo /\ UNCHANGED rollout
          /\ silences' \in 0 .. rollout.silences
          /\ \/ stamps' = stamps \/ stamps' = [stamps EXCEPT ![b] = proc[q].target]
          /\ \/ Becomes(q, [proc[q] EXCEPT !.todo = @ \ {b}])
             \/ Becomes(q, [proc[q] EXCEPT !.at = "raced", !.lost = {b}])
        BY <1>4, <1>b, <1>c DEF WriteStamp
    <2>2. proc[q].target \in AStamp /\ b \in Where
        BY <1>0, <2>1, RolloutFacts DEF Writing
    <2>3. stamps' \in [Where -> AStamp \cup {NoStamp}]
        BY <1>0, <2>1, <2>2 DEF TopologyTypes
    <2>4. List(q)' = List(q) /\ Members(q)' = Members(q) /\ AStamp' = AStamp
        BY <2>1 DEF List, Members, AStamp, Where
    <2>5. CASE Becomes(q, [proc[q] EXCEPT !.todo = @ \ {b}])
        <3> DEFINE p == [proc[q] EXCEPT !.todo = @ \ {b}]
        <3>1. /\ p \in ProcType /\ p.at = "write" /\ p.todo = proc[q].todo \ {b}
              /\ p.target = proc[q].target /\ p.seen = proc[q].seen
            BY <1>d, <2>1 DEF ProcType
        <3>2. proc'[q] = p
            BY <1>0, <2>5 DEF Becomes, TopologyTypes
        <3> HIDE DEF p
        <3>3. Writing(q)' /\ Running(q)'
            BY <1>0, <2>1, <2>4, <3>1, <3>2 DEF Writing, Running
        <3> QED
            BY <2>1, <2>3, <2>5, <3>1, <3>3, OneMoves DEF p
    <2>6. CASE Becomes(q, [proc[q] EXCEPT !.at = "raced", !.lost = {b}])
        <3> DEFINE p == [proc[q] EXCEPT !.at = "raced", !.lost = {b}]
        <3>1. /\ p \in ProcType /\ p.at = "raced" /\ p.todo = proc[q].todo /\ p.lost = {b}
              /\ p.target = proc[q].target /\ p.seen = proc[q].seen
            BY <1>d, <2>2 DEF ProcType, ProcSteps
        <3>2. proc'[q] = p
            BY <1>0, <2>6 DEF Becomes, TopologyTypes
        <3> HIDE DEF p
        <3>3. Writing(q)' /\ Running(q)'
            BY <1>0, <2>1, <2>4, <3>1, <3>2 DEF Writing, Running
        <3> QED
            BY <2>1, <2>3, <2>6, <3>1, <3>3, OneMoves DEF p
    <2> QED
        BY <2>1, <2>5, <2>6
<1>5. ASSUME NEW q \in Processes, NEW b \in Members(q), SettleRace(q, b) PROVE TopologyInv'
    <2> DEFINE p == [proc[q] EXCEPT !.at = "write", !.todo = @ \ {b}, !.lost = {}]
    <2>1. /\ proc[q].at = "raced" /\ UNCHANGED <<rollout, stamps>> /\ silences' \in 0 .. rollout.silences
          /\ Becomes(q, p) \/ Fails(q)
        BY <1>5, <1>b, <1>c DEF SettleRace
    <2>2. CASE Fails(q)
        BY <1>a, <2>1, <2>2, Idles DEF Fails
    <2>3. CASE Becomes(q, p)
        <3>1. /\ p \in ProcType /\ p.at = "write" /\ p.todo = proc[q].todo \ {b}
              /\ p.target = proc[q].target /\ p.seen = proc[q].seen
            BY <1>d, <2>1 DEF ProcType, ProcSteps
        <3>2. proc'[q] = p
            BY <1>0, <2>3 DEF Becomes, TopologyTypes
        <3>3. List(q)' = List(q) /\ Members(q)' = Members(q) /\ AStamp' = AStamp
            BY <2>1 DEF List, Members, AStamp, Where
        <3> HIDE DEF p
        <3>4. Writing(q)' /\ Running(q)'
            BY <1>0, <2>1, <3>1, <3>2, <3>3 DEF Writing, Running
        <3> QED
            BY <1>0, <2>1, <2>3, <3>1, <3>4, OneMoves DEF TopologyTypes
    <2> QED
        BY <2>1, <2>2, <2>3
<1>6. ASSUME NEW q \in Processes, Finish(q) PROVE TopologyInv'
    <2> DEFINE w == IF q \in Starters THEN "on" ELSE "done"
               p == [Off EXCEPT !.at = w, !.gen = SetGeneration(q)]
    <2>1. proc[q].at = "write" /\ UNCHANGED <<rollout, stamps, silences>> /\ Becomes(q, p)
        BY <1>6 DEF Finish
    <2>2. SetGeneration(q) \in Nat
        BY <1>0, <2>1 DEF Writing, SetGeneration, AStamp, StampsOver
    <2>3. p \in ProcType /\ p.at = w /\ p.gen = SetGeneration(q)
        BY <2>2, OffType DEF ProcType, ProcSteps
    <2>4. proc'[q] = p
        BY <1>0, <2>1 DEF Becomes, TopologyTypes
    <2> HIDE DEF p
    <2>5. Writing(q)' /\ Running(q)'
        BY <2>2, <2>3, <2>4 DEF Writing, Running
    <2> QED
        BY <1>0, <1>b, <2>1, <2>3, <2>5, OneMoves DEF TopologyTypes
<1>7. ASSUME NEW q \in Processes, NEW b \in Members(q), Revalidate(q, b) PROVE TopologyInv'
    <2>1. /\ proc[q].at = "on" /\ UNCHANGED <<rollout, silences>> /\ proc[q].gen \in Nat /\ b \in Where
          /\ \/ stamps' = [stamps EXCEPT ![b] = Stamp(q, proc[q].gen)] /\ UNCHANGED proc
             \/ Becomes(q, [proc[q] EXCEPT !.at = "fenced"]) /\ UNCHANGED stamps
        BY <1>0, <1>7, RolloutFacts DEF Revalidate, Running
    <2>2. CASE stamps' = [stamps EXCEPT ![b] = Stamp(q, proc[q].gen)] /\ UNCHANGED proc
        <3>1. Stamp(q, proc[q].gen) \in AStamp
            BY <1>0, <2>1, RolloutFacts DEF Stamp, AStamp, StampsOver
        <3>2. stamps' \in [Where -> AStamp \cup {NoStamp}]
            BY <1>0, <2>2, <3>1 DEF TopologyTypes
        <3>3. Becomes(q, proc[q])
            BY <1>0, <2>2 DEF Becomes, TopologyTypes
        <3>4. Writing(q)' /\ Running(q)'
            <4>1. List(q)' = List(q) /\ Members(q)' = Members(q) /\ AStamp' = AStamp
                BY <2>1 DEF List, Members, AStamp, Where
            <4> QED
                BY <1>0, <2>2, <4>1 DEF Writing, Running
        <3> QED
            BY <1>b, <1>d, <2>1, <3>2, <3>3, <3>4, OneMoves
    <2>3. CASE Becomes(q, [proc[q] EXCEPT !.at = "fenced"]) /\ UNCHANGED stamps
        <3> DEFINE p == [proc[q] EXCEPT !.at = "fenced"]
        <3>1. p \in ProcType /\ p.at = "fenced" /\ p.gen = proc[q].gen
            BY <1>d DEF ProcType, ProcSteps
        <3>2. proc'[q] = p
            BY <1>0, <2>3 DEF Becomes, TopologyTypes
        <3> HIDE DEF p
        <3>3. Writing(q)' /\ Running(q)'
            BY <2>1, <3>1, <3>2 DEF Writing, Running
        <3> QED
            BY <1>0, <1>b, <2>1, <2>3, <3>1, <3>3, OneMoves DEF p, TopologyTypes
    <2> QED
        BY <2>1, <2>2, <2>3
<1>8. CASE UNCHANGED topologyVars
    <2>1. Where' = Where /\ AStamp' = AStamp /\ ProcType' = ProcType
        BY <1>8 DEF topologyVars, Where, AStamp, ProcType, Sightings
    <2> QED
        BY <1>0, <1>8, <2>1 DEF topologyVars, TopologyInv, TopologyTypes, Writing, Running, List, Members
<1> QED
    BY <1>1, <1>2, <1>3, <1>4, <1>5, <1>6, <1>7, <1>8 DEF TopologyNext

LEMMA TopologyInvCorrect == TopologySpec => []TopologyInv
    BY TopologyInvInit, TopologyInvStep, PTL DEF TopologySpec

\* Every write of a stamp is of a higher generation than what it replaces.
LEMMA StampWritten ==
    ASSUME TopologyInv, NEW q \in Processes, NEW c \in Members(q),
           WriteStamp(q, c) \/ Revalidate(q, c), NEW b \in Where, stamps'[b] # stamps[b]
    PROVE  /\ stamps'[b] \in AStamp
           /\ stamps[b] # NoStamp => stamps'[b].generation > stamps[b].generation
<1>0. TopologyTypes /\ Writing(q) /\ Running(q)
    BY DEF TopologyInv
<1>1. stamps[b] # NoStamp => stamps[b].generation \in Nat
    BY <1>0 DEF TopologyTypes, AStamp, StampsOver
<1>2. CASE WriteStamp(q, c)
    <2>1. /\ proc[q].at = "write" /\ c \in proc[q].todo /\ stamps[c] = proc[q].seen[c]
          /\ stamps' = [stamps EXCEPT ![c] = proc[q].target]
        BY <1>2 DEF WriteStamp, Unmoved
    <2>2. c = b /\ stamps'[b] = proc[q].target
        BY <1>0, <2>1 DEF TopologyTypes
    <2>3. /\ proc[q].target \in AStamp /\ proc[q].target.generation \in Nat
          /\ proc[q].seen[c] # NoStamp => proc[q].seen[c].generation < proc[q].target.generation
        BY <1>0, <2>1 DEF Writing, AStamp, StampsOver
    <2> QED
        BY <1>1, <2>1, <2>2, <2>3
<1>3. CASE Revalidate(q, c)
    <2>1. /\ proc[q].at = "on" /\ stamps' = [stamps EXCEPT ![c] = Stamp(q, proc[q].gen)]
          /\ stamps[c] = NoStamp \/ stamps[c].generation < proc[q].gen
        BY <1>3 DEF Revalidate
    <2>2. c = b /\ stamps'[b] = Stamp(q, proc[q].gen) /\ proc[q].gen \in Nat
        BY <1>0, <2>1 DEF TopologyTypes, Running
    <2>3. stamps'[b] \in AStamp
        BY <1>0, <2>2, RolloutFacts DEF Stamp, AStamp, StampsOver
    <2> QED
        BY <1>1, <2>1, <2>2, <2>3 DEF Stamp
<1> QED
    BY <1>2, <1>3

LEMMA StampsStep == TopologyInv /\ [TopologyNext]_topologyVars =>
    [\A b \in Sites : stamps'[b] # stamps[b] /\ stamps[b] # NoStamp =>
         stamps'[b].generation > stamps[b].generation]_topologyVars
<1> SUFFICES ASSUME TopologyInv, TopologyNext, NEW b \in Sites, stamps'[b] # stamps[b],
                    stamps[b] # NoStamp
             PROVE  stamps'[b].generation > stamps[b].generation
    BY DEF topologyVars
<1>1. b \in Where
    BY DEF TopologyInv, TopologyTypes, Sites
<1>2. \E q \in Processes : \E c \in Members(q) : WriteStamp(q, c) \/ Revalidate(q, c)
    BY DEF TopologyNext, Begin, Verify, Migrate, Finish, Stop, ReadStamp, SettleRace
<1> QED
    BY <1>1, <1>2, StampWritten

(* The generation of a bucket's stamp never falls, and its list never changes within *)
(* one: whatever a starting node, a migration or a running node read before, its     *)
(* conditional write replaces only an older stamp (buckets.rs put_if_match callers). *)
THEOREM StampsRiseHolds == TopologySpec => StampsRise
    BY StampsStep, TopologyInvCorrect, PTL DEF TopologySpec, StampsRise

-----------------------------------------------------------------------------
(* One list per generation, where every bucket answers.                    *)

\* A node that starts or runs knows that a bucket carried its list under generation g.
Vouches(q, b, g) ==
    \/ b \in DOMAIN proc[q].seen /\ proc[q].seen[b] = Stamp(q, g)
    \/ /\ proc[q].at \in {"write", "raced"} /\ b \in Members(q) \ proc[q].todo
       /\ proc[q].target.generation = g
    \/ proc[q].at = "on" /\ b \in Members(q) /\ proc[q].gen = g

\* What was vouched for is still there or was overtaken by a later generation.
StillThere ==
    \A q \in Starters, b \in Where, g \in Nat : Vouches(q, b, g) =>
        /\ stamps[b] # NoStamp /\ stamps[b].generation >= g
        /\ stamps[b].generation = g => stamps[b].buckets = List(q)

OneListSeen ==
    \A q, r \in Starters, b \in Where, g \in Nat :
        Vouches(q, b, g) /\ Vouches(r, b, g) => List(q) = List(r)

\* Nobody was found silent.
AllAnswered == \A q \in Starters : \A b \in DOMAIN proc[q].seen : proc[q].seen[b] # Silent

ListInv == rollout.silences = 0 => StillThere /\ OneListSeen /\ AllAnswered

LEMMA ListInvInit == TopologyInit => ListInv
    BY DEF TopologyInit, ListInv, StillThere, OneListSeen, AllAnswered, Vouches, Off, Processes

\* One process moves, and vouches for no more than before or for what now stands there.
LEMMA OneVouches ==
    ASSUME TopologyInv, ListInv, rollout.silences = 0, UNCHANGED rollout, NEW m \in Processes,
           \A b \in Where : \/ stamps'[b] = stamps[b]
                           \/ /\ stamps'[b] \in AStamp
                              /\ stamps[b] # NoStamp => stamps'[b].generation > stamps[b].generation,
           \A q \in Starters : q # m => proc'[q] = proc[q],
           m \in Starters => \A b \in Where, g \in Nat :
               Vouches(m, b, g)' => Vouches(m, b, g) \/ stamps'[b] = Stamp(m, g),
           m \in Starters => \A b \in DOMAIN proc'[m].seen : proc'[m].seen[b] # Silent
    PROVE  ListInv'
<1> USE DEF Processes
<1>0. TopologyTypes /\ StillThere /\ OneListSeen /\ AllAnswered
    BY DEF TopologyInv, ListInv
<1>1. /\ Where' = Where
      /\ \A q \in Starters : List(q)' = List(q) /\ Members(q)' = Members(q)
      /\ \A q \in Starters, g \in Nat : Stamp(q, g)' = Stamp(q, g)
    BY DEF Where, List, Members, Stamp
<1>2. ASSUME NEW q \in Starters, NEW b \in Where, NEW g \in Nat, Vouches(q, b, g)'
      PROVE  Vouches(q, b, g) \/ (q = m /\ stamps'[b] = Stamp(q, g))
    <2>1. CASE q = m
        BY <1>2, <2>1
    <2>2. CASE q # m
        BY <1>1, <1>2, <2>2 DEF Vouches
    <2> QED
        BY <2>1, <2>2
<1>3. ASSUME NEW q \in Starters, NEW b \in Where, NEW g \in Nat, Vouches(q, b, g)
      PROVE  /\ stamps'[b] # NoStamp /\ stamps'[b].generation >= g
             /\ stamps'[b].generation = g => stamps'[b].buckets = List(q)
    <2>1. /\ stamps[b] # NoStamp /\ stamps[b].generation >= g
          /\ stamps[b].generation = g => stamps[b].buckets = List(q)
        BY <1>0, <1>3 DEF StillThere
    <2>2. stamps[b].generation \in Nat /\ (stamps'[b] \in AStamp => stamps'[b].generation \in Nat)
        BY <1>0, <2>1 DEF TopologyTypes, AStamp, StampsOver
    <2> QED
        BY <1>0, <2>1, <2>2, RolloutFacts
<1>4. ASSUME NEW q \in Starters, NEW b \in Where, NEW g \in Nat, stamps'[b] = Stamp(q, g)
      PROVE  stamps'[b] # NoStamp /\ stamps'[b].generation = g /\ stamps'[b].buckets = List(q)
    <2>1. Stamp(q, g) \in AStamp
        BY <1>0, RolloutFacts DEF Stamp, AStamp, StampsOver
    <2> QED
        BY <1>0, <1>4, <2>1, RolloutFacts DEF Stamp
<1>5. StillThere'
    <2> SUFFICES ASSUME NEW q \in Starters, NEW b \in Where, NEW g \in Nat, Vouches(q, b, g)'
                 PROVE  /\ stamps'[b] # NoStamp /\ stamps'[b].generation >= g
                        /\ stamps'[b].generation = g => stamps'[b].buckets = List(q)
        BY <1>1 DEF StillThere
    <2> QED
        BY <1>2, <1>3, <1>4
<1>6. OneListSeen'
    <2> SUFFICES ASSUME NEW q \in Starters, NEW r \in Starters, NEW b \in Where, NEW g \in Nat,
                        Vouches(q, b, g)', Vouches(r, b, g)'
                 PROVE  List(q) = List(r)
        BY <1>1 DEF OneListSeen
    <2>1. CASE Vouches(q, b, g) /\ Vouches(r, b, g)
        BY <1>0, <2>1 DEF OneListSeen
    <2>2. CASE stamps'[b] = Stamp(q, g) \/ stamps'[b] = Stamp(r, g)
        <3>1. stamps'[b].generation = g
            BY <1>4, <2>2
        <3>2. stamps'[b].buckets = List(q)
            BY <1>2, <1>3, <1>4, <3>1
        <3>3. stamps'[b].buckets = List(r)
            BY <1>2, <1>3, <1>4, <3>1
        <3> QED
            BY <3>2, <3>3
    <2> QED
        BY <1>2, <2>1, <2>2
<1>7. AllAnswered'
    BY <1>0 DEF AllAnswered
<1> QED
    BY <1>5, <1>6, <1>7 DEF ListInv

LEMMA ListInvStep == TopologyInv /\ ListInv /\ [TopologyNext]_topologyVars => ListInv'
<1> SUFFICES ASSUME TopologyInv, ListInv, [TopologyNext]_topologyVars PROVE ListInv'
    OBVIOUS
<1>u. UNCHANGED rollout
    BY DEF TopologyNext, topologyVars, Begin, Verify, Migrate, Finish, Stop, ReadStamp, WriteStamp,
           SettleRace, Revalidate
<1> SUFFICES ASSUME rollout.silences = 0, UNCHANGED rollout PROVE ListInv'
    BY <1>u DEF ListInv
<1>0. /\ TopologyTypes /\ \A q \in Processes : Writing(q) /\ Running(q)
      /\ StillThere /\ OneListSeen /\ AllAnswered
    BY DEF TopologyInv, ListInv
<1>a. ~Hush
    BY <1>0 DEF Hush, TopologyTypes
<1>b. \A q \in Processes : List(q)' = List(q) /\ Members(q)' = Members(q)
    BY DEF List, Members
<1>c. \A q \in Processes, g \in Nat : Stamp(q, g)' = Stamp(q, g)
    BY <1>b DEF Stamp
<1>d. ASSUME NEW q \in Processes, NEW p, Becomes(q, p)
      PROVE  proc'[q] = p /\ \A r \in Starters : r # q => proc'[r] = proc[r]
    BY <1>0, <1>d DEF Becomes, TopologyTypes, Processes
<1>e. \A q \in Processes : proc[q] \in ProcType
    BY <1>0 DEF TopologyTypes
<1>f. ASSUME NEW q \in Starters, NEW b \in Members(q) PROVE b \in Where
    BY <1>0, RolloutFacts DEF Processes
<1>g. ASSUME NEW s \in AStamp, NEW q, NEW g, s.buckets = List(q), s.generation = g PROVE s = Stamp(q, g)
    BY <1>g DEF AStamp, StampsOver, Stamp
<1>1. ASSUME NEW q \in Processes, NEW p, Becomes(q, p), DOMAIN p.seen = {}, UNCHANGED stamps,
             p.at \in {"off", "read", "refused"}
      PROVE  ListInv'
    <2>1. \A b \in Where, g \in Nat : ~Vouches(q, b, g)'
        BY <1>1, <1>d DEF Vouches
    <2> QED
        BY <1>1, <1>d, <2>1, OneVouches
<1>2. ASSUME NEW q \in Processes, Begin(q) \/ Stop(q) \/ (Fails(q) /\ UNCHANGED stamps) PROVE ListInv'
    <2>1. DOMAIN Off.seen = {} /\ Off.at = "off"
        BY DEF Off
    <2>2. ASSUME NEW w PROVE /\ [Off EXCEPT !.at = w].at = w
                             /\ DOMAIN [Off EXCEPT !.at = w].seen = {}
        BY DEF Off
    <2> QED
        BY <1>1, <1>2, <2>1, <2>2 DEF Begin, Stop, Fails
<1>3. ASSUME NEW q \in Processes, NEW b \in Members(q), ReadStamp(q, b) PROVE ListInv'
    <2> DEFINE saw == [c \in DOMAIN proc[q].seen \cup {b} |-> IF c = b THEN stamps[b] ELSE proc[q].seen[c]]
    <2>1. proc[q].at = "read" /\ Becomes(q, [proc[q] EXCEPT !.seen = saw]) /\ UNCHANGED stamps
        BY <1>3, <1>a DEF ReadStamp
    <2>2. [proc[q] EXCEPT !.seen = saw].seen = saw /\ [proc[q] EXCEPT !.seen = saw].at = "read"
        BY <1>e, <2>1 DEF ProcType
    <2>3. proc'[q].seen = saw /\ proc'[q].at = "read"
        BY <1>d, <2>1, <2>2
    <2>4. ASSUME q \in Starters, NEW c \in Where, NEW g \in Nat, Vouches(q, c, g)'
          PROVE  Vouches(q, c, g) \/ stamps'[c] = Stamp(q, g)
        <3>1. c \in DOMAIN saw /\ saw[c] = Stamp(q, g)
            BY <1>c, <2>3, <2>4 DEF Vouches
        <3> QED
            BY <2>1, <3>1 DEF Vouches
    <2>5. ASSUME q \in Starters, NEW c \in DOMAIN saw PROVE saw[c] # Silent
        <3>1. b \in Where
            BY <1>f, <2>5
        <3>2. stamps[b] # Silent
            BY <1>0, <3>1, RolloutFacts DEF TopologyTypes
        <3> QED
            BY <1>0, <2>5, <3>2 DEF AllAnswered
    <2> HIDE DEF saw
    <2> QED
        BY <1>d, <2>1, <2>3, <2>4, <2>5, OneVouches
<1>4. ASSUME NEW q \in Processes, NEW T, NEW g \in Nat, UNCHANGED stamps,
             DOMAIN proc[q].seen = Members(q),
             q \in Starters => \A b \in Members(q) \ T : proc[q].seen[b] = Stamp(q, g),
             Becomes(q, [proc[q] EXCEPT !.at = "write", !.todo = T, !.target = Stamp(q, g)])
      PROVE  ListInv'
    <2> DEFINE p == [proc[q] EXCEPT !.at = "write", !.todo = T, !.target = Stamp(q, g)]
    <2>1. p.at = "write" /\ p.todo = T /\ p.target = Stamp(q, g) /\ p.seen = proc[q].seen
        BY <1>e DEF ProcType
    <2>2. proc'[q] = p /\ Stamp(q, g).generation = g
        BY <1>d, <1>4 DEF Stamp
    <2> HIDE DEF p
    <2>3. ASSUME q \in Starters, NEW b \in Where, NEW k \in Nat, Vouches(q, b, k)'
          PROVE  Vouches(q, b, k)
        BY <1>4, <1>b, <1>c, <2>1, <2>2, <2>3 DEF Vouches
    <2> QED
        BY <1>0, <1>4, <1>d, <2>1, <2>2, <2>3, OneVouches DEF AllAnswered
<1>5. ASSUME NEW q \in Processes, Verify(q) \/ Migrate(q) PROVE ListInv'
    <2>1. UNCHANGED stamps /\ DOMAIN proc[q].seen = Members(q)
        BY <1>5 DEF Verify, Migrate
    <2>2. Highest(q) \in Nat /\ \A b \in Stamped(q) : proc[q].seen[b] \in AStamp
        BY <1>0, <2>1, HighestFacts
    <2>3. q \in Starters => Answered(q) = Members(q)
        BY <1>0, <2>1 DEF AllAnswered, Answered
    <2>4. CASE Verify(q) /\ Acceptable(q)
        <3>1. ASSUME q \in Starters, NEW b \in Members(q) \ (Answered(q) \ Latest(q))
              PROVE  proc[q].seen[b] = Stamp(q, Highest(q))
            <4>1. b \in Latest(q)
                BY <2>3, <3>1
            <4>2. /\ proc[q].seen[b] \in AStamp /\ proc[q].seen[b].generation = Highest(q)
                  /\ proc[q].seen[b].buckets = List(q)
                BY <2>2, <2>4, <4>1 DEF Latest, Acceptable
            <4> QED
                BY <1>g, <4>2
        <3> QED
            BY <1>4, <2>1, <2>2, <2>4, <3>1 DEF Verify
    <2>5. CASE Migrate(q) /\ Answered(q) # {}
        <3>1. NextGeneration(q) \in Nat
            BY <2>2 DEF NextGeneration
        <3> QED
            BY <1>4, <2>1, <2>3, <2>5, <3>1 DEF Migrate
    <2> QED
        BY <1>2, <1>5, <2>1, <2>4, <2>5 DEF Verify, Migrate
<1>6. ASSUME NEW q \in Processes, NEW b \in Members(q), WriteStamp(q, b) PROVE ListInv'
    <2>1. /\ proc[q].at = "write" /\ b \in proc[q].todo
          /\ \/ /\ stamps' = [stamps EXCEPT ![b] = proc[q].target]
                /\ Becomes(q, [proc[q] EXCEPT !.todo = @ \ {b}])
             \/ /\ UNCHANGED stamps
                /\ Becomes(q, [proc[q] EXCEPT !.at = "raced", !.lost = {b}])
        BY <1>6, <1>a DEF WriteStamp
    <2>2. /\ b \in Where /\ proc[q].target \in AStamp /\ proc[q].target.buckets = List(q)
        BY <1>0, <2>1, RolloutFacts DEF Writing
    <2>3. CASE /\ stamps' = [stamps EXCEPT ![b] = proc[q].target]
               /\ Becomes(q, [proc[q] EXCEPT !.todo = @ \ {b}])
        <3> DEFINE p == [proc[q] EXCEPT !.todo = @ \ {b}]
        <3>1. /\ p.at = "write" /\ p.todo = proc[q].todo \ {b} /\ p.target = proc[q].target
              /\ p.seen = proc[q].seen
            BY <1>e, <2>1 DEF ProcType
        <3>2. proc'[q] = p
            BY <1>d, <2>3
        <3> HIDE DEF p
        <3>3. /\ stamps'[b] = proc[q].target
              /\ \A c \in Where : c # b => stamps'[c] = stamps[c]
            BY <1>0, <2>2, <2>3 DEF TopologyTypes
        <3>4. \A c \in Where : \/ stamps'[c] = stamps[c]
                              \/ /\ stamps'[c] \in AStamp
                                 /\ stamps[c] # NoStamp => stamps'[c].generation > stamps[c].generation
            BY <1>6, StampWritten
        <3>5. ASSUME q \in Starters, NEW c \in Where, NEW g \in Nat, Vouches(q, c, g)'
              PROVE  Vouches(q, c, g) \/ stamps'[c] = Stamp(q, g)
            <4>1. CASE c = b /\ proc[q].target.generation = g
                BY <1>g, <2>2, <3>3, <4>1
            <4>2. CASE ~(c = b /\ proc[q].target.generation = g)
                BY <1>b, <1>c, <2>1, <3>1, <3>2, <3>5, <4>2 DEF Vouches
            <4> QED
                BY <4>1, <4>2
        <3> QED
            BY <1>0, <1>d, <2>2, <2>3, <3>1, <3>2, <3>3, <3>4, <3>5, OneVouches DEF AllAnswered
    <2>4. CASE /\ UNCHANGED stamps
               /\ Becomes(q, [proc[q] EXCEPT !.at = "raced", !.lost = {b}])
        <3> DEFINE p == [proc[q] EXCEPT !.at = "raced", !.lost = {b}]
        <3>1. /\ p.at = "raced" /\ p.todo = proc[q].todo /\ p.target = proc[q].target
              /\ p.seen = proc[q].seen
            BY <1>e DEF ProcType
        <3>2. proc'[q] = p
            BY <1>d, <2>4
        <3> HIDE DEF p
        <3>3. ASSUME NEW c \in Where, NEW g \in Nat, Vouches(q, c, g)' PROVE Vouches(q, c, g)
            BY <1>b, <1>c, <2>1, <3>1, <3>2, <3>3 DEF Vouches
        <3> QED
            BY <1>0, <1>d, <2>4, <3>1, <3>2, <3>3, OneVouches DEF AllAnswered
    <2> QED
        BY <2>1, <2>3, <2>4
<1>7. ASSUME NEW q \in Processes, NEW b \in Members(q), SettleRace(q, b) PROVE ListInv'
    <2> DEFINE p == [proc[q] EXCEPT !.at = "write", !.todo = @ \ {b}, !.lost = {}]
    <2>1. /\ proc[q].at = "raced" /\ UNCHANGED stamps
          /\ Fails(q) \/ (Becomes(q, p) /\ stamps[b] = proc[q].target)
        BY <1>7, <1>a DEF SettleRace, SameStamp
    <2>2. CASE Becomes(q, p) /\ stamps[b] = proc[q].target
        <3>1. /\ p.at = "write" /\ p.todo = proc[q].todo \ {b} /\ p.target = proc[q].target
              /\ p.seen = proc[q].seen
            BY <1>e DEF ProcType
        <3>2. proc'[q] = p
            BY <1>d, <2>2
        <3> HIDE DEF p
        <3>3. proc[q].target \in AStamp /\ proc[q].target.buckets = List(q)
            BY <1>0, <2>1 DEF Writing
        <3>4. ASSUME q \in Starters, NEW c \in Where, NEW g \in Nat, Vouches(q, c, g)'
              PROVE  Vouches(q, c, g) \/ stamps'[c] = Stamp(q, g)
            <4>1. CASE c = b /\ proc[q].target.generation = g
                BY <1>g, <2>1, <2>2, <3>3, <4>1
            <4>2. CASE ~(c = b /\ proc[q].target.generation = g)
                BY <1>b, <1>c, <2>1, <3>1, <3>2, <3>4, <4>2 DEF Vouches
            <4> QED
                BY <4>1, <4>2
        <3> QED
            BY <1>0, <1>d, <2>1, <2>2, <3>1, <3>2, <3>4, OneVouches DEF AllAnswered
    <2> QED
        BY <1>2, <2>1, <2>2
<1>8. ASSUME NEW q \in Processes, Finish(q) PROVE ListInv'
    <2> DEFINE w == IF q \in Starters THEN "on" ELSE "done"
               p == [Off EXCEPT !.at = w, !.gen = SetGeneration(q)]
    <2>1. proc[q].at = "write" /\ proc[q].todo = {} /\ UNCHANGED stamps /\ Becomes(q, p)
        BY <1>8 DEF Finish
    <2>2. p.at = w /\ p.gen = proc[q].target.generation /\ DOMAIN p.seen = {}
        BY DEF Off, SetGeneration
    <2>3. proc'[q] = p
        BY <1>d, <2>1
    <2> HIDE DEF p
    <2>4. ASSUME q \in Starters, NEW c \in Where, NEW g \in Nat, Vouches(q, c, g)'
          PROVE  Vouches(q, c, g)
        BY <1>b, <2>1, <2>2, <2>3, <2>4 DEF Vouches
    <2> QED
        BY <1>d, <2>1, <2>2, <2>3, <2>4, OneVouches
<1>9. ASSUME NEW q \in Processes, NEW b \in Members(q), Revalidate(q, b) PROVE ListInv'
    <2>1. CASE UNCHANGED proc
        <3>1. \A c \in Where, g \in Nat : Vouches(q, c, g)' => Vouches(q, c, g)
            BY <1>b, <1>c, <2>1 DEF Vouches
        <3>2. \A c \in Where : \/ stamps'[c] = stamps[c]
                              \/ /\ stamps'[c] \in AStamp
                                 /\ stamps[c] # NoStamp => stamps'[c].generation > stamps[c].generation
            BY <1>9, StampWritten
        <3> QED
            BY <1>0, <2>1, <3>1, <3>2, OneVouches DEF AllAnswered
    <2>2. CASE Becomes(q, [proc[q] EXCEPT !.at = "fenced"]) /\ UNCHANGED stamps
        <3> DEFINE p == [proc[q] EXCEPT !.at = "fenced"]
        <3>1. p.at = "fenced" /\ p.seen = proc[q].seen
            BY <1>e DEF ProcType
        <3>2. proc'[q] = p
            BY <1>d, <2>2
        <3> HIDE DEF p
        <3>3. ASSUME NEW c \in Where, NEW g \in Nat, Vouches(q, c, g)' PROVE Vouches(q, c, g)
            BY <1>c, <3>1, <3>2, <3>3 DEF Vouches
        <3> QED
            BY <1>0, <1>d, <2>2, <3>1, <3>2, <3>3, OneVouches DEF AllAnswered
    <2> QED
        BY <1>9, <2>1, <2>2 DEF Revalidate
<1>10. CASE UNCHANGED topologyVars
    BY <1>0, <1>10 DEF topologyVars, ListInv, StillThere, OneListSeen, AllAnswered, Vouches, List, Members,
                       Stamp, Where
<1> QED
    BY <1>2, <1>3, <1>5, <1>6, <1>7, <1>8, <1>9, <1>10 DEF TopologyNext

(* Where every bucket answers, two nodes that run under one generation over a common  *)
(* bucket run under one list, whatever was read, written and raced bucket by bucket,  *)
(* restarted or migrated in between (buckets.rs verify_topology_with).                *)
THEOREM TopologySafeHolds == TopologySpec => [](rollout.silences = 0 => TopologySafe)
<1>1. TopologyInv => TopologyTypeOK
    <2> SUFFICES ASSUME TopologyInv PROVE TopologyTypeOK
        OBVIOUS
    <2>1. silences \in 0 .. MaxSilences
        BY RolloutFacts, TopologyAssumption DEF TopologyInv, TopologyTypes
    <2> QED
        BY <2>1 DEF TopologyInv, TopologyTypes, ProcType, Writing, Running, TopologyTypeOK
<1>2. TopologyInv /\ ListInv /\ rollout.silences = 0 => OneList
    <2> SUFFICES ASSUME TopologyInv, ListInv, rollout.silences = 0, NEW q \in Starters, NEW r \in Starters,
                        proc[q].at = "on", proc[r].at = "on", proc[q].gen = proc[r].gen,
                        NEW b \in Members(q) \cap Members(r)
                 PROVE  List(q) = List(r)
        BY DEF OneList
    <2>1. b \in Where /\ proc[q].gen \in Nat
        BY RolloutFacts DEF TopologyInv, Running, Processes
    <2>2. Vouches(q, b, proc[q].gen) /\ Vouches(r, b, proc[q].gen)
        BY DEF Vouches
    <2> QED
        BY <2>1, <2>2 DEF ListInv, OneListSeen
<1>3. TopologySpec => []ListInv
    BY ListInvInit, ListInvStep, TopologyInvCorrect, PTL DEF TopologySpec
<1>4. TopologyInv /\ ListInv => (rollout.silences = 0 => TopologySafe)
    BY <1>1, <1>2 DEF TopologySafe
<1> QED
    BY <1>3, <1>4, TopologyInvCorrect, PTL

-----------------------------------------------------------------------------
(* The transparency chain (Transparency): the inductive invariant.         *)

\* The bucket whose create-if-absent decides every seq.
Arb == Min(Replicas)
Held == Seqs(Arb)
Link(s) == chains[Arb][s]
Names(s, p) == s \in Held /\ p \in DOMAIN Link(s).packages

\* The order in which the states of a file come: later shas, and last its deletion.
Upto(v, u) == u = 0 \/ (v # 0 /\ v <= u)

Deltas == UNION {[S -> Sha] : S \in SUBSET Packages}
\* The records of an audit, over any set of links.
WalkRecord(L) ==
    [at : Steps, head : L, delta : Deltas, pending : Deltas, todo : SUBSET Replicas,
     ours : SUBSET Nat, pull : SUBSET Nat, push : SUBSET Nat, synced : SUBSET Replicas,
     defer : BOOLEAN, link : L]

WalkTyped(w) == \E L : w \in WalkRecord(L)

ChainTyped ==
    /\ view \in Fleets /\ shas \in [Packages -> Sha] /\ certs \in [Replicas -> [Packages -> Sha]]
    /\ pins \in [Auditors -> Replicas] /\ lapses \in 0..MaxLapses
    /\ chains = [b \in Replicas |-> chains[b]]
    /\ \A b \in Replicas : Seqs(b) \in SUBSET Nat /\ IsFiniteSet(Seqs(b))
    /\ walks = [n \in Auditors |-> walks[n]]
    /\ \A n \in Auditors : WalkTyped(walks[n])

\* Every link is the arbiter's, whose chain has no hole.
OneChain ==
    /\ \A b \in Replicas : \A s \in Seqs(b) : s \in Held /\ chains[b][s] = Link(s)
    /\ \A s \in Held : Link(s).seq = s /\ Link(s).packages \in Deltas
    /\ \A s \in Held, t \in Nat : t < s => t \in Held

\* What the chain and the fingerprints say was true of the package once, and the
\* first link names every package that is not gone by now.
Truthful ==
    /\ \A s \in Held, p \in Packages : Names(s, p) => Upto(Link(s).packages[p], shas[p])
    /\ \A b \in Replicas, p \in Packages : Upto(certs[b][p], shas[p])
    /\ \A p \in Packages : Held # {} => Names(0, p) \/ shas[p] = 0

\* The last link that names a package says v; no link does and v is a deletion.
LastSays(p, v) ==
    /\ \A s \in Held : Names(s, p) /\ (\A t \in Held : t > s => ~Names(t, p)) => Link(s).packages[p] = v
    /\ (\A s \in Held : ~Names(s, p)) => v = 0
\* A fingerprint that stands for the truth stands for what is committed.
Backs(v, p) == v = shas[p] => LastSays(p, v)

CertsVouch == IF Held = {} THEN \A b \in Replicas, p \in Packages : certs[b][p] = 1
              ELSE \A b \in Replicas, p \in Packages : Backs(certs[b][p], p)

Audits == {"list", "peers", "pull", "push", "head", "cas"}

\* The head an audit walked from is the arbiter's, or stands before the first link.
Fenced(w) ==
    w.at \in Audits \cup {"walk"} =>
        \/ w.head = NoLink
        \/ w.head.seq \in Held /\ w.head = Link(w.head.seq)
        \/ w.head = Unread /\ w.at = "walk"

\* What the walk read: no link up to its head says anything later of a package,
\* and from an empty chain no package that holds files is missing.
Read(w) ==
    w.at \in Audits =>
        /\ \A p \in DOMAIN w.delta : Upto(w.delta[p], shas[p])
        /\ \A p \in DOMAIN w.pending : /\ Upto(w.pending[p], shas[p])
                                       /\ \/ p \in DOMAIN w.delta /\ w.delta[p] = w.pending[p]
                                          \/ p \notin DOMAIN w.delta /\ w.head = NoLink /\ w.pending[p] = 0
        /\ \A s \in Held, p \in DOMAIN w.delta :
              s <= w.head.seq /\ Names(s, p) => Upto(Link(s).packages[p], w.delta[p])
        /\ \A p \in DOMAIN w.delta : w.head # NoLink => Names(0, p) \/ w.delta[p] = 0
        /\ \A p \in Packages : w.head = NoLink => p \in DOMAIN w.delta \/ shas[p] = 0

\* An audit appends only when it found every bucket in step.
InStep(w) ==
    /\ w.at \in {"peers", "pull", "push"} => w.defer \/ w.synced \cup w.todo = Replicas
    /\ w.at \in {"head", "cas", "mirror"} => w.synced = Replicas
    /\ w.at \in {"pull", "push", "mirror"} => w.todo # {}

Copies(n, w) ==
    /\ w.at \in {"peers", "pull", "push"} => w.ours \subseteq Seqs(pins[n])
    /\ w.at \in {"pull", "push"} => w.pull \subseteq Seqs(Min(w.todo)) /\ w.push \subseteq Seqs(pins[n])
    /\ w.at = "pull" => w.pull # {}
    /\ w.at = "push" => w.push # {}

Appends(w) ==
    /\ w.at \in {"cas", "mirror"} => w.link.prev = w.head
    /\ w.at = "cas" => w.link.seq = w.head.seq + 1 /\ w.link.packages = w.delta
    /\ w.at = "mirror" => w.link.seq \in Held /\ w.link = Link(w.link.seq)
    /\ w.at \in {"mirror", "certify"} =>
          /\ Held # {}
          /\ \A p \in DOMAIN w.pending : Upto(w.pending[p], shas[p]) /\ Backs(w.pending[p], p)

AuditInv(n) ==
    Fenced(walks[n]) /\ Read(walks[n]) /\ InStep(walks[n]) /\ Copies(n, walks[n]) /\ Appends(walks[n])

ChainInv == ChainTyped /\ OneChain /\ Truthful /\ CertsVouch /\ \A n \in Auditors : AuditInv(n)

-----------------------------------------------------------------------------
(* What a step leaves alone.                                               *)

LEMMA ArbFact ==
    Arb \in Replicas /\ Arb \in Nat /\ \A b \in Replicas : Arb <= b
    BY TransparencyAssumption, MinFact DEF Arb

LEMMA ShaFact == MaxShas \in Nat /\ Sha \subseteq Nat /\ 0 \in Sha
    BY TransparencyAssumption DEF Sha

\* Upto is a partial order.
LEMMA UptoOrder ==
    /\ \A v \in Sha : Upto(v, v)
    /\ \A u, v, x \in Sha : Upto(u, v) /\ Upto(v, x) => Upto(u, x)
    /\ \A u, v \in Sha : Upto(u, v) /\ Upto(v, u) => u = v
    BY ShaFact DEF Upto

LEMMA DeltaFact ==
    ASSUME NEW d \in Deltas
    PROVE  DOMAIN d \subseteq Packages /\ \A p \in DOMAIN d : d[p] \in Sha
    BY DEF Deltas

\* Chains only grow at their end and truth only goes on.
Grown ==
    /\ Held \subseteq Held' /\ Held' \subseteq Nat
    /\ \A s \in Held : Link(s)' = Link(s)
    /\ \A s \in Held' : s \notin Held => \A t \in Held : t < s
    /\ \A b \in Replicas : Seqs(b) \subseteq Seqs(b)'
    /\ shas' \in [Packages -> Sha]
    /\ \A p \in Packages : Upto(shas[p], shas'[p]) /\ (shas[p] = 0 => shas'[p] = 0)
\* What stands for the truth still does.
StillBacked ==
    Held # {} => \A p \in Packages, v \in Sha : Upto(v, shas[p]) /\ Backs(v, p) => Backs(v, p)'

LEMMA OthersAudit ==
    ASSUME ChainInv, NEW m \in Auditors, Grown, StillBacked, walks'[m] = walks[m], pins'[m] = pins[m]
    PROVE  AuditInv(m)'
<1>0. PICK w : w = walks[m] /\ w = walks'[m]
    OBVIOUS
<1>1. /\ AuditInv(m) /\ w.delta \in Deltas /\ w.pending \in Deltas /\ w.todo \in SUBSET Replicas
      /\ pins[m] \in Replicas /\ shas \in [Packages -> Sha] /\ Held \subseteq Nat
    <2>1. WalkTyped(w)
        BY <1>0 DEF ChainInv, ChainTyped
    <2>2. PICK L : w \in WalkRecord(L)
        BY <2>1 DEF WalkTyped
    <2>3. Held \subseteq Nat
        BY ArbFact DEF ChainInv, ChainTyped, Held
    <2> QED
        BY <2>2, <2>3 DEF WalkRecord, ChainInv, ChainTyped
<1>2. /\ DOMAIN w.delta \subseteq Packages /\ DOMAIN w.pending \subseteq Packages
      /\ \A p \in DOMAIN w.delta : w.delta[p] \in Sha
      /\ \A p \in DOMAIN w.pending : w.pending[p] \in Sha
    BY <1>1, DeltaFact
<1>3. Fenced(w) /\ Read(w) /\ InStep(w) /\ Copies(m, w) /\ Appends(w) /\ walks'[m] = w
    BY <1>0, <1>1 DEF AuditInv
<1>4. \A p \in Packages, v \in Sha : Upto(v, shas[p]) => Upto(v, shas'[p])
    BY <1>1, UptoOrder DEF Grown
<1>5. Fenced(walks[m])'
    BY <1>3 DEF Fenced, Grown
<1>6. \A s \in Held, p \in Packages : Names(s, p)' <=> Names(s, p)
    BY DEF Names, Grown
<1>7. Read(walks[m])'
    <2> SUFFICES ASSUME w.at \in Audits
                 PROVE  /\ \A p \in DOMAIN w.delta : Upto(w.delta[p], shas'[p])
                        /\ \A p \in DOMAIN w.pending :
                              /\ Upto(w.pending[p], shas'[p])
                              /\ \/ p \in DOMAIN w.delta /\ w.delta[p] = w.pending[p]
                                 \/ p \notin DOMAIN w.delta /\ w.head = NoLink /\ w.pending[p] = 0
                        /\ \A s \in Held', p \in DOMAIN w.delta :
                              s <= w.head.seq /\ Names(s, p)' => Upto(Link(s)'.packages[p], w.delta[p])
                        /\ \A p \in DOMAIN w.delta : w.head # NoLink => Names(0, p)' \/ w.delta[p] = 0
                        /\ \A p \in Packages : w.head = NoLink => p \in DOMAIN w.delta \/ shas'[p] = 0
        BY <1>3 DEF Read
    <2>1. \A p \in DOMAIN w.delta : Upto(w.delta[p], shas'[p])
        BY <1>2, <1>3, <1>4 DEF Read
    <2>2. \A p \in DOMAIN w.pending :
              /\ Upto(w.pending[p], shas'[p])
              /\ \/ p \in DOMAIN w.delta /\ w.delta[p] = w.pending[p]
                 \/ p \notin DOMAIN w.delta /\ w.head = NoLink /\ w.pending[p] = 0
        BY <1>2, <1>3, <1>4 DEF Read
    <2>3. ASSUME NEW s \in Held', NEW p \in DOMAIN w.delta, s <= w.head.seq, Names(s, p)'
          PROVE  Upto(Link(s)'.packages[p], w.delta[p])
        <3>1. w.head.seq \in Held \/ w.head.seq = -1
            BY <1>3 DEF Fenced, Audits, NoLink
        <3>2. s \in Nat /\ s \in Held
            <4>0. PICK h : h = w.head.seq
                OBVIOUS
            <4>1. s \in Nat /\ s <= h /\ (s \notin Held => \A t \in Held : t < s)
                BY <2>3, <4>0 DEF Grown
            <4>2. CASE h \in Held
                <5>1. h \in Nat
                    BY <1>1, <4>2
                <5>2. ~(h < s)
                    BY <4>1, <5>1
                <5> QED
                    BY <4>1, <4>2, <5>2
            <4>3. CASE h = -1
                BY <4>1, <4>3
            <4> QED
                BY <3>1, <4>0, <4>2, <4>3
        <3>3. p \in Packages /\ Link(s)' = Link(s)
            BY <1>2, <3>2 DEF Grown
        <3>4. Names(s, p)
            BY <1>6, <2>3, <3>2, <3>3
        <3>5. Upto(Link(s).packages[p], w.delta[p])
            BY <1>3, <2>3, <3>2, <3>4 DEF Read
        <3> QED
            BY <3>3, <3>5
    <2>4. \A p \in DOMAIN w.delta : w.head # NoLink => Names(0, p)' \/ w.delta[p] = 0
        BY <1>2, <1>3, <1>6 DEF Read, Names
    <2>5. \A p \in Packages : w.head = NoLink => p \in DOMAIN w.delta \/ shas'[p] = 0
        BY <1>3 DEF Read, Grown
    <2> QED
        BY <2>1, <2>2, <2>3, <2>4, <2>5
<1>8. InStep(walks[m])'
    BY <1>3 DEF InStep
<1>9. Copies(m, walks[m])'
    <2>1. w.todo # {} => Min(w.todo) \in Replicas
        <3> SUFFICES ASSUME w.todo # {} PROVE Min(w.todo) \in Replicas
            OBVIOUS
        <3>1. w.todo \in SUBSET Nat
            BY <1>1, TransparencyAssumption
        <3> QED
            BY <1>1, <3>1, MinFact
    <2> QED
        BY <1>1, <1>3, <2>1 DEF Copies, Grown, InStep
<1>10. Appends(walks[m])'
    BY <1>1, <1>2, <1>3, <1>4 DEF Appends, Grown, StillBacked
<1> QED
    BY <1>5, <1>7, <1>8, <1>9, <1>10 DEF AuditInv

\* A step of one audit: what is left to show.
LEMMA AuditKeeps ==
    ASSUME ChainInv, NEW n \in Auditors, Grown, StillBacked,
           \A m \in Auditors \ {n} : walks'[m] = walks[m] /\ pins'[m] = pins[m],
           ChainTyped', OneChain', Truthful', CertsVouch', AuditInv(n)'
    PROVE  ChainInv'
<1>1. \A m \in Auditors \ {n} : AuditInv(m)'
    BY OthersAudit
<1> QED
    BY <1>1 DEF ChainInv

-----------------------------------------------------------------------------
(* Steps that append nothing.                                              *)

LEMMA WalkFields ==
    ASSUME NEW w, WalkTyped(w)
    PROVE  /\ w.at \in Steps /\ w.delta \in Deltas /\ w.pending \in Deltas
           /\ w.todo \subseteq Replicas /\ w.synced \subseteq Replicas
           /\ w.ours \subseteq Nat /\ w.pull \subseteq Nat /\ w.push \subseteq Nat
           /\ w.defer \in BOOLEAN
<1>1. PICK L : w \in WalkRecord(L)
    BY DEF WalkTyped
<1> QED
    BY <1>1 DEF WalkRecord

LEMMA NumberFact == Replicas \subseteq Nat /\ \A S \in SUBSET Replicas : S # {} => Min(S) \in S
<1>1. Replicas \subseteq Nat
    BY TransparencyAssumption
<1>2. ASSUME NEW S \in SUBSET Replicas, S # {}
      PROVE  Min(S) \in S
    BY <1>1, <1>2, MinFact
<1> QED
    BY <1>1, <1>2

\* The links and what they commit stay as they are.
Kept ==
    /\ view' = view /\ shas' = shas /\ certs' = certs /\ pins' = pins
    /\ lapses' \in 0..MaxLapses
    /\ chains' = [b \in Replicas |-> chains'[b]]
    /\ \A b \in Replicas :
          /\ Seqs(b) \subseteq Seqs(b)' /\ Seqs(b)' \subseteq Held /\ IsFiniteSet(Seqs(b)')
          /\ \A s \in Seqs(b)' : chains'[b][s] = Link(s)
    /\ Held' = Held /\ \A s \in Held : Link(s)' = Link(s)

LEMMA HeldFact ==
    ASSUME ChainInv
    PROVE  Held \subseteq Nat /\ IsFiniteSet(Held) /\ shas \in [Packages -> Sha]
    BY ArbFact DEF ChainInv, ChainTyped, Held

\* What an audit is after a step.
Fit(w) == WalkTyped(w) /\ Fenced(w) /\ Read(w) /\ InStep(w) /\ Appends(w)

LEMMA KeptFits ==
    ASSUME ChainInv, Kept, NEW w, Fit(w)
    PROVE  Fenced(w)' /\ Read(w)' /\ InStep(w)' /\ Appends(w)'
<1>0. Fenced(w) /\ Read(w) /\ InStep(w) /\ Appends(w) /\ DOMAIN w.pending \subseteq Packages
    BY WalkFields, DeltaFact DEF Fit
<1>1. \A s, p : Names(s, p)' <=> Names(s, p)
    BY DEF Names, Kept
<1>2. \A v : \A p \in Packages : Backs(v, p)' <=> Backs(v, p)
    BY <1>1 DEF Backs, LastSays, Names, Kept
<1>3. Fenced(w)'
    BY <1>0 DEF Fenced, Kept
<1>4. Read(w)'
    BY <1>0, <1>1 DEF Read, Kept
<1>5. InStep(w)'
    BY <1>0 DEF InStep
<1>6. Appends(w)'
    BY <1>0, <1>2 DEF Appends, Kept
<1> QED
    BY <1>3, <1>4, <1>5, <1>6

LEMMA KeptChain ==
    ASSUME ChainInv, Kept
    PROVE  OneChain' /\ Truthful' /\ CertsVouch' /\ Grown /\ StillBacked
<1>1. \A s, p : Names(s, p)' <=> Names(s, p)
    BY DEF Names, Kept
<1>2. \A v : \A p \in Packages : Backs(v, p)' <=> Backs(v, p)
    BY <1>1 DEF Backs, LastSays, Names, Kept
<1>3. OneChain'
    BY DEF ChainInv, OneChain, Kept
<1>4. Truthful'
    BY <1>1 DEF ChainInv, Truthful, Kept
<1>5. CertsVouch'
    BY <1>2 DEF ChainInv, CertsVouch, Kept
<1>6. Grown
    BY HeldFact, UptoOrder DEF Grown, Kept
<1>7. StillBacked
    BY <1>2 DEF StillBacked
<1> QED
    BY <1>3, <1>4, <1>5, <1>6, <1>7

\* A step of one audit that appends nothing.
LEMMA Carried ==
    ASSUME ChainInv, Kept, NEW n \in Auditors, NEW w, Goes(n, w), Fit(w), Copies(n, w)'
    PROVE  ChainInv'
<1>1. walks'[n] = w /\ \A m \in Auditors \ {n} : walks'[m] = walks[m] /\ pins'[m] = pins[m]
    BY DEF ChainInv, ChainTyped, Goes, Kept
<1>2. WalkTyped(w) /\ \A m \in Auditors : WalkTyped(walks[m])
    BY DEF Fit, ChainInv, ChainTyped
<1>3. ChainTyped'
    <2>1. walks' = [m \in Auditors |-> walks'[m]]
        BY DEF ChainInv, ChainTyped, Goes
    <2>2. \A m \in Auditors : WalkTyped(walks'[m])
        BY <1>1, <1>2
    <2>3. WalkTyped(walks[n])' <=> WalkTyped(walks'[n])
        BY DEF WalkTyped
    <2> QED
        BY <2>1, <2>2, HeldFact DEF ChainInv, ChainTyped, Kept, WalkTyped
<1>4. AuditInv(n)'
    BY <1>1, KeptFits DEF AuditInv
<1> QED
    BY <1>1, <1>3, <1>4, KeptChain, AuditKeeps

LEMMA LapseFact ==
    ASSUME ChainInv, lapses' = lapses \/ Lapse
    PROVE  lapses' \in 0..MaxLapses
<1>1. view \in Fleet /\ lapses \in 0..MaxLapses /\ MaxLapses \in Nat
    BY TransparencyAssumption DEF ChainInv, ChainTyped
<1>2. view.lapses \in 0..MaxLapses
    BY <1>1 DEF Fleet
<1> QED
    BY <1>1, <1>2 DEF Lapse

LEMMA KeptStill ==
    ASSUME ChainInv, ReadOnly, lapses' = lapses \/ Lapse
    PROVE  Kept
<1>1. /\ view' = view /\ shas' = shas /\ certs' = certs /\ pins' = pins /\ chains' = chains
      /\ lapses' \in 0..MaxLapses
    BY LapseFact DEF ReadOnly
<1>2. \A b : Seqs(b)' = Seqs(b)
    BY <1>1 DEF Seqs
<1>3. Held' = Held /\ \A s : Link(s)' = Link(s)
    BY <1>1, <1>2 DEF Held, Link, Arb
<1> QED
    BY <1>1, <1>2, <1>3 DEF Kept, ChainInv, ChainTyped, OneChain

\* What put_link makes of the chains.
LEMMA PutFact ==
    ASSUME ChainInv, NEW b \in Replicas, NEW link, link.seq \in Nat, chains' = put_link(b, link)
    PROVE  /\ chains' = [c \in Replicas |-> chains'[c]]
           /\ \A c \in Replicas \ {b} : chains'[c] = chains[c]
           /\ Seqs(b)' = Seqs(b) \cup {link.seq}
           /\ \A s \in Seqs(b) : chains'[b][s] = chains[b][s]
           /\ link.seq \notin Seqs(b) => chains'[b][link.seq] = link
           /\ \A c \in Replicas : IsFiniteSet(Seqs(c)')
<1>1. chains = [c \in Replicas |-> chains[c]] /\ \A c \in Replicas : IsFiniteSet(Seqs(c))
    BY DEF ChainInv, ChainTyped
<1>2. /\ chains' = [c \in Replicas |-> chains'[c]]
      /\ \A c \in Replicas \ {b} : chains'[c] = chains[c]
      /\ chains'[b] = [s \in Seqs(b) \cup {link.seq} |-> IF s \in Seqs(b) THEN chains[b][s] ELSE link]
    BY <1>1 DEF put_link
<1>3. Seqs(b)' = Seqs(b) \cup {link.seq} /\ \A c \in Replicas \ {b} : Seqs(c)' = Seqs(c)
    BY <1>2 DEF Seqs
<1>4. IsFiniteSet(Seqs(b) \cup {link.seq})
    BY <1>1, FS_AddElement
<1> QED
    BY <1>1, <1>2, <1>3, <1>4

LEMMA KeptCopy ==
    ASSUME ChainInv, NEW b \in Replicas, NEW s \in Held, chains' = put_link(b, Link(s)),
           view' = view /\ shas' = shas /\ certs' = certs /\ pins' = pins,
           lapses' = lapses \/ Lapse
    PROVE  Kept /\ s \in Seqs(b)'
<1>0. Link(s).seq = s /\ Link(s).seq \in Nat /\ lapses' \in 0..MaxLapses
    BY LapseFact, HeldFact DEF ChainInv, OneChain
<1>1. /\ chains' = [c \in Replicas |-> chains'[c]]
      /\ \A c \in Replicas \ {b} : chains'[c] = chains[c]
      /\ Seqs(b)' = Seqs(b) \cup {s}
      /\ \A t \in Seqs(b) : chains'[b][t] = chains[b][t]
      /\ s \notin Seqs(b) => chains'[b][s] = Link(s)
      /\ \A c \in Replicas : IsFiniteSet(Seqs(c)')
    BY <1>0, PutFact
<1>2. \A c \in Replicas : Seqs(c) \subseteq Held /\ \A t \in Seqs(c) : chains[c][t] = Link(t)
    BY DEF ChainInv, OneChain
<1>3. \A c \in Replicas \ {b} : Seqs(c)' = Seqs(c)
    BY <1>1 DEF Seqs
<1>4. \A c \in Replicas :
          /\ Seqs(c) \subseteq Seqs(c)' /\ Seqs(c)' \subseteq Held
          /\ \A t \in Seqs(c)' : chains'[c][t] = Link(t)
    BY <1>1, <1>2, <1>3
<1>5. Held' = Held /\ \A t \in Held : Link(t)' = Link(t)
    BY <1>4, ArbFact DEF Held, Link, Arb
<1> QED
    BY <1>0, <1>1, <1>4, <1>5 DEF Kept

LEMMA NoDeltaFact == NoDelta \in Deltas /\ DOMAIN NoDelta = {}
<1>1. NoDelta \in [{} -> Sha] /\ {} \in SUBSET Packages
    BY DEF NoDelta
<1> QED
    BY <1>1 DEF Deltas, NoDelta

LEMMA RestFact ==
    Fit(Rest) /\ \A n \in Auditors : Copies(n, Rest) /\ Copies(n, Rest)'
<1>1. Rest \in WalkRecord({NoLink}) /\ Rest.at = "idle"
    BY NoDeltaFact DEF Rest, WalkRecord, Steps
<1>2. WalkTyped(Rest)
    BY <1>1 DEF WalkTyped
<1> QED
    BY <1>1, <1>2 DEF Fit, Fenced, Read, InStep, Appends, Copies, Audits

\* An audit that stops.
LEMMA Quitting ==
    ASSUME ChainInv, NEW n \in Auditors, Quits(n), ReadOnly, lapses' = lapses \/ Lapse
    PROVE  ChainInv'
    BY KeptStill, RestFact, Carried DEF Quits

\* Fields that an audit carries along once it has walked.
LEMMA SameWalk ==
    ASSUME NEW w, NEW v, Fenced(w), Read(w), w.at \in Audits, v.at \in Audits,
           v.head = w.head, v.delta = w.delta, v.pending = w.pending
    PROVE  Fenced(v) /\ Read(v)
<1>1. Fenced(v)
    BY DEF Fenced, Audits
<1>2. Read(v)
    BY DEF Read
<1> QED
    BY <1>1, <1>2

-----------------------------------------------------------------------------
(* The steps of an audit.                                                  *)

\* The head of a bucket's chain.
LEMMA HeadFact ==
    ASSUME ChainInv, NEW b \in Replicas
    PROVE  \/ head_of(b) = NoLink /\ Seqs(b) = {}
           \/ head_of(b).seq \in Held /\ head_of(b) = Link(head_of(b).seq)
<1>1. Seqs(b) \in SUBSET Nat /\ IsFiniteSet(Seqs(b))
    BY DEF ChainInv, ChainTyped
<1>2. CASE Seqs(b) = {}
    BY <1>2 DEF head_of
<1>3. CASE Seqs(b) # {}
    <2>1. Max(Seqs(b)) \in Seqs(b)
        BY <1>1, <1>3, MaxFact
    <2>2. Max(Seqs(b)) \in Held /\ head_of(b) = Link(Max(Seqs(b)))
        BY <1>3, <2>1 DEF head_of, ChainInv, OneChain
    <2>3. head_of(b).seq = Max(Seqs(b))
        BY <2>2 DEF ChainInv, OneChain
    <2> QED
        BY <2>2, <2>3
<1> QED
    BY <1>2, <1>3

LEMMA LinkFact ==
    ASSUME ChainInv
    PROVE  /\ NoLink # Unread /\ NoLink.seq = -1 /\ Unread.seq = -2
           /\ \A s \in Held : Link(s).seq = s /\ Link(s) # NoLink /\ Link(s) # Unread
<1>1. NoLink.seq = -1 /\ Unread.seq = -2 /\ NoLink # Unread
    BY DEF NoLink, Unread
<1>2. ASSUME NEW s \in Held PROVE Link(s).seq = s /\ Link(s) # NoLink /\ Link(s) # Unread
    <2>1. Link(s).seq = s /\ s \in Nat
        BY HeldFact DEF ChainInv, OneChain
    <2> QED
        BY <1>1, <2>1
<1> QED
    BY <1>1, <1>2

\* The audits of a state.
LEMMA AuditFacts ==
    ASSUME ChainInv, NEW n \in Auditors
    PROVE  /\ WalkTyped(walks[n]) /\ Fit(walks[n]) /\ Copies(n, walks[n])
           /\ pins[n] \in Replicas
    BY DEF ChainInv, ChainTyped, AuditInv, Fit

LEMMA BeginAuditKeeps ==
    ASSUME ChainInv, NEW n \in Auditors, BeginAudit(n)
    PROVE  ChainInv'
<1>1. ASSUME NEW h, h = Unread \/ h = WalkHead(n), Goes(n, [Rest EXCEPT !.at = "walk", !.head = h])
      PROVE  ChainInv'
    <2>0. PICK w : w = [Rest EXCEPT !.at = "walk", !.head = h]
        OBVIOUS
    <2>1. WalkTyped(w) /\ w.at = "walk" /\ w.head = h
        <3>1. w \in WalkRecord({NoLink, h}) /\ w.at = "walk" /\ w.head = h
            BY <2>0, NoDeltaFact DEF Rest, WalkRecord, Steps
        <3> QED
            BY <3>1 DEF WalkTyped
    <2>2. Fit(w)
        BY <1>1, <2>1, AuditFacts, HeadFact DEF WalkHead, Fit, Fenced, Read, InStep, Appends, Audits
    <2>3. Copies(n, w)'
        BY <2>1 DEF Copies
    <2>4. Kept
        BY KeptStill DEF BeginAudit
    <2> QED
        BY <1>1, <2>0, <2>2, <2>3, <2>4, Carried
<1> QED
    BY <1>1 DEF BeginAudit

LEMMA WalkKeeps ==
    ASSUME ChainInv, NEW n \in Auditors, Walk(n)
    PROVE  ChainInv'
<1>0. PICK w : w = walks[n]
    OBVIOUS
<1>1. CASE w.head = Unread
    BY <1>0, <1>1, Quitting DEF Walk
<1>2. CASE w.head # Unread
    <2>0. PICK pend, delta, v :
              /\ pend = Observed(Churned(n)) /\ delta = Observed(Checkpointed(n, w.head))
              /\ v = [w EXCEPT !.at = "list", !.pending = pend, !.delta = delta]
        OBVIOUS
    <2>1. Goes(n, v) /\ w.at = "walk"
        BY <1>0, <1>2, <2>0 DEF Walk
    <2>2. Fit(w) /\ shas \in [Packages -> Sha]
        BY <1>0, AuditFacts, HeldFact
    <2>3. pend \in Deltas /\ delta \in Deltas
        <3>1. Churned(n) \in SUBSET Packages /\ Checkpointed(n, w.head) \in SUBSET Packages
            BY DEF Churned, Checkpointed
        <3>2. \A S \in SUBSET Packages : Observed(S) \in [S -> Sha]
            BY <2>2 DEF Observed
        <3> QED
            BY <2>0, <3>1, <3>2 DEF Deltas
    <2>4. /\ WalkTyped(v) /\ v.at = "list" /\ v.head = w.head /\ v.delta = delta /\ v.pending = pend
        <3>1. PICK L : w \in WalkRecord(L)
            BY <2>2 DEF Fit, WalkTyped
        <3>2. /\ v \in WalkRecord(L) /\ v.at = "list" /\ v.head = w.head /\ v.delta = delta
              /\ v.pending = pend
            BY <2>0, <2>3, <3>1 DEF WalkRecord, Steps
        <3> QED
            BY <3>2 DEF WalkTyped
    <2>5. /\ DOMAIN pend = Churned(n) /\ DOMAIN delta = Checkpointed(n, w.head)
          /\ \A p \in DOMAIN pend : p \in Packages /\ pend[p] = shas[p]
          /\ \A p \in DOMAIN delta : p \in Packages /\ delta[p] = shas[p]
        BY <2>0 DEF Observed, Churned, Checkpointed
    <2>6. Fenced(v)
        BY <1>2, <2>1, <2>2, <2>4 DEF Fit, Fenced
    <2>7. Read(v)
        <3>1. \A p \in Packages : Upto(shas[p], shas[p]) /\ shas[p] \in Sha
            BY <2>2, UptoOrder
        <3>2. /\ \A p \in DOMAIN delta : Upto(delta[p], shas[p])
              /\ \A p \in DOMAIN pend : Upto(pend[p], shas[p])
            BY <2>5, <3>1
        <3>3. \A p \in DOMAIN pend :
                 \/ p \in DOMAIN delta /\ delta[p] = pend[p]
                 \/ p \notin DOMAIN delta /\ w.head = NoLink /\ pend[p] = 0
            BY <2>5 DEF Checkpointed
        <3>4. \A s \in Held, p \in DOMAIN delta :
                 s <= w.head.seq /\ Names(s, p) => Upto(Link(s).packages[p], delta[p])
            BY <2>5 DEF ChainInv, Truthful
        <3>5. \A p \in DOMAIN delta : w.head # NoLink => Names(0, p) \/ delta[p] = 0
            <4>1. w.head # NoLink => Held # {}
                BY <1>2, <2>1, <2>2 DEF Fit, Fenced
            <4> QED
                BY <2>5, <4>1 DEF ChainInv, Truthful
        <3>6. \A p \in Packages : w.head = NoLink => p \in DOMAIN delta \/ shas[p] = 0
            BY <2>5 DEF Checkpointed
        <3> QED
            BY <2>4, <3>2, <3>3, <3>4, <3>5, <3>6 DEF Read
    <2>8. Fit(v)
        BY <2>4, <2>6, <2>7 DEF Fit, InStep, Appends
    <2>9. Copies(n, v)'
        BY <2>4 DEF Copies
    <2> QED
        BY <2>1, <2>8, <2>9, KeptStill, Carried DEF Walk
<1> QED
    BY <1>1, <1>2

LEMMA ListOwnKeeps ==
    ASSUME ChainInv, NEW n \in Auditors, ListOwn(n)
    PROVE  ChainInv'
<1>0. PICK w, v : /\ w = walks[n]
                  /\ v = [w EXCEPT !.at = "peers", !.ours = Seqs(pins[n]),
                             !.todo = Replicas \ {pins[n]}, !.synced = {pins[n]}]
    OBVIOUS
<1>1. CASE Quits(n)
    BY <1>1, Quitting DEF ListOwn
<1>2. CASE Goes(n, v)
    <2>1. Fit(w) /\ pins[n] \in Replicas /\ Seqs(pins[n]) \in SUBSET Nat
        BY <1>0, AuditFacts DEF ChainInv, ChainTyped
    <2>2. /\ WalkTyped(v) /\ v.at = "peers" /\ v.head = w.head /\ v.delta = w.delta
          /\ v.pending = w.pending /\ v.ours = Seqs(pins[n]) /\ v.todo = Replicas \ {pins[n]}
          /\ v.synced = {pins[n]}
        <3>1. PICK L : w \in WalkRecord(L)
            BY <2>1 DEF Fit, WalkTyped
        <3>2. /\ v \in WalkRecord(L) /\ v.at = "peers" /\ v.head = w.head /\ v.delta = w.delta
              /\ v.pending = w.pending /\ v.ours = Seqs(pins[n]) /\ v.todo = Replicas \ {pins[n]}
              /\ v.synced = {pins[n]}
            BY <1>0, <2>1, <3>1 DEF WalkRecord, Steps
        <3> QED
            BY <3>2 DEF WalkTyped
    <2>3. Fenced(v) /\ Read(v)
        <3>1. w.at \in Audits /\ v.at \in Audits
            BY <1>0, <2>2 DEF ListOwn, Audits
        <3> QED
            BY <2>1, <2>2, <3>1, SameWalk DEF Fit
    <2>4. InStep(v) /\ Appends(v)
        BY <2>1, <2>2 DEF InStep, Appends
    <2>5. Kept
        BY KeptStill DEF ListOwn
    <2>6. Copies(n, v)'
        BY <2>1, <2>2, <2>5 DEF Copies, Kept
    <2> QED
        BY <1>2, <2>2, <2>3, <2>4, <2>5, <2>6, Carried DEF Fit
<1> QED
    BY <1>0, <1>1, <1>2 DEF ListOwn

\* The peers that an audit goes through.
Peering == {"peers", "pull", "push"}

LEMMA PeeringFacts ==
    ASSUME ChainInv, NEW n \in Auditors, walks[n].at \in Peering, walks[n].todo # {}
    PROVE  /\ PeerOf(n) \in walks[n].todo /\ PeerOf(n) \in Replicas /\ walks[n].at \in Audits
           /\ walks[n].ours \subseteq Seqs(pins[n])
    BY AuditFacts, WalkFields, NumberFact DEF PeerOf, Peering, Audits, Copies

\* What an audit is once it is done with a peer.
LEMMA NextPeerFits ==
    ASSUME ChainInv, Kept, NEW n \in Auditors, walks[n].at \in Peering, walks[n].todo # {},
           NEW v, v \in {Synced(n), Deferred(n)}
    PROVE  Fit(v) /\ Copies(n, v)'
<1>0. PICK w : w = walks[n]
    OBVIOUS
<1>1. Fit(w) /\ w.at \in Audits /\ PeerOf(n) \in w.todo /\ PeerOf(n) \in Replicas
    BY <1>0, AuditFacts, PeeringFacts
<1>2. w.ours \subseteq Seqs(pins[n]) /\ (w.defer \/ w.synced \cup w.todo = Replicas)
    BY <1>0, AuditFacts, PeeringFacts DEF Fit, InStep, Peering
<1>3. /\ WalkTyped(v) /\ v.at = "peers" /\ v.head = w.head /\ v.delta = w.delta
      /\ v.pending = w.pending /\ v.ours = w.ours /\ v.todo = w.todo \ {PeerOf(n)}
      /\ (v.defer \/ (v.defer = w.defer /\ v.synced = w.synced \cup {PeerOf(n)}))
    <2>1. PICK L : w \in WalkRecord(L)
        BY <1>1 DEF Fit, WalkTyped
    <2>2. /\ v \in WalkRecord(L) /\ v.at = "peers" /\ v.head = w.head /\ v.delta = w.delta
          /\ v.pending = w.pending /\ v.ours = w.ours /\ v.todo = w.todo \ {PeerOf(n)}
          /\ (v.defer \/ (v.defer = w.defer /\ v.synced = w.synced \cup {PeerOf(n)}))
        <3>1. CASE v = Synced(n)
            BY <1>0, <1>1, <2>1, <3>1 DEF WalkRecord, Steps, Synced, Next_peer
        <3>2. CASE v = Deferred(n)
            <4>1. v = [w EXCEPT !.at = "peers", !.todo = w.todo \ {PeerOf(n)}, !.pull = {}, !.push = {},
                                !.defer = TRUE]
                BY <1>0, <3>2 DEF Deferred, Next_peer
            <4>2. v.defer
                BY <2>1, <4>1 DEF WalkRecord
            <4>3. /\ v \in WalkRecord(L) /\ v.at = "peers" /\ v.head = w.head /\ v.delta = w.delta
                  /\ v.pending = w.pending /\ v.ours = w.ours /\ v.todo = w.todo \ {PeerOf(n)}
                BY <2>1, <4>1 DEF WalkRecord, Steps
            <4> QED
                BY <4>2, <4>3
        <3> QED
            BY <3>1, <3>2
    <2> QED
        BY <2>2 DEF WalkTyped
<1>4. Fenced(v) /\ Read(v)
    <2>1. v.at \in Audits
        BY <1>3 DEF Audits
    <2> QED
        BY <1>1, <1>3, <2>1, SameWalk DEF Fit
<1>5. InStep(v) /\ Appends(v)
    <2>1. v.defer \/ v.synced \cup v.todo = Replicas
        BY <1>1, <1>2, <1>3
    <2> QED
        BY <1>3, <2>1 DEF InStep, Appends
<1>6. Copies(n, v)'
    <2>1. v.ours \subseteq Seqs(pins[n])'
        BY <1>2, <1>3, AuditFacts DEF Kept
    <2> QED
        BY <1>3, <2>1 DEF Copies
<1> QED
    BY <1>3, <1>4, <1>5, <1>6 DEF Fit

\* What an audit is while it catches up with a peer.
LEMMA CatchUpFits ==
    ASSUME ChainInv, Kept, NEW n \in Auditors, walks[n].at \in Peering, walks[n].todo # {},
           NEW ours \in SUBSET Nat, NEW pull \in SUBSET Nat, NEW push \in SUBSET Nat,
           ours \subseteq Seqs(pins[n])', push \subseteq Seqs(pins[n])',
           NEW c, c = PeerOf(n), pull \subseteq Seqs(c)',
           NEW v, v = CatchUp(n, ours, pull, push)
    PROVE  Fit(v) /\ Copies(n, v)'
<1>0. PICK w : w = walks[n]
    OBVIOUS
<1>1. Fit(w) /\ w.at \in Audits
    BY <1>0, AuditFacts, PeeringFacts
<1>2. PICK L : w \in WalkRecord(L)
    BY <1>1 DEF Fit, WalkTyped
<1>3. CASE pull = {} /\ push = {}
    <2>1. PICK u : u = Synced(n)
        OBVIOUS
    <2>2. Fit(u)
        BY <2>1, NextPeerFits
    <2>3. v = [u EXCEPT !.ours = ours] /\ u.at = "peers"
        BY <1>0, <1>2, <1>3, <2>1 DEF CatchUp, Synced, Next_peer, WalkRecord
    <2>4. /\ WalkTyped(v) /\ v.at = "peers" /\ v.head = u.head /\ v.delta = u.delta
          /\ v.pending = u.pending /\ v.ours = ours /\ v.todo = u.todo /\ v.defer = u.defer
          /\ v.synced = u.synced
        <3>1. PICK K : u \in WalkRecord(K)
            BY <2>2 DEF Fit, WalkTyped
        <3>2. /\ v \in WalkRecord(K) /\ v.at = "peers" /\ v.head = u.head /\ v.delta = u.delta
              /\ v.pending = u.pending /\ v.ours = ours /\ v.todo = u.todo /\ v.defer = u.defer
              /\ v.synced = u.synced
            BY <2>3, <3>1 DEF WalkRecord
        <3> QED
            BY <3>2 DEF WalkTyped
    <2>5. Fenced(v) /\ Read(v)
        <3>1. u.at \in Audits /\ v.at \in Audits
            BY <2>3, <2>4 DEF Audits
        <3> QED
            BY <2>2, <2>4, <3>1, SameWalk DEF Fit
    <2>6. InStep(v) /\ Appends(v)
        BY <2>2, <2>3, <2>4 DEF Fit, InStep, Appends
    <2>7. Copies(n, v)'
        BY <2>4 DEF Copies
    <2> QED
        BY <2>4, <2>5, <2>6, <2>7 DEF Fit
<1>4. CASE ~(pull = {} /\ push = {})
    <2>1. /\ WalkTyped(v) /\ v.at = (IF pull # {} THEN "pull" ELSE "push") /\ v.head = w.head
          /\ v.delta = w.delta /\ v.pending = w.pending /\ v.ours = ours /\ v.todo = w.todo
          /\ v.defer = w.defer /\ v.synced = w.synced /\ v.pull = pull /\ v.push = push
        <3>1. v = [w EXCEPT !.at = IF pull # {} THEN "pull" ELSE "push", !.ours = ours,
                            !.pull = pull, !.push = push]
            BY <1>0, <1>4 DEF CatchUp
        <3>2. /\ v \in WalkRecord(L)
              /\ v.at = (IF pull # {} THEN "pull" ELSE "push") /\ v.head = w.head
              /\ v.delta = w.delta /\ v.pending = w.pending /\ v.ours = ours /\ v.todo = w.todo
              /\ v.defer = w.defer /\ v.synced = w.synced /\ v.pull = pull /\ v.push = push
            BY <1>2, <3>1 DEF WalkRecord, Steps
        <3> QED
            BY <3>2 DEF WalkTyped
    <2>2. Fenced(v) /\ Read(v)
        <3>1. v.at \in Audits
            BY <2>1 DEF Audits
        <3> QED
            BY <1>1, <2>1, <3>1, SameWalk DEF Fit
    <2>3. InStep(v) /\ Appends(v)
        BY <1>0, <1>1, <2>1 DEF Fit, InStep, Appends, Peering
    <2>4. Copies(n, v)'
        <3>1. c = Min(v.todo) /\ (v.at = "pull" => v.pull # {}) /\ (v.at = "push" => v.push # {})
            BY <1>0, <1>4, <2>1 DEF PeerOf
        <3> QED
            BY <2>1, <3>1 DEF Copies
    <2> QED
        BY <2>1, <2>2, <2>3, <2>4 DEF Fit
<1> QED
    BY <1>3, <1>4

LEMMA ListPeerKeeps ==
    ASSUME ChainInv, NEW n \in Auditors, ListPeer(n)
    PROVE  ChainInv'
<1>0. PICK c : c = PeerOf(n)
    OBVIOUS
<1>1. Kept
    BY KeptStill DEF ListPeer
<1>2. walks[n].at \in Peering /\ walks[n].todo # {}
    BY DEF ListPeer, Peering
<1>3. /\ c \in Replicas /\ pins[n] \in Replicas /\ walks[n].ours \subseteq Seqs(pins[n])
      /\ walks[n].ours \subseteq Nat
    BY <1>0, <1>2, PeeringFacts, AuditFacts, WalkFields
<1>4. CASE Goes(n, Deferred(n))
    BY <1>1, <1>2, <1>4, NextPeerFits, Carried
<1>5. CASE Goes(n, CatchUp(n, walks[n].ours, Seqs(c) \ walks[n].ours, walks[n].ours \ Seqs(c)))
    <2>1. /\ Seqs(c) \ walks[n].ours \subseteq Seqs(c)' /\ Seqs(c) \ walks[n].ours \subseteq Nat
          /\ walks[n].ours \subseteq Seqs(pins[n])'
        BY <1>1, <1>3 DEF Kept, ChainInv, ChainTyped
    <2>2. PICK ours, pull, push, v :
              /\ ours = walks[n].ours /\ pull = Seqs(c) \ ours /\ push = ours \ Seqs(c)
              /\ v = CatchUp(n, ours, pull, push)
        OBVIOUS
    <2>3. /\ ours \in SUBSET Nat /\ pull \in SUBSET Nat /\ push \in SUBSET Nat
          /\ ours \subseteq Seqs(pins[n])' /\ push \subseteq Seqs(pins[n])' /\ pull \subseteq Seqs(c)'
        BY <1>3, <2>1, <2>2
    <2>4. Fit(v) /\ Copies(n, v)'
        BY <1>0, <1>1, <1>2, <2>2, <2>3, CatchUpFits
    <2> QED
        BY <1>1, <1>5, <2>2, <2>4, Carried
<1>6. ~first_contradiction(pins[n], c, walks[n].ours)
    <2>1. \A s \in walks[n].ours \cap Seqs(c) : chains[pins[n]][s] = chains[c][s]
        BY <1>3 DEF ChainInv, OneChain
    <2>2. PICK S : S = walks[n].ours \cap Seqs(c)
        OBVIOUS
    <2>3. S # {} => Min(S) \in S /\ Max(S) \in S
        <3>1. S \in SUBSET Nat /\ IsFiniteSet(S)
            <4>1. IsFiniteSet(Seqs(c))
                BY <1>3 DEF ChainInv, ChainTyped
            <4> QED
                BY <1>3, <2>2, <4>1, FS_Subset
        <3> QED
            BY <3>1, MinFact, MaxFact
    <2> QED
        BY <2>1, <2>2, <2>3 DEF first_contradiction
<1> QED
    BY <1>0, <1>4, <1>5, <1>6 DEF ListPeer

\* A link that is copied is the arbiter's.
LEMMA PullKeeps ==
    ASSUME ChainInv, NEW n \in Auditors, Pull(n)
    PROVE  ChainInv'
<1>0. PICK c, w, s, link : /\ c = PeerOf(n) /\ w = walks[n] /\ s = Min(w.pull)
                           /\ link = chains[c][s]
    OBVIOUS
<1>1. walks[n].at \in Peering /\ walks[n].todo # {} /\ w.at = "pull"
    BY <1>0, AuditFacts DEF Pull, Peering, Fit, InStep
<1>2. /\ c \in Replicas /\ pins[n] \in Replicas /\ Copies(n, w) /\ WalkTyped(w)
      /\ w.ours \subseteq Nat /\ w.pull \subseteq Nat /\ w.push \subseteq Nat
    BY <1>0, <1>1, PeeringFacts, AuditFacts, WalkFields
<1>3. s \in w.pull /\ w.pull \subseteq Seqs(c) /\ w.push \subseteq Seqs(pins[n]) /\ w.ours \subseteq Seqs(pins[n])
    BY <1>0, <1>1, <1>2, MinFact DEF Copies, PeerOf
<1>4. s \in Held /\ link = Link(s) /\ link.seq = s /\ s \in Nat
    BY <1>0, <1>2, <1>3, HeldFact DEF ChainInv, OneChain
<1>5. ~Diverges(pins[n], link)
    BY <1>2, <1>4 DEF Diverges, ChainInv, OneChain
<1>6. CASE Goes(n, Deferred(n)) /\ Lapse /\ UNCHANGED chains
    <2>1. Kept
        BY <1>6, KeptStill DEF Pull, ReadOnly
    <2> QED
        BY <1>1, <1>6, <2>1, NextPeerFits, Carried
<1>7. CASE /\ Goes(n, CatchUp(n, w.ours \cup {s}, w.pull \ {s}, w.push))
           /\ chains' = put_link(pins[n], Link(s)) /\ UNCHANGED lapses
    <2>1. Kept /\ s \in Seqs(pins[n])'
        <3>1. PICK b : b = pins[n]
            OBVIOUS
        <3>2. Kept /\ s \in Seqs(b)'
            BY <1>2, <1>4, <1>7, <3>1, KeptCopy DEF Pull
        <3>3. pins' = pins
            BY DEF Pull
        <3> QED
            BY <3>1, <3>2, <3>3
    <2>2. PICK ours, pull, push, v :
              /\ ours = w.ours \cup {s} /\ pull = w.pull \ {s} /\ push = w.push
              /\ v = CatchUp(n, ours, pull, push)
        OBVIOUS
    <2>3. /\ ours \in SUBSET Nat /\ pull \in SUBSET Nat /\ push \in SUBSET Nat
          /\ ours \subseteq Seqs(pins[n])' /\ push \subseteq Seqs(pins[n])' /\ pull \subseteq Seqs(c)'
        BY <1>2, <1>3, <1>4, <2>1, <2>2 DEF Kept
    <2>4. Fit(v) /\ Copies(n, v)'
        BY <1>0, <1>1, <2>1, <2>2, <2>3, CatchUpFits
    <2> QED
        BY <1>7, <2>1, <2>2, <2>4, Carried
<1> QED
    BY <1>0, <1>4, <1>5, <1>6, <1>7 DEF Pull, copy_link

LEMMA PushKeeps ==
    ASSUME ChainInv, NEW n \in Auditors, Push(n)
    PROVE  ChainInv'
<1>0. PICK c, w, s, link : /\ c = PeerOf(n) /\ w = walks[n] /\ s = Min(w.push)
                           /\ link = chains[pins[n]][s]
    OBVIOUS
<1>1. walks[n].at \in Peering /\ walks[n].todo # {} /\ w.at = "push"
    BY <1>0, AuditFacts DEF Push, Peering, Fit, InStep
<1>2. /\ c \in Replicas /\ pins[n] \in Replicas /\ Copies(n, w) /\ WalkTyped(w)
      /\ w.ours \subseteq Nat /\ w.push \subseteq Nat
    BY <1>0, <1>1, PeeringFacts, AuditFacts, WalkFields
<1>3. s \in w.push /\ w.push \subseteq Seqs(pins[n]) /\ w.ours \subseteq Seqs(pins[n])
    BY <1>0, <1>1, <1>2, MinFact DEF Copies
<1>4. s \in Held /\ link = Link(s) /\ link.seq = s /\ s \in Nat
    BY <1>0, <1>2, <1>3, HeldFact DEF ChainInv, OneChain
<1>5. ~Diverges(c, link)
    BY <1>2, <1>4 DEF Diverges, ChainInv, OneChain
<1>6. CASE Goes(n, Synced(n)) /\ Lapse /\ UNCHANGED chains
    <2>1. Kept
        BY <1>6, KeptStill DEF Push, ReadOnly
    <2> QED
        BY <1>1, <1>6, <2>1, NextPeerFits, Carried
<1>7. CASE /\ Goes(n, CatchUp(n, w.ours, {}, w.push \ {s}))
           /\ chains' = put_link(c, Link(s)) /\ UNCHANGED lapses
    <2>1. Kept
        BY <1>2, <1>4, <1>7, KeptCopy DEF Push
    <2>2. PICK ours, pull, push, v :
              /\ ours = w.ours /\ pull = {} /\ push = w.push \ {s}
              /\ v = CatchUp(n, ours, pull, push)
        OBVIOUS
    <2>3. /\ ours \in SUBSET Nat /\ pull \in SUBSET Nat /\ push \in SUBSET Nat
          /\ ours \subseteq Seqs(pins[n])' /\ push \subseteq Seqs(pins[n])' /\ pull \subseteq Seqs(c)'
        BY <1>2, <1>3, <1>4, <2>1, <2>2 DEF Kept
    <2>4. Fit(v) /\ Copies(n, v)'
        BY <1>0, <1>1, <2>1, <2>2, <2>3, CatchUpFits
    <2> QED
        BY <1>7, <2>1, <2>2, <2>4, Carried
<1> QED
    BY <1>0, <1>4, <1>5, <1>6, <1>7 DEF Push, copy_link

LEMMA PulledKeeps ==
    ASSUME ChainInv, NEW n \in Auditors, Pulled(n)
    PROVE  ChainInv'
<1>0. PICK w, v : w = walks[n] /\ v = [w EXCEPT !.at = "head", !.ours = {}, !.defer = FALSE]
    OBVIOUS
<1>1. CASE Quits(n)
    BY <1>1, Quitting DEF Pulled
<1>2. CASE ~w.defer /\ Goes(n, v)
    <2>1. Fit(w) /\ w.at = "peers" /\ w.todo = {}
        BY <1>0, AuditFacts DEF Pulled
    <2>2. /\ WalkTyped(v) /\ v.at = "head" /\ v.head = w.head /\ v.delta = w.delta
          /\ v.pending = w.pending /\ v.todo = w.todo /\ v.synced = w.synced
        <3>1. PICK L : w \in WalkRecord(L)
            BY <2>1 DEF Fit, WalkTyped
        <3>2. /\ v \in WalkRecord(L) /\ v.at = "head" /\ v.head = w.head /\ v.delta = w.delta
              /\ v.pending = w.pending /\ v.todo = w.todo /\ v.synced = w.synced
            BY <1>0, <3>1 DEF WalkRecord, Steps
        <3> QED
            BY <3>2 DEF WalkTyped
    <2>3. Fenced(v) /\ Read(v)
        <3>1. w.at \in Audits /\ v.at \in Audits
            BY <2>1, <2>2 DEF Audits
        <3> QED
            BY <2>1, <2>2, <3>1, SameWalk DEF Fit
    <2>4. InStep(v) /\ Appends(v)
        BY <1>2, <2>1, <2>2 DEF Fit, InStep, Appends
    <2>5. Copies(n, v)'
        BY <2>2 DEF Copies
    <2> QED
        BY <1>2, <2>2, <2>3, <2>4, <2>5, KeptStill, Carried DEF Fit, Pulled
<1> QED
    BY <1>0, <1>1, <1>2 DEF Pulled

LEMMA ReadHeadsKeeps ==
    ASSUME ChainInv, NEW n \in Auditors, ReadHeads(n)
    PROVE  ChainInv'
<1>0. PICK w, link, v : /\ w = walks[n] /\ v = [w EXCEPT !.at = "cas", !.link = link]
                        /\ link = [seq |-> NextSeq(Onto(n)), prev |-> Onto(n), by |-> n,
                                   packages |-> w.delta]
    OBVIOUS
<1>1. CASE Quits(n)
    BY <1>1, Quitting DEF ReadHeads
<1>2. CASE Onto(n) # Unread /\ Goes(n, v)
    <2>1. Fit(w) /\ w.at = "head" /\ Onto(n) = w.head
        BY <1>0, <1>2, AuditFacts DEF ReadHeads, Onto
    <2>2. link.seq = w.head.seq + 1 /\ link.prev = w.head /\ link.packages = w.delta
        BY <1>0, <2>1 DEF NextSeq
    <2>3. /\ WalkTyped(v) /\ v.at = "cas" /\ v.head = w.head /\ v.delta = w.delta
          /\ v.pending = w.pending /\ v.synced = w.synced /\ v.link = link
        <3>1. PICK L : w \in WalkRecord(L)
            BY <2>1 DEF Fit, WalkTyped
        <3>2. /\ v \in WalkRecord(L \cup {link}) /\ v.at = "cas" /\ v.head = w.head
              /\ v.delta = w.delta /\ v.pending = w.pending /\ v.synced = w.synced /\ v.link = link
            <4>1. v = [w EXCEPT !.at = "cas", !.link = link]
                BY <1>0
            <4> QED
                BY <3>1, <4>1 DEF WalkRecord, Steps
        <3> QED
            BY <3>2 DEF WalkTyped
    <2>4. Fenced(v) /\ Read(v)
        <3>1. w.at \in Audits /\ v.at \in Audits
            BY <2>1, <2>3 DEF Audits
        <3> QED
            BY <2>1, <2>3, <3>1, SameWalk DEF Fit
    <2>5. InStep(v) /\ Appends(v)
        BY <2>1, <2>2, <2>3 DEF Fit, InStep, Appends
    <2>6. Copies(n, v)'
        BY <2>3 DEF Copies
    <2> QED
        BY <1>2, <2>3, <2>4, <2>5, <2>6, KeptStill, Carried DEF Fit, ReadHeads
<1> QED
    BY <1>0, <1>1, <1>2 DEF ReadHeads

\* What is left to say of an audit whose link is committed.
Settled(w) ==
    /\ Held # {}
    /\ \A p \in DOMAIN w.pending : Upto(w.pending[p], shas[p]) /\ Backs(w.pending[p], p)

\* Where an audit goes once its link is on the arbiter.
Onwards(w, v) ==
    \/ /\ v.at = "mirror" /\ v.todo # {} /\ v.synced = w.synced
       /\ v.head = w.head /\ v.link = w.link /\ v.pending = w.pending
    \/ v.at = "certify" /\ v.pending = w.pending
    \/ v.at = "idle"

LEMMA MirroringFact ==
    ASSUME NEW w, WalkTyped(w), NEW todo \in SUBSET Replicas, NEW v, v = Mirroring(w, todo)
    PROVE  WalkTyped(v) /\ Onwards(w, v)
<1>1. CASE todo # {}
    <2>1. PICK L : w \in WalkRecord(L)
        BY DEF WalkTyped
    <2>2. /\ v \in WalkRecord(L) /\ v.at = "mirror" /\ v.head = w.head /\ v.link = w.link
          /\ v.todo = todo /\ v.synced = w.synced /\ v.pending = w.pending
        BY <1>1, <2>1 DEF Mirroring, WalkRecord, Steps
    <2> QED
        BY <1>1, <2>2 DEF WalkTyped, Onwards
<1>2. CASE todo = {} /\ w.pending = NoDelta
    <2>1. v = Rest /\ Rest.at = "idle"
        BY <1>2 DEF Mirroring, Rest
    <2> QED
        BY <2>1, RestFact DEF Fit, Onwards
<1>3. CASE todo = {} /\ w.pending # NoDelta
    <2>1. v = [Rest EXCEPT !.at = "certify", !.pending = w.pending] /\ w.pending \in Deltas
        BY <1>3, WalkFields DEF Mirroring
    <2>2. v \in WalkRecord({NoLink}) /\ v.at = "certify" /\ v.pending = w.pending
        BY <2>1, NoDeltaFact DEF Rest, WalkRecord, Steps
    <2> QED
        BY <2>2 DEF WalkTyped, Onwards
<1> QED
    BY <1>1, <1>2, <1>3

LEMMA MirrorKeeps ==
    ASSUME ChainInv, NEW n \in Auditors, Mirror(n)
    PROVE  ChainInv'
<1>0. PICK w, c, v : w = walks[n] /\ c = PeerOf(n) /\ v = Mirroring(w, w.todo \ {c})
    OBVIOUS
<1>1. Fit(w) /\ WalkTyped(w) /\ w.at = "mirror" /\ Goes(n, v)
    BY <1>0, AuditFacts DEF Mirror
<1>2. /\ w.link.prev = w.head /\ w.link.seq \in Held /\ w.link = Link(w.link.seq) /\ Settled(w)
      /\ w.synced = Replicas /\ w.todo # {} /\ w.todo \in SUBSET Replicas
    BY <1>1, WalkFields DEF Fit, Appends, InStep, Settled
<1>3. c \in Replicas
    BY <1>0, <1>2, NumberFact DEF PeerOf
<1>4. Kept
    <2>1. CASE chains' = put_link(c, w.link) /\ UNCHANGED lapses
        BY <1>2, <1>3, <2>1, KeptCopy DEF Mirror
    <2>2. CASE Lapse /\ UNCHANGED chains
        BY <2>2, KeptStill DEF Mirror, ReadOnly
    <2> QED
        BY <1>0, <2>1, <2>2 DEF Mirror, copy_link
<1>5. WalkTyped(v) /\ Onwards(w, v)
    BY <1>0, <1>1, <1>2, MirroringFact
<1>6. Fit(v)
    BY <1>2, <1>5 DEF Onwards, Fit, Fenced, Read, InStep, Appends, Settled, Audits
<1>7. Copies(n, v)'
    BY <1>5 DEF Onwards, Copies
<1> QED
    BY <1>1, <1>4, <1>6, <1>7, Carried

\* A step that leaves the chains and truth as they are and ends an audit.
LEMMA Ended ==
    ASSUME ChainInv, NEW n \in Auditors, Quits(n), lapses' = lapses \/ Lapse,
           UNCHANGED <<view, shas, chains>>, certs' \in [Replicas -> [Packages -> Sha]],
           pins' \in [Auditors -> Replicas], \A m \in Auditors \ {n} : pins'[m] = pins[m],
           Truthful', CertsVouch'
    PROVE  ChainInv'
<1>1. walks'[n] = Rest /\ \A m \in Auditors \ {n} : walks'[m] = walks[m]
    BY DEF ChainInv, ChainTyped, Quits, Goes
<1>2. \A b : Seqs(b)' = Seqs(b)
    BY DEF Seqs
<1>3. Held' = Held /\ \A s : Link(s)' = Link(s)
    BY <1>2 DEF Held, Link, Arb
<1>4. \A s, p : Names(s, p)' <=> Names(s, p)
    BY <1>3 DEF Names
<1>5. \A v : \A p \in Packages : Backs(v, p)' <=> Backs(v, p)
    BY <1>3, <1>4 DEF Backs, LastSays
<1>6. Grown /\ StillBacked
    BY <1>2, <1>3, <1>5, HeldFact, UptoOrder DEF Grown, StillBacked
<1>7. ChainTyped'
    <2>1. walks' = [m \in Auditors |-> walks'[m]]
        BY DEF ChainInv, ChainTyped, Quits, Goes
    <2>2. \A m \in Auditors : WalkTyped(walks'[m])
        BY <1>1, RestFact DEF ChainInv, ChainTyped, Fit
    <2>3. lapses' \in 0..MaxLapses
        BY LapseFact
    <2> QED
        BY <1>2, <2>1, <2>2, <2>3 DEF ChainInv, ChainTyped, WalkTyped
<1>8. OneChain'
    BY <1>2, <1>3 DEF ChainInv, OneChain
<1>9. AuditInv(n)'
    BY <1>1 DEF AuditInv, Fenced, Read, InStep, Appends, Copies, Audits, Rest
<1> QED
    BY <1>1, <1>6, <1>7, <1>8, <1>9, AuditKeeps

LEMMA SwitchKeeps ==
    ASSUME ChainInv, NEW n \in Auditors, Switch(n)
    PROVE  ChainInv'
<1>1. pins' \in [Auditors -> Replicas] /\ \A m \in Auditors \ {n} : pins'[m] = pins[m]
    BY DEF Switch, ChainInv, ChainTyped
<1>2. Held' = Held /\ (\A s : Link(s)' = Link(s)) /\ shas' = shas /\ certs' = certs
    BY DEF Switch, Held, Link, Arb, Seqs
<1>3. \A s, p : Names(s, p)' <=> Names(s, p)
    BY <1>2 DEF Names
<1>4. \A v : \A p \in Packages : Backs(v, p)' <=> Backs(v, p)
    BY <1>2, <1>3 DEF Backs, LastSays
<1>5. Truthful' /\ CertsVouch'
    BY <1>2, <1>3, <1>4 DEF ChainInv, Truthful, CertsVouch
<1> QED
    BY <1>1, <1>5, Ended DEF Switch, Quits, Goes, ChainInv, ChainTyped

LEMMA CertifyKeeps ==
    ASSUME ChainInv, NEW n \in Auditors, Certify(n)
    PROVE  ChainInv'
<1>0. PICK w, b, stored :
          /\ w = walks[n] /\ b = pins[n]
          /\ stored = [p \in Packages |-> IF p \in DOMAIN w.pending THEN w.pending[p] ELSE certs[b][p]]
    OBVIOUS
<1>1. /\ b \in Replicas /\ Settled(w) /\ DOMAIN w.pending \subseteq Packages
      /\ \A p \in DOMAIN w.pending : w.pending[p] \in Sha
    BY <1>0, AuditFacts, WalkFields, DeltaFact DEF Certify, Fit, Appends, Settled
<1>2. Held' = Held /\ (\A s : Link(s)' = Link(s)) /\ shas' = shas /\ pins' = pins
    BY DEF Certify, Held, Link, Arb, Seqs
<1>3. \A s, p : Names(s, p)' <=> Names(s, p)
    BY <1>2 DEF Names
<1>4. \A v : \A p \in Packages : Backs(v, p)' <=> Backs(v, p)
    BY <1>2, <1>3 DEF Backs, LastSays
<1>5. /\ certs' \in [Replicas -> [Packages -> Sha]]
      /\ \A c \in Replicas, p \in Packages :
            \/ certs'[c][p] = certs[c][p]
            \/ p \in DOMAIN w.pending /\ certs'[c][p] = w.pending[p]
    <2>1. certs \in [Replicas -> [Packages -> Sha]]
        BY DEF ChainInv, ChainTyped
    <2>2. stored \in [Packages -> Sha]
        BY <1>0, <1>1, <2>1
    <2>3. certs' = certs \/ certs' = [certs EXCEPT ![b] = stored]
        BY <1>0 DEF Certify
    <2>4. \A p \in Packages : stored[p] = certs[b][p] \/ (p \in DOMAIN w.pending /\ stored[p] = w.pending[p])
        BY <1>0
    <2> QED
        BY <1>1, <2>1, <2>2, <2>3, <2>4
<1>6. Truthful'
    BY <1>1, <1>2, <1>3, <1>5 DEF ChainInv, Truthful, Settled
<1>7. CertsVouch'
    BY <1>1, <1>2, <1>4, <1>5 DEF ChainInv, CertsVouch, Settled
<1> QED
    BY <1>2, <1>5, <1>6, <1>7, Ended DEF Certify, ChainInv, ChainTyped

-----------------------------------------------------------------------------
(* Truth goes on.                                                          *)

LEMMA RewriteKeeps ==
    ASSUME ChainInv, NEW q \in Packages, Rewrite(q)
    PROVE  ChainInv'
<1>1. PICK sha \in 0..view.shas :
          /\ sha = 0 => shas[q] # 0
          /\ sha # 0 => sha > Max({shas[p] : p \in Packages}) /\ shas[q] # 0
          /\ shas' = [shas EXCEPT ![q] = sha]
    BY DEF Rewrite
<1>2. shas \in [Packages -> Sha] /\ Held \subseteq Nat
    BY HeldFact
<1>3. sha \in Sha
    <2>1. view \in Fleet
        BY TransparencyAssumption DEF ChainInv, ChainTyped
    <2>2. view.shas \in 1..MaxShas
        BY <2>1 DEF Fleet
    <2> QED
        BY <2>2, ShaFact DEF Sha
<1>4. shas[q] # 0 /\ (sha # 0 => sha > shas[q])
    <2> SUFFICES ASSUME sha # 0 PROVE sha > shas[q]
        BY <1>1
    <2>1. PICK S : S = {shas[p] : p \in Packages}
        OBVIOUS
    <2>2. S \in SUBSET Nat /\ IsFiniteSet(S) /\ shas[q] \in S
        <3>1. S \subseteq Sha /\ shas[q] \in S
            BY <1>2, <2>1
        <3>2. IsFiniteSet(Sha)
            BY ShaFact, FS_Interval DEF Sha
        <3> QED
            BY <3>1, <3>2, FS_Subset, ShaFact
    <2>3. shas[q] <= Max(S) /\ Max(S) \in Nat
        BY <2>2, MaxFact
    <2> QED
        BY <1>1, <1>2, <1>3, <2>1, <2>3, ShaFact
<1>5. /\ shas' \in [Packages -> Sha] /\ shas'[q] = sha
      /\ \A p \in Packages \ {q} : shas'[p] = shas[p]
    BY <1>1, <1>2, <1>3
<1>6. Upto(shas[q], sha) /\ \A v \in Sha : Upto(v, shas[q]) => v # sha
    <2>1. PICK x : x = shas[q]
        OBVIOUS
    <2>2. x \in Nat /\ sha \in Nat /\ x # 0 /\ (sha # 0 => x < sha) /\ Sha \subseteq Nat
        BY <1>2, <1>3, <1>4, <2>1, ShaFact
    <2>3. Upto(x, sha)
        BY <2>2 DEF Upto
    <2>4. \A v \in Nat : Upto(v, x) => v # sha
        BY <2>2 DEF Upto
    <2> QED
        BY <2>1, <2>2, <2>3, <2>4
<1>7. \A b : Seqs(b)' = Seqs(b)
    BY DEF Rewrite, Seqs
<1>8. Held' = Held /\ (\A s : Link(s)' = Link(s)) /\ chains' = chains /\ certs' = certs
    BY <1>7 DEF Rewrite, Held, Link, Arb
<1>9. Grown
    <2>1. \A p \in Packages : Upto(shas[p], shas'[p]) /\ (shas[p] = 0 => shas'[p] = 0)
        BY <1>2, <1>4, <1>5, <1>6, UptoOrder
    <2> QED
        BY <1>2, <1>5, <1>7, <1>8, <2>1 DEF Grown
<1>10. \A s, p : Names(s, p)' <=> Names(s, p)
    BY <1>8 DEF Names
<1>11. StillBacked
    <2>1. \A v, p : LastSays(p, v)' <=> LastSays(p, v)
        BY <1>8, <1>10 DEF LastSays
    <2>2. ASSUME NEW p \in Packages, NEW v \in Sha, Upto(v, shas[p]), Backs(v, p)
          PROVE  Backs(v, p)'
        <3>1. CASE p = q
            BY <1>5, <1>6, <2>2, <3>1 DEF Backs
        <3>2. CASE p # q
            BY <1>5, <2>1, <2>2, <3>2 DEF Backs
        <3> QED
            BY <3>1, <3>2
    <2> QED
        BY <2>2 DEF StillBacked
<1>12. \A p \in Packages, v \in Sha : Upto(v, shas[p]) => Upto(v, shas'[p])
    BY <1>2, <1>5, UptoOrder, <1>9 DEF Grown
<1>13. certs \in [Replicas -> [Packages -> Sha]]
    BY DEF ChainInv, ChainTyped
<1>14. Truthful'
    <2>1. ASSUME NEW s \in Held, NEW p \in Packages, Names(s, p)
          PROVE  Upto(Link(s).packages[p], shas'[p])
        <3>1. Link(s).packages[p] \in Sha
            BY <2>1, DeltaFact DEF ChainInv, OneChain, Names
        <3> QED
            BY <1>12, <2>1, <3>1 DEF ChainInv, Truthful
    <2>2. \A b \in Replicas, p \in Packages : Upto(certs[b][p], shas'[p])
        BY <1>12, <1>13 DEF ChainInv, Truthful
    <2>3. \A p \in Packages : Held # {} => Names(0, p) \/ shas'[p] = 0
        BY <1>9 DEF Grown, ChainInv, Truthful
    <2> QED
        BY <1>8, <1>10, <2>1, <2>2, <2>3 DEF Truthful
<1>15. CertsVouch'
    <2>1. CASE Held = {}
        BY <1>8, <2>1 DEF ChainInv, CertsVouch
    <2>2. CASE Held # {}
        <3>1. ASSUME NEW b \in Replicas, NEW p \in Packages PROVE Backs(certs[b][p], p)'
            <4>0. PICK v \in Sha : v = certs[b][p]
                BY <1>13
            <4>1. Upto(v, shas[p]) /\ Backs(v, p)
                BY <2>2, <4>0 DEF ChainInv, Truthful, CertsVouch
            <4>2. Backs(v, p)'
                BY <1>11, <2>2, <4>1 DEF StillBacked
            <4> QED
                BY <1>8, <4>0, <4>2
        <3> QED
            BY <1>8, <2>2, <3>1 DEF CertsVouch
    <2> QED
        BY <2>1, <2>2
<1>16. \A m \in Auditors : AuditInv(m)'
    BY <1>9, <1>11, OthersAudit DEF Rewrite
<1>17. ChainTyped' /\ OneChain'
    BY <1>5, <1>7, <1>8 DEF Rewrite, ChainInv, ChainTyped, OneChain
<1> QED
    BY <1>14, <1>15, <1>16, <1>17 DEF ChainInv

-----------------------------------------------------------------------------
(* The append.  The seq is free on the arbiter only while the walk's head  *)
(* is the last link there, so the walk saw all that is committed.          *)

LEMMA LandingFacts ==
    ASSUME ChainInv, NEW n \in Auditors, NEW w, w = walks[n], w.at = "cas",
           NEW k, k = w.link.seq, k \notin Held
    PROVE  /\ Arbiter(n) = Arb /\ k \in Nat /\ w.head.seq = k - 1
           /\ \A s \in Nat : s \in Held <=> s < k
           /\ (Held = {}) <=> (w.head = NoLink)
<1>1. Fit(w)
    BY AuditFacts
<1>2. Arbiter(n) = Arb
    BY <1>1 DEF Fit, InStep, Arbiter, Arb
<1>3. /\ k = w.head.seq + 1
      /\ w.head = NoLink \/ (w.head.seq \in Held /\ w.head = Link(w.head.seq))
    BY <1>1 DEF Fit, Appends, Fenced, Audits
<1>4. Held \subseteq Nat /\ \A s \in Held, t \in Nat : t < s => t \in Held
    BY HeldFact DEF ChainInv, OneChain
<1>5. PICK h : h = w.head.seq
    OBVIOUS
<1>6. CASE w.head = NoLink
    <2>1. k = 0 /\ h = -1
        BY <1>3, <1>5, <1>6, LinkFact
    <2>2. Held = {}
        BY <1>4, <2>1
    <2> QED
        BY <1>2, <1>5, <1>6, <2>1, <2>2
<1>7. CASE h \in Held /\ w.head # NoLink
    <2>1. h \in Nat /\ k = h + 1
        BY <1>3, <1>4, <1>5, <1>7
    <2>2. ASSUME NEW s \in Held PROVE s < k
        <3>1. s \in Nat /\ (k < s => k \in Held)
            BY <1>4, <2>1
        <3> QED
            BY <2>1, <3>1
    <2>3. ASSUME NEW s \in Nat, s < k PROVE s \in Held
        <3>1. s = h \/ s < h
            BY <2>1, <2>3
        <3> QED
            BY <1>4, <1>7, <3>1
    <2> QED
        BY <1>2, <1>5, <1>7, <2>1, <2>2, <2>3
<1> QED
    BY <1>3, <1>5, <1>6, <1>7

\* A package named by a link is named last by one.
LEMMA LastNamed ==
    ASSUME ChainInv, NEW p, \E s \in Held : Names(s, p)
    PROVE  \E s \in Held : Names(s, p) /\ \A t \in Held : t > s => ~Names(t, p)
<1>1. PICK S : S = {s \in Held : Names(s, p)}
    OBVIOUS
<1>2. S \in SUBSET Nat /\ IsFiniteSet(S) /\ S # {} /\ Held \subseteq Nat
    <2>1. S \subseteq Held
        BY <1>1
    <2> QED
        BY <1>1, <2>1, HeldFact, FS_Subset
<1>3. Max(S) \in S /\ \A y \in S : Max(S) >= y
    BY <1>2, MaxFact
<1>4. PICK m : m = Max(S)
    OBVIOUS
<1>5. m \in Held /\ Names(m, p) /\ m \in Nat
    BY <1>1, <1>2, <1>3, <1>4
<1>6. \A t \in Held : t > m => ~Names(t, p)
    <2> SUFFICES ASSUME NEW t \in Held, t > m, Names(t, p) PROVE FALSE
        OBVIOUS
    <2>1. t \in S /\ m >= t /\ t \in Nat
        BY <1>1, <1>2, <1>3, <1>4
    <2> QED
        BY <1>5, <2>1
<1> QED
    BY <1>5, <1>6

LEMMA Landing ==
    ASSUME ChainInv, NEW n \in Auditors, NEW w, w = walks[n], w.at = "cas",
           NEW k, k = w.link.seq, k \notin Held, chains' = put_link(Arb, w.link),
           view' = view /\ shas' = shas /\ certs' = certs /\ pins' = pins
    PROVE  /\ Grown /\ StillBacked /\ OneChain' /\ Truthful' /\ CertsVouch'
           /\ k \in Held' /\ w.link = Link(k)' /\ Settled(w)'
           /\ chains' = [b \in Replicas |-> chains'[b]]
           /\ \A b \in Replicas : Seqs(b)' \in SUBSET Nat /\ IsFiniteSet(Seqs(b)')
<1>1. Fit(w) /\ WalkTyped(w) /\ Arb \in Replicas
    BY AuditFacts, ArbFact
<1>2. /\ k \in Nat /\ w.head.seq = k - 1 /\ (\A s \in Nat : s \in Held <=> s < k)
      /\ (Held = {}) <=> (w.head = NoLink)
    BY LandingFacts
<1>3. /\ w.link.packages = w.delta /\ w.delta \in Deltas /\ w.pending \in Deltas
      /\ DOMAIN w.delta \subseteq Packages /\ DOMAIN w.pending \subseteq Packages
      /\ \A p \in DOMAIN w.delta : w.delta[p] \in Sha
      /\ \A p \in DOMAIN w.pending : w.pending[p] \in Sha
    BY <1>1, WalkFields, DeltaFact DEF Fit, Appends
<1>4. Read(w) /\ w.at \in Audits
    BY <1>1 DEF Fit, Audits
<1>5. Held \subseteq Nat /\ shas \in [Packages -> Sha] /\ certs \in [Replicas -> [Packages -> Sha]]
    BY HeldFact DEF ChainInv, ChainTyped
<1>6. /\ chains' = [b \in Replicas |-> chains'[b]]
      /\ \A b \in Replicas \ {Arb} : chains'[b] = chains[b]
      /\ Held' = Held \cup {k}
      /\ \A s \in Held : Link(s)' = Link(s)
      /\ Link(k)' = w.link
      /\ \A b \in Replicas : IsFiniteSet(Seqs(b)')
    <2>1. /\ chains' = [b \in Replicas |-> chains'[b]]
          /\ \A b \in Replicas \ {Arb} : chains'[b] = chains[b]
          /\ Seqs(Arb)' = Seqs(Arb) \cup {k}
          /\ \A s \in Seqs(Arb) : chains'[Arb][s] = chains[Arb][s]
          /\ k \notin Seqs(Arb) => chains'[Arb][k] = w.link
          /\ \A b \in Replicas : IsFiniteSet(Seqs(b)')
        <3>1. PICK a : a = Arb
            OBVIOUS
        <3>2. /\ chains' = [b \in Replicas |-> chains'[b]]
              /\ \A b \in Replicas \ {a} : chains'[b] = chains[b]
              /\ Seqs(a)' = Seqs(a) \cup {k}
              /\ \A s \in Seqs(a) : chains'[a][s] = chains[a][s]
              /\ k \notin Seqs(a) => chains'[a][k] = w.link
              /\ \A b \in Replicas : IsFiniteSet(Seqs(b)')
            BY <1>1, <1>2, <3>1, PutFact
        <3>3. Arb' = Arb
            BY DEF Arb
        <3> QED
            BY <3>1, <3>2, <3>3
    <2>2. Arb' = Arb
        BY DEF Arb
    <2> QED
        BY <2>1, <2>2 DEF Held, Link
<1>7. \A b \in Replicas : /\ Seqs(b) \subseteq Seqs(b)' /\ Seqs(b)' \subseteq Held'
                          /\ \A s \in Seqs(b)' : chains'[b][s] = Link(s)'
    <2> SUFFICES ASSUME NEW b \in Replicas
                 PROVE  /\ Seqs(b) \subseteq Seqs(b)' /\ Seqs(b)' \subseteq Held'
                        /\ \A s \in Seqs(b)' : chains'[b][s] = Link(s)'
        OBVIOUS
    <2>0. Arb' = Arb
        BY DEF Arb
    <2>1. CASE b = Arb
        BY <1>6, <2>0, <2>1 DEF Held, Link
    <2>2. CASE b # Arb
        <3>1. chains'[b] = chains[b] /\ Seqs(b)' = Seqs(b)
            BY <1>6, <2>2 DEF Seqs
        <3> QED
            BY <1>6, <3>1 DEF ChainInv, OneChain
    <2> QED
        BY <2>1, <2>2
<1>8. OneChain'
    <2>1. \A s \in Held' : Link(s)'.seq = s /\ Link(s)'.packages \in Deltas
        BY <1>3, <1>6 DEF ChainInv, OneChain
    <2>2. \A s \in Held', t \in Nat : t < s => t \in Held'
        BY <1>2, <1>5, <1>6
    <2> QED
        BY <1>7, <2>1, <2>2 DEF OneChain
<1>9. Grown
    <2>1. \A p \in Packages : Upto(shas[p], shas'[p]) /\ (shas[p] = 0 => shas'[p] = 0)
        BY <1>5, UptoOrder
    <2> QED
        BY <1>2, <1>5, <1>6, <1>7, <2>1 DEF Grown
<1>10. /\ \A s \in Held, p \in Packages : Names(s, p)' <=> Names(s, p)
       /\ \A p \in Packages : Names(k, p)' <=> p \in DOMAIN w.delta
    BY <1>3, <1>6 DEF Names
<1>11. Truthful'
    <2>1. \A s \in Held, p \in Packages : Names(s, p)' => Upto(Link(s)'.packages[p], shas[p])
        BY <1>6, <1>10 DEF ChainInv, Truthful
    <2>2. \A p \in Packages : Names(k, p)' => Upto(Link(k)'.packages[p], shas[p])
        BY <1>3, <1>4, <1>6, <1>10 DEF Read
    <2>3. ASSUME NEW p \in Packages PROVE Names(0, p)' \/ shas[p] = 0
        <3>1. CASE Held = {}
            <4>1. k = 0
                BY <1>2, <3>1
            <4> QED
                BY <1>2, <1>4, <1>10, <3>1, <4>1 DEF Read
        <3>2. CASE Held # {}
            BY <1>10, <3>2 DEF ChainInv, Truthful, Names
        <3> QED
            BY <3>1, <3>2
    <2> QED
        BY <1>6, <2>1, <2>2, <2>3 DEF ChainInv, Truthful
<1>12. \* What the last link says of a package afterwards.
       ASSUME NEW p \in Packages, NEW v, \/ p \in DOMAIN w.delta /\ w.delta[p] = v
                                         \/ p \notin DOMAIN w.delta /\ LastSays(p, v)
       PROVE  LastSays(p, v)'
    <2>1. ASSUME NEW s \in Held', Names(s, p)', \A t \in Held' : t > s => ~Names(t, p)'
          PROVE  Link(s)'.packages[p] = v
        <3>1. CASE s = k
            BY <1>3, <1>6, <1>10, <1>12, <2>1, <3>1
        <3>2. CASE s # k
            <4>1. s \in Held /\ k > s
                BY <1>2, <1>5, <1>6, <3>2
            <4>2. p \notin DOMAIN w.delta
                BY <1>6, <1>10, <2>1, <4>1
            <4>3. Names(s, p) /\ \A t \in Held : t > s => ~Names(t, p)
                BY <1>6, <1>10, <2>1, <4>1
            <4> QED
                BY <1>6, <1>12, <4>1, <4>2, <4>3 DEF LastSays
        <3> QED
            BY <3>1, <3>2
    <2>2. (\A s \in Held' : ~Names(s, p)') => v = 0
        BY <1>6, <1>10, <1>12 DEF LastSays
    <2> QED
        BY <2>1, <2>2 DEF LastSays
<1>13. StillBacked
    <2> SUFFICES ASSUME Held # {}, NEW p \in Packages, NEW v \in Sha, Upto(v, shas[p]), Backs(v, p),
                        v = shas[p]
                 PROVE  LastSays(p, v)'
        BY DEF StillBacked, Backs
    <2>0. LastSays(p, v)
        BY DEF Backs
    <2>1. CASE p \notin DOMAIN w.delta
        BY <1>12, <2>0, <2>1
    <2>2. CASE p \in DOMAIN w.delta
        <3>1. w.delta[p] \in Sha /\ Upto(w.delta[p], v)
            BY <1>3, <1>4, <2>2 DEF Read
        <3>2. CASE \E s \in Held : Names(s, p)
            <4>1. PICK s \in Held : Names(s, p) /\ \A t \in Held : t > s => ~Names(t, p)
                BY <3>2, LastNamed
            <4>2. Link(s).packages[p] = v /\ s <= w.head.seq
                BY <1>2, <1>5, <2>0, <4>1 DEF LastSays
            <4>3. Upto(v, w.delta[p])
                BY <1>4, <2>2, <4>1, <4>2 DEF Read
            <4>4. w.delta[p] = v
                BY <3>1, <4>3, UptoOrder
            <4> QED
                BY <1>12, <2>2, <4>4
        <3>3. CASE \A s \in Held : ~Names(s, p)
            <4>1. v = 0 /\ w.delta[p] = 0
                BY <1>2, <1>4, <2>0, <2>2, <3>3 DEF LastSays, Read, Names
            <4> QED
                BY <1>12, <2>2, <4>1
        <3> QED
            BY <3>2, <3>3
    <2> QED
        BY <2>1, <2>2
<1>14. CertsVouch'
    <2> SUFFICES ASSUME NEW b \in Replicas, NEW p \in Packages, certs[b][p] = shas[p]
                 PROVE  LastSays(p, shas[p])'
        BY <1>6 DEF CertsVouch, Backs
    <2>0. PICK v \in Sha : v = shas[p]
        BY <1>5
    <2>1. CASE Held # {}
        <3>1. Upto(v, shas[p]) /\ Backs(v, p)
            BY <2>0, <2>1 DEF ChainInv, Truthful, CertsVouch
        <3>2. Backs(v, p)'
            BY <1>13, <2>1, <3>1 DEF StillBacked
        <3> QED
            BY <2>0, <3>2 DEF Backs
    <2>2. CASE Held = {}
        <3>1. v = 1
            BY <2>0, <2>2 DEF ChainInv, CertsVouch
        <3>2. p \in DOMAIN w.delta /\ Upto(w.delta[p], 1) /\ w.delta[p] \in Nat
            <4>1. w.head = NoLink /\ shas[p] = 1
                BY <1>2, <2>0, <2>2, <3>1
            <4>2. p \in DOMAIN w.delta
                BY <1>4, <4>1 DEF Read
            <4>3. Upto(w.delta[p], shas[p])
                BY <1>4, <4>2 DEF Read
            <4> QED
                BY <1>3, <4>1, <4>2, <4>3, ShaFact
        <3>3. w.delta[p] = v
            BY <3>1, <3>2 DEF Upto
        <3>4. LastSays(p, v)'
            BY <1>12, <3>2, <3>3
        <3> QED
            BY <2>0, <3>4
    <2> QED
        BY <2>1, <2>2
<1>15. Settled(w)'
    <2> SUFFICES ASSUME NEW p \in DOMAIN w.pending
                 PROVE  Upto(w.pending[p], shas[p]) /\ Backs(w.pending[p], p)'
        BY <1>6 DEF Settled
    <2>1. /\ Upto(w.pending[p], shas[p]) /\ p \in Packages
          /\ \/ p \in DOMAIN w.delta /\ w.delta[p] = w.pending[p]
             \/ p \notin DOMAIN w.delta /\ w.head = NoLink /\ w.pending[p] = 0
        BY <1>3, <1>4 DEF Read
    <2>2. \/ p \in DOMAIN w.delta /\ w.delta[p] = w.pending[p]
          \/ p \notin DOMAIN w.delta /\ LastSays(p, w.pending[p])
        BY <1>2, <2>1 DEF LastSays
    <2> QED
        BY <1>12, <2>1, <2>2 DEF Backs
<1> QED
    BY <1>2, <1>5, <1>6, <1>7, <1>8, <1>9, <1>11, <1>13, <1>14, <1>15

LEMMA AppendLinkKeeps ==
    ASSUME ChainInv, NEW n \in Auditors, AppendLink(n)
    PROVE  ChainInv'
<1>0. PICK w, k : w = walks[n] /\ k = w.link.seq
    OBVIOUS
<1>1. w.at = "cas" /\ Fit(w) /\ WalkTyped(w)
    BY <1>0, AuditFacts DEF AppendLink
<1>2. Arbiter(n) = Arb /\ w.synced = Replicas /\ w.link.prev = w.head
    BY <1>0, <1>1 DEF Fit, InStep, Appends, Arbiter, Arb
<1>3. CASE Quits(n) /\ UNCHANGED chains
    BY <1>3, Quitting DEF AppendLink, ReadOnly
<1>4. ASSUME k \notin Held, chains' = put_link(Arb, w.link), NEW v, Goes(n, v),
             v = Rest \/ v = Mirroring(w, w.synced \ {Arb})
      PROVE  ChainInv'
    <2>0. view' = view /\ shas' = shas /\ certs' = certs /\ pins' = pins
        BY DEF AppendLink
    <2>1. /\ Grown /\ StillBacked /\ OneChain' /\ Truthful' /\ CertsVouch'
          /\ k \in Held' /\ w.link = Link(k)' /\ Settled(w)'
          /\ chains' = [b \in Replicas |-> chains'[b]]
          /\ \A b \in Replicas : Seqs(b)' \in SUBSET Nat /\ IsFiniteSet(Seqs(b)')
        BY <1>0, <1>1, <1>4, <2>0, Landing
    <2>2. walks'[n] = v /\ \A m \in Auditors \ {n} : walks'[m] = walks[m] /\ pins'[m] = pins[m]
        BY <1>4, <2>0 DEF ChainInv, ChainTyped, Goes
    <2>3. WalkTyped(v) /\ Onwards(w, v)
        <3>1. CASE v = Rest
            BY <3>1, RestFact DEF Rest, Fit, Onwards
        <3>2. CASE v = Mirroring(w, w.synced \ {Arb})
            <4>1. w.synced \ {Arb} \in SUBSET Replicas
                BY <1>2
            <4> QED
                BY <1>1, <3>2, <4>1, MirroringFact
        <3> QED
            BY <1>4, <3>1, <3>2
    <2>4. Fenced(v)' /\ Read(v)' /\ InStep(v)' /\ Appends(v)'
        BY <1>0, <1>2, <2>1, <2>3 DEF Onwards, Fenced, Read, InStep, Appends, Settled, Audits
    <2>5. ChainTyped'
        <3>1. walks' = [m \in Auditors |-> walks'[m]]
            BY <1>4 DEF ChainInv, ChainTyped, Goes
        <3>2. \A m \in Auditors : WalkTyped(walks'[m])
            BY <2>2, <2>3 DEF ChainInv, ChainTyped
        <3>3. lapses' \in 0..MaxLapses
            BY LapseFact DEF AppendLink
        <3> QED
            BY <2>0, <2>1, <3>1, <3>2, <3>3 DEF ChainInv, ChainTyped, WalkTyped
    <2>6. AuditInv(n)'
        <3>1. Copies(n, v)'
            BY <2>3 DEF Copies, Onwards
        <3> QED
            BY <2>2, <2>4, <3>1 DEF AuditInv
    <2> QED
        BY <2>1, <2>2, <2>5, <2>6, AuditKeeps
<1>5. Free(Arbiter(n), walks[n].link.seq) <=> k \notin Held
    BY <1>0, <1>2 DEF Free, Held
<1> QED
    BY <1>0, <1>2, <1>3, <1>4, <1>5 DEF AppendLink, Quits

-----------------------------------------------------------------------------
(* The theorem.                                                            *)

LEMMA ChainStart == ChainInit => ChainInv
<1> SUFFICES ASSUME ChainInit PROVE ChainInv
    OBVIOUS
<1>1. /\ view \in Fleets /\ shas = [p \in Packages |-> 1] /\ lapses = 0 /\ pins = view.pins
      /\ chains = [b \in Replicas |-> [s \in {} |-> NoLink]]
      /\ certs \in [Replicas -> {[p \in Packages |-> 1]}]
      /\ walks = [n \in Auditors |-> Rest]
    BY DEF ChainInit
<1>2. \A b \in Replicas : Seqs(b) = {}
    BY <1>1 DEF Seqs
<1>3. Held = {}
    BY <1>2, ArbFact DEF Held
<1>4. view \in Fleet /\ MaxLapses \in Nat
    BY <1>1, TransparencyAssumption
<1>5. view.pins \in [Auditors -> Replicas] /\ view.shas \in 1..MaxShas
    BY <1>4 DEF Fleet
<1>6. 1 \in Sha
    BY <1>5, ShaFact DEF Sha
<1>7. \A b \in Replicas, p \in Packages : certs[b][p] = 1
    BY <1>1
<1>8. ChainTyped
    <2>1. \A n \in Auditors : WalkTyped(walks[n])
        BY <1>1, RestFact DEF Fit
    <2>2. shas \in [Packages -> Sha] /\ certs \in [Replicas -> [Packages -> Sha]]
        BY <1>1, <1>6
    <2>3. \A b \in Replicas : Seqs(b) \in SUBSET Nat /\ IsFiniteSet(Seqs(b))
        BY <1>2, FS_EmptySet
    <2>4. chains = [b \in Replicas |-> chains[b]] /\ walks = [n \in Auditors |-> walks[n]]
        BY <1>1
    <2>5. lapses \in 0..MaxLapses
        BY <1>1, <1>4
    <2> QED
        BY <1>1, <1>5, <2>1, <2>2, <2>3, <2>4, <2>5 DEF ChainTyped
<1>9. OneChain /\ Truthful /\ CertsVouch
    BY <1>1, <1>2, <1>3, <1>7, <1>6, UptoOrder DEF OneChain, Truthful, CertsVouch
<1>10. \A n \in Auditors : AuditInv(n)
    BY <1>1, RestFact DEF AuditInv, Fit
<1> QED
    BY <1>8, <1>9, <1>10 DEF ChainInv

LEMMA ChainStep == ChainInv /\ [ChainNext]_chainVars => ChainInv'
<1> SUFFICES ASSUME ChainInv, [ChainNext]_chainVars PROVE ChainInv'
    OBVIOUS
<1>1. ASSUME NEW p \in Churning, Rewrite(p) PROVE ChainInv'
    BY <1>1, TransparencyAssumption, RewriteKeeps
<1>2. ASSUME NEW n \in Auditors, AuditStep(n) PROVE ChainInv'
    BY <1>2, BeginAuditKeeps, WalkKeeps, ListOwnKeeps, ListPeerKeeps, PullKeeps, PushKeeps,
       PulledKeeps, ReadHeadsKeeps, AppendLinkKeeps, MirrorKeeps, CertifyKeeps DEF AuditStep
<1>3. ASSUME NEW n \in Auditors, Switch(n) PROVE ChainInv'
    BY <1>3, SwitchKeeps
<1>4. CASE UNCHANGED chainVars
    <2>1. ReadOnly /\ lapses' = lapses /\ walks' = walks
        BY <1>4 DEF chainVars, ReadOnly
    <2>2. Kept
        BY <2>1, KeptStill
    <2>3. OneChain' /\ Truthful' /\ CertsVouch' /\ Grown /\ StillBacked
        BY <2>2, KeptChain
    <2>4. \A m \in Auditors : AuditInv(m)'
        BY <2>1, <2>2, <2>3, OthersAudit DEF Kept
    <2>5. ChainTyped'
        BY <1>4 DEF chainVars, ChainInv, ChainTyped, Seqs, WalkTyped
    <2> QED
        BY <2>3, <2>4, <2>5 DEF ChainInv
<1> QED
    BY <1>1, <1>2, <1>3, <1>4 DEF ChainNext

LEMMA ChainInvSafe == ChainInv => ChainSafe
<1> SUFFICES ASSUME ChainInv PROVE ChainSafe
    OBVIOUS
<1>1. ChainTypeOK
    <2>1. \A b \in Replicas : \A s \in Seqs(b) : chains[b][s].seq = s
        BY DEF ChainInv, OneChain
    <2>2. \A n \in Auditors : /\ walks[n].at \in Steps
                              /\ walks[n].at \in {"cas", "mirror"} => walks[n].link.prev = walks[n].head
        BY AuditFacts, WalkFields DEF Fit, Appends
    <2> QED
        BY <2>1, <2>2 DEF ChainTypeOK, ChainInv, ChainTyped
<1>2. NoFork
    BY DEF NoFork, ChainInv, OneChain
<1>3. Vouched
    <2> SUFFICES ASSUME Links # {}, NEW b \in Replicas, NEW p \in Packages, certs[b][p] = shas[p]
                 PROVE  Committed(p) = {shas[p]}
        BY DEF Vouched
    <2>1. Links = {Link(s) : s \in Held}
        <3>1. \A c \in Replicas : \A s \in Seqs(c) : s \in Held /\ chains[c][s] = Link(s)
            BY DEF ChainInv, OneChain
        <3>2. \A s \in Held : s \in Seqs(Arb) /\ Link(s) = chains[Arb][s] /\ Arb \in Replicas
            BY ArbFact DEF Held, Link
        <3> QED
            BY <3>1, <3>2 DEF Links
    <2>2. LastSays(p, shas[p])
        <3>1. Held # {}
            BY <2>1
        <3> QED
            BY <3>1 DEF ChainInv, CertsVouch, Backs
    <2>3. PICK named, K : /\ named = {l \in Links : p \in DOMAIN l.packages}
                          /\ K = {s \in Held : Names(s, p)}
        OBVIOUS
    <2>4. named = {Link(s) : s \in K}
        BY <2>1, <2>3 DEF Names
    <2>5. CASE K = {}
        <3>1. named = {} /\ shas[p] = 0
            BY <2>2, <2>3, <2>4, <2>5 DEF LastSays
        <3> QED
            BY <2>3, <3>1 DEF Committed
    <2>6. CASE K # {}
        <3>1. \A s \in K : Link(s).seq = s
            BY <2>3 DEF ChainInv, OneChain
        <3>2. {l.seq : l \in named} = K
            BY <2>4, <3>1
        <3>3. K \in SUBSET Nat /\ IsFiniteSet(K)
            <4>1. K \subseteq Held
                BY <2>3
            <4> QED
                BY <4>1, HeldFact, FS_Subset
        <3>4. PICK m : m = Max(K)
            OBVIOUS
        <3>5. m \in K /\ \A t \in K : m >= t
            BY <2>6, <3>3, <3>4, MaxFact
        <3>6. {l \in named : l.seq = m} = {Link(m)}
            BY <2>4, <3>1, <3>5
        <3>7. Link(m).packages[p] = shas[p]
            <4>1. m \in Held /\ Names(m, p)
                BY <2>3, <3>5
            <4>2. ASSUME NEW t \in Held, t > m PROVE ~Names(t, p)
                <5> SUFFICES ASSUME Names(t, p) PROVE FALSE
                    OBVIOUS
                <5>1. t \in K
                    BY <2>3
                <5> QED
                    BY <3>3, <3>5, <4>2, <5>1
            <4> QED
                BY <2>2, <4>1, <4>2 DEF LastSays
        <3>8. named # {}
            BY <2>4, <2>6
        <3>9. Committed(p) = {l.packages[p] : l \in {k \in named : k.seq = m}}
            BY <2>3, <3>2, <3>4, <3>8 DEF Committed
        <3> QED
            BY <3>6, <3>7, <3>9
    <2> QED
        BY <2>5, <2>6
<1> QED
    BY <1>1, <1>2, <1>3 DEF ChainSafe

\* However many buckets and leaders there are, wherever each leader is pinned and
\* whichever calls fail, no two buckets hold different links at one seq, and a
\* package whose stored fingerprint is its truth is committed at that truth.
THEOREM ChainSafeHolds == ChainSpec => []ChainSafe
<1>1. ChainInv => ChainSafe
    BY ChainInvSafe
<1> QED
    BY <1>1, ChainStart, ChainStep, PTL DEF ChainSpec
=============================================================================
