---------------------------- MODULE LeaseProofs ----------------------------
(***************************************************************************)
(* The lease is exclusive until its TTL runs out, for every number of nodes, *)
(* every TTL and every bound on time, when clocks are synchronized and a     *)
(* read that takes longer than two TTLs fails.                               *)
(***************************************************************************)
EXTENDS Lease, TLAPS

-----------------------------------------------------------------------------
(* The inductive invariant.                                                  *)

\* What a check holds in each of its phases.
CheckShape(n) ==
  LET c == check[n]
  IN  /\ c.phase = "put" \/ (c.phase = "done" /\ c.held) =>
           c.next \in LeaseRecord /\ c.next.holder = n
      /\ status[n] # "up" => c.phase \in {"none", "put"}

\* A node that is releasing read its own lease; one that is not up does not lead.
ReleaseShape(n) ==
  /\ status[n] = "releasing" => release[n] \in LeaseRecord /\ release[n].holder = n
  /\ status[n] # "up" => until[n] = -1

Shape == TypeOK /\ \A n \in Nodes : CheckShape(n) /\ ReleaseShape(n)

LEMMA NoCheckType == NoCheck \in Check /\ NoCheck.phase = "none"
  BY DEF NoCheck, Check, LeaseObject

LEMMA DoneType ==
  ASSUME check \in [Nodes -> Check], NEW n \in Nodes, NEW held \in BOOLEAN, Done(n, held)
  PROVE  /\ check' \in [Nodes -> Check]
         /\ check'[n].phase = "done" /\ check'[n].held = held
         /\ check'[n].next = check[n].next
         /\ check'[n].clock = check[n].clock /\ check'[n].started = check[n].started
         /\ \A m \in Nodes \ {n} : check'[m] = check[m]
<1> DEFINE c == [check[n] EXCEPT !.phase = "done", !.held = held]
<1>1. check' = [check EXCEPT ![n] = c]
  BY DEF Done
<1>2. /\ c \in Check /\ c.phase = "done" /\ c.held = held
      /\ c.next = check[n].next /\ c.clock = check[n].clock /\ c.started = check[n].started
  BY DEF Check
<1> HIDE DEF c
<1> QED
  BY <1>1, <1>2

(* Every step of the lease protocol keeps its state well formed.             *)
LEMMA ShapeCorrect == Spec => []Shape
<1> USE TtlAssumption, NoCheckType
<1>1. Init => Shape
  BY DEF Init, Shape, TypeOK, LeaseObject, CheckShape, ReleaseShape
<1>2. Shape /\ [Next]_vars => Shape'
  <2> SUFFICES ASSUME Shape, [Next]_vars PROVE Shape'
    OBVIOUS
  <2> USE DEF Shape, TypeOK, CheckShape, ReleaseShape
  <2>1. ASSUME NEW n \in Nodes, StartCheck(n) PROVE Shape'
    <3>1. Spawned(now + Skew[n]) \in Check /\ Spawned(now + Skew[n]).phase = "get"
      BY DEF Spawned, Check, LeaseObject
    <3> QED
      BY <2>1, <3>1 DEF StartCheck
  <2>2. ASSUME NEW n \in Nodes, ReadLease(n) PROVE Shape'
    BY <2>2 DEF ReadLease, Prepare, Done, LeaseJson, NextTerm, Check, LeaseObject, LeaseRecord
  <2>3. ASSUME NEW n \in Nodes, WriteLease(n) PROVE Shape'
    <3>0. Lands(n) \in BOOLEAN
      BY DEF Lands
    <3>1. check[n] \in Check /\ check[n].next \in LeaseRecord /\ check[n].next.holder = n
      BY <2>3 DEF WriteLease, Lands
    <3>2. lease' \in LeaseObject
      BY <2>3, <3>1 DEF WriteLease, Lands, LeaseObject
    <3>3. CASE status[n] = "up" /\ (Done(n, Lands(n)) \/ Done(n, FALSE))
      <4>1. PICK held \in BOOLEAN : Done(n, held)
        BY <3>0, <3>3
      <4>2. /\ check' \in [Nodes -> Check]
            /\ check'[n].phase = "done" /\ check'[n].next = check[n].next
            /\ \A m \in Nodes \ {n} : check'[m] = check[m]
        BY <4>1, DoneType
      <4> QED
        BY <2>3, <3>1, <3>2, <3>3, <4>2 DEF WriteLease, Lands
    <3>4. CASE status[n] # "up" /\ check' = [check EXCEPT ![n] = NoCheck]
      BY <2>3, <3>2, <3>4 DEF WriteLease, Lands
    <3> QED
      BY <2>3, <3>3, <3>4 DEF WriteLease, Lands
  <2>4. ASSUME NEW n \in Nodes, CallFails(n) PROVE Shape'
    <3>1. CASE status[n] = "up"
      <4>1. /\ check' \in [Nodes -> Check]
            /\ check'[n].phase = "done" /\ check'[n].held = FALSE
            /\ \A m \in Nodes \ {n} : check'[m] = check[m]
        BY <2>4, <3>1, DoneType DEF CallFails
      <4> QED
        BY <2>4, <3>1, <4>1 DEF CallFails
    <3>2. CASE status[n] # "up"
      BY <2>4, <3>2 DEF CallFails
    <3> QED
      BY <3>1, <3>2
  <2>5. ASSUME NEW n \in Nodes, Answer(n) PROVE Shape'
    BY <2>5 DEF Answer, Check, LeaseRecord
  <2>6. ASSUME NEW n \in Nodes, GiveUpWaiting(n) PROVE Shape'
    BY <2>6 DEF GiveUpWaiting
  <2>7. ASSUME NEW n \in Nodes, BeginRelease(n) PROVE Shape'
    BY <2>7 DEF BeginRelease, Abandoned, LeaseObject
  <2>8. ASSUME NEW n \in Nodes, FinishRelease(n) PROVE Shape'
    BY <2>8 DEF FinishRelease, StillOurs, Released, LeaseObject, LeaseRecord
  <2>9. ASSUME NEW n \in Nodes, Crash(n) PROVE Shape'
    BY <2>9 DEF Crash, Abandoned, LeaseObject
  <2>10. CASE Tick
    BY <2>10 DEF Tick
  <2>11. CASE UNCHANGED vars
    BY <2>11 DEF vars
  <2> QED
    BY <2>1, <2>2, <2>3, <2>4, <2>5, <2>6, <2>7, <2>8, <2>9, <2>10, <2>11
       DEF Next, CheckStep
<1> QED
  BY <1>1, <1>2, PTL DEF Spec

(* Every step of the lease protocol keeps its state well formed, whatever    *)
(* the clocks say and however long a storage call takes.                     *)
THEOREM TypeCorrect == Spec => []TypeOK
  BY ShapeCorrect, PTL DEF Shape

-----------------------------------------------------------------------------
(* Exclusion. What makes it inductive: a leader's answer is always backed by *)
(* the object in the store, and the object a check is about to overwrite     *)
(* backs nobody but itself.                                                  *)

\* The store names n until time t at least.
Backed(n, t) == lease \in LeaseRecord /\ lease.holder = n /\ lease.expires >= t

CheckSafe(n) ==
  LET c == check[n]
  IN  /\ c.phase # "none" =>
           c.clock = c.started /\ c.started <= now /\ until[n] <= c.clock + TTL
      /\ c.phase = "put" =>
           /\ c.next.expires = c.clock + TTL
           /\ c.seen = NoLease \/ c.seen.holder = n \/ c.seen.expires < c.clock
      /\ c.phase = "done" /\ c.held =>
           /\ c.next.expires = c.clock + TTL
           /\ now <= c.next.expires => Backed(n, c.next.expires)

Safe ==
  /\ lease \in LeaseRecord => lease.expires <= now + TTL
  /\ \A n \in Nodes : CheckSafe(n)
  /\ \A n \in Nodes : until[n] <= now + TTL
  /\ \A n \in Nodes : Leads(n) => Backed(n, until[n])

\* What the other nodes rely on when the object changes in a step.
LEMMA BackedKept ==
  ASSUME NEW n \in Nodes, NEW t \in Int, Backed(n, t), t >= now, Shape, Safe,
         NEW m \in Nodes \ {n}, WriteLease(m) \/ FinishRelease(m)
  PROVE  Backed(n, t)'
<1> USE TtlAssumption
<1>1. lease' = lease
  <2>1. CASE WriteLease(m)
    <3>1. /\ check[m] \in Check /\ check[m].phase = "put" /\ CheckSafe(m)
          /\ lease' = IF lease = check[m].seen THEN check[m].next ELSE lease
      BY <2>1 DEF WriteLease, Lands, Shape, TypeOK, Safe
    <3>2. lease # check[m].seen
      BY <3>1 DEF CheckSafe, Check, Backed, LeaseRecord, Shape, TypeOK
    <3> QED
      BY <3>1, <3>2
  <2>2. CASE FinishRelease(m)
    BY <2>2 DEF FinishRelease, StillOurs, Shape, ReleaseShape, Backed
  <2> QED
    BY <2>1, <2>2
<1> QED
  BY <1>1 DEF Backed

LEMMA SafeStep ==
  ASSUME Synchronized, Shape, Shape', Safe, [Next]_vars
  PROVE  Safe'
<1> USE TtlAssumption
<1> USE DEF Safe, CheckSafe, Leads, Backed, Shape, TypeOK
<1>1. ASSUME NEW n \in Nodes, StartCheck(n) PROVE Safe'
  BY <1>1 DEF StartCheck, Spawned, Synchronized
<1>2. ASSUME NEW n \in Nodes, ReadLease(n) PROVE Safe'
  <2>1. /\ check[n] \in Check /\ check[n].phase = "get"
        /\ UNCHANGED <<now, lease, until, release, status>>
        /\ now - check[n].started <= ReadTimeout
    BY <1>2 DEF ReadLease
  <2>2. CASE Done(n, FALSE)
    <3>1. /\ check'[n].phase = "done" /\ check'[n].held = FALSE
          /\ check'[n].clock = check[n].clock /\ check'[n].started = check[n].started
          /\ \A m \in Nodes \ {n} : check'[m] = check[m]
      BY <2>2, DoneType
    <3> QED
      BY <2>1, <3>1
  <2>3. ASSUME NEW term \in Nat, Prepare(n, LeaseJson(n, term, check[n].clock)),
               lease = NoLease \/ lease.holder = n \/ Stealable(lease, check[n].clock)
        PROVE  Safe'
    <3>1. /\ check'[n].phase = "put" /\ check'[n].seen = lease
          /\ check'[n].next.expires = check[n].clock + TTL
          /\ check'[n].clock = check[n].clock /\ check'[n].started = check[n].started
          /\ \A m \in Nodes \ {n} : check'[m] = check[m]
      BY <2>1, <2>3 DEF Prepare, LeaseJson, Check
    <3>2. lease = NoLease \/ lease.holder = n \/ lease.expires < check[n].clock
      BY <2>1, <2>3 DEF Stealable, Synchronized, Check, LeaseObject, LeaseRecord
    <3> QED
      BY <2>1, <3>1, <3>2
  <2>4. lease # NoLease => lease.term \in Nat /\ NextTerm(lease.term) \in Nat
    BY DEF LeaseObject, LeaseRecord, NextTerm
  <2> QED
    BY <1>2, <2>2, <2>3, <2>4 DEF ReadLease
<1>3. ASSUME NEW n \in Nodes, WriteLease(n) PROVE Safe'
  <2> DEFINE c == check[n]
  <2>1. /\ c \in Check /\ c.phase = "put" /\ c.next \in LeaseRecord
        /\ c.next.holder = n /\ c.next.expires = c.clock + TTL
        /\ UNCHANGED <<now, until, release, status>>
    BY <1>3 DEF WriteLease, Lands, CheckShape
  <2>2. /\ lease = c.seen => lease' = c.next
        /\ lease # c.seen => lease' = lease
    BY <1>3 DEF WriteLease, Lands
  <2>3. lease' \in LeaseRecord => lease'.expires <= now' + TTL
    BY <2>1, <2>2 DEF Check, LeaseRecord
  <2>4. /\ check'[n].phase = "none" \/ check'[n].phase = "done"
        /\ check'[n].phase = "done" =>
             /\ check'[n].next = c.next /\ check'[n].clock = c.clock
             /\ check'[n].started = c.started
             /\ check'[n].held => lease = c.seen
        /\ \A m \in Nodes \ {n} : check'[m] = check[m]
    <3>1. CASE status[n] = "up"
      <4>1. Done(n, lease = c.seen) \/ Done(n, FALSE)
        BY <1>3, <3>1 DEF WriteLease, Lands
      <4>2. PICK held \in BOOLEAN : Done(n, held) /\ (held => lease = c.seen)
        BY <4>1
      <4> QED
        BY <4>2, DoneType
    <3>2. CASE status[n] # "up"
      BY <1>3, <3>2, NoCheckType DEF WriteLease, Lands
    <3> QED
      BY <3>1, <3>2
  <2>5. CheckSafe(n)'
    BY <2>1, <2>2, <2>4 DEF Check, LeaseRecord
  <2>6. ASSUME NEW m \in Nodes \ {n} PROVE CheckSafe(m)'
    <3>1. CASE check[m].phase = "done" /\ check[m].held /\ now <= check[m].next.expires
      <4>1. check[m].next.expires \in Int /\ Backed(m, check[m].next.expires)
        BY <3>1 DEF CheckShape, LeaseRecord
      <4>2. Backed(m, check[m].next.expires)'
        BY <1>3, <2>4, <3>1, <4>1, BackedKept
      <4> QED
        BY <2>1, <2>4, <3>1, <4>2
    <3>2. CASE ~(check[m].phase = "done" /\ check[m].held /\ now <= check[m].next.expires)
      BY <2>1, <2>4, <3>2
    <3> QED
      BY <3>1, <3>2
  <2>7. ASSUME NEW m \in Nodes, Leads(m)' PROVE Backed(m, until[m])'
    <3>1. Leads(m) /\ Backed(m, until[m])
      BY <2>1, <2>7
    <3>2. CASE m = n
      BY <2>1, <2>2, <3>1, <3>2 DEF LeaseRecord
    <3>3. CASE m # n
      BY <1>3, <2>1, <3>1, <3>3, BackedKept
    <3> QED
      BY <3>2, <3>3
  <2> QED
    BY <2>1, <2>3, <2>5, <2>6, <2>7
<1>4. ASSUME NEW n \in Nodes, CallFails(n) PROVE Safe'
  <2>1. /\ check'[n].phase = "none" \/ (check'[n].phase = "done" /\ check'[n].held = FALSE)
        /\ check'[n].phase = "done" =>
             check'[n].clock = check[n].clock /\ check'[n].started = check[n].started
        /\ \A m \in Nodes \ {n} : check'[m] = check[m]
    <3>1. CASE status[n] = "up"
      BY <1>4, <3>1, DoneType DEF CallFails
    <3>2. CASE status[n] # "up"
      BY <1>4, <3>2, NoCheckType DEF CallFails
    <3> QED
      BY <3>1, <3>2
  <2> QED
    BY <1>4, <2>1 DEF CallFails
<1>5. ASSUME NEW n \in Nodes, Answer(n) PROVE Safe'
  <2>1. check'[n].phase = "none" /\ \A m \in Nodes \ {n} : check'[m] = check[m] /\ until'[m] = until[m]
    BY <1>5, NoCheckType DEF Answer
  <2>2. until'[n] = -1 \/ /\ check[n].held /\ until'[n] = check[n].next.expires
                          /\ check[n].phase = "done" /\ check[n] \in Check
    BY <1>5 DEF Answer
  <2> QED
    BY <1>5, <2>1, <2>2 DEF Answer, Check, LeaseRecord
<1>6. ASSUME NEW n \in Nodes, GiveUpWaiting(n) PROVE Safe'
  BY <1>6 DEF GiveUpWaiting, Check
<1>7. ASSUME NEW n \in Nodes, BeginRelease(n) PROVE Safe'
  BY <1>7, NoCheckType DEF BeginRelease, Abandoned, Check
<1>8. ASSUME NEW n \in Nodes, FinishRelease(n) PROVE Safe'
  <2>1. /\ UNCHANGED <<now, check, until>>
        /\ check[n].phase \in {"none", "put"} /\ until[n] = -1
    BY <1>8 DEF FinishRelease, StillOurs, CheckShape, ReleaseShape
  <2>2. lease' = lease \/ lease'.expires = 0
    BY <1>8 DEF FinishRelease, StillOurs, Released
  <2>3. ASSUME NEW m \in Nodes PROVE CheckSafe(m)'
    <3>1. CASE check[m].phase = "done" /\ check[m].held /\ now <= check[m].next.expires
      <4>1. check[m].next.expires \in Int /\ Backed(m, check[m].next.expires) /\ m # n
        BY <2>1, <3>1 DEF CheckShape, LeaseRecord
      <4>2. Backed(m, check[m].next.expires)'
        BY <1>8, <2>1, <3>1, <4>1, BackedKept
      <4> QED
        BY <2>1, <3>1, <4>2
    <3>2. CASE ~(check[m].phase = "done" /\ check[m].held /\ now <= check[m].next.expires)
      BY <2>1, <3>2
    <3> QED
      BY <3>1, <3>2
  <2>4. ASSUME NEW m \in Nodes, Leads(m)' PROVE Backed(m, until[m])'
    BY <1>8, <2>1, <2>4, BackedKept
  <2> QED
    BY <2>1, <2>2, <2>3, <2>4
<1>9. ASSUME NEW n \in Nodes, Crash(n) PROVE Safe'
  BY <1>9, NoCheckType DEF Crash, Abandoned, Check
<1>10. CASE Tick
  BY <1>10 DEF Tick, Check, LeaseRecord
<1>11. CASE UNCHANGED vars
  BY <1>11 DEF vars
<1> QED
  BY <1>1, <1>2, <1>3, <1>4, <1>5, <1>6, <1>7, <1>8, <1>9, <1>10, <1>11
     DEF Next, CheckStep

LEMMA SafeCorrect ==
  ASSUME Synchronized
  PROVE  Spec => []Safe
<1>1. Init => Safe
  BY TtlAssumption DEF Init, Safe, CheckSafe, Leads, NoCheck, LeaseRecord
<1>2. Shape /\ Shape' /\ Safe /\ [Next]_vars => Safe'
  BY SafeStep
<1> QED
  BY <1>1, <1>2, ShapeCorrect, PTL DEF Spec

(* At most one node acts on an unexpired lease, for any number of nodes and  *)
(* any TTL: try_hold, is_leader_within and release exclude each other until  *)
(* the TTL runs out, provided clocks agree and slow reads fail.              *)
THEOREM ExclusiveLease ==
  ASSUME Synchronized
  PROVE  Spec => []Exclusive
<1>1. Safe => Exclusive
  BY DEF Safe, Exclusive, Backed
<1> QED
  BY <1>1, SafeCorrect, PTL

(* A node that starts to lead has more than half of the TTL ahead of it,     *)
(* however late is_leader_within got the carried check's answer.             *)
THEOREM FreshWinHolds ==
  ASSUME Synchronized
  PROVE  Spec => FreshWin
<1> DEFINE A == \A n \in Nodes :
       until'[n] # until[n] /\ until'[n] # -1 => 2 * (until'[n] - now) > TTL
<1>1. Shape /\ Safe /\ [Next]_vars => [A]_vars
  <2> SUFFICES ASSUME Shape, Safe, Next, NEW n \in Nodes,
                      until'[n] # until[n], until'[n] # -1
               PROVE  2 * (until'[n] - now) > TTL
    OBVIOUS
  <2>1. Answer(n)
    BY DEF Next, CheckStep, StartCheck, ReadLease, WriteLease, Lands, CallFails, Answer,
           GiveUpWaiting, BeginRelease, FinishRelease, StillOurs, Crash, Tick, Shape, TypeOK
  <2>2. /\ check[n] \in Check /\ check[n].phase = "done"
        /\ check[n].held /\ Fresh(n) /\ until'[n] = check[n].next.expires
    BY <2>1 DEF Answer, Shape, TypeOK
  <2>3. until'[n] = check[n].started + TTL
    BY <2>2 DEF Safe, CheckSafe
  <2> QED
    BY <2>2, <2>3, TtlAssumption DEF Fresh, Check, Shape, TypeOK
<1>2. Spec => [][A]_vars
  BY <1>1, ShapeCorrect, SafeCorrect, PTL DEF Spec
<1> QED
  BY <1>2 DEF FreshWin

(* release() expires only the releasing node's own lease, whatever peers     *)
(* wrote between its read and its conditional overwrite.                     *)
THEOREM ReleaseSparesPeersHolds == Spec => ReleaseSparesPeers
<1> DEFINE A == lease' # lease /\ lease'.holder = Nobody =>
       \E n \in Nodes : status[n] = "releasing" /\ lease.holder = n
<1>1. Shape /\ [Next]_vars => [A]_vars
  <2> SUFFICES ASSUME Shape, Next, lease' # lease, lease'.holder = Nobody
               PROVE  \E n \in Nodes : status[n] = "releasing" /\ lease.holder = n
    OBVIOUS
  <2>1. PICK n \in Nodes : WriteLease(n) \/ FinishRelease(n)
    BY DEF Next, CheckStep, StartCheck, ReadLease, CallFails, Answer,
           GiveUpWaiting, BeginRelease, Crash, Tick
  <2>2. CASE WriteLease(n)
    BY <2>2, TtlAssumption DEF WriteLease, Lands, Shape, CheckShape
  <2>3. CASE FinishRelease(n)
    BY <2>3 DEF FinishRelease, StillOurs, Shape, ReleaseShape
  <2> QED
    BY <2>1, <2>2, <2>3
<1>2. Spec => [][A]_vars
  BY <1>1, ShapeCorrect, PTL DEF Spec
<1> QED
  BY <1>2 DEF ReleaseSparesPeers
-----------------------------------------------------------------------------
(* Terms. What a check is about to write over an object it read: the same    *)
(* term over its own lease, the next one over anybody else's.                *)
TermShape ==
  \A n \in Nodes :
    check[n].phase = "put" /\ check[n].seen # NoLease =>
      check[n].next.term = IF check[n].seen.holder = n THEN check[n].seen.term
                                                       ELSE NextTerm(check[n].seen.term)

LEMMA TermShapeCorrect == Spec => []TermShape
<1>1. Init => TermShape
  BY NoCheckType DEF Init, TermShape
<1>2. Shape /\ TermShape /\ [Next]_vars => TermShape'
  <2> SUFFICES ASSUME Shape, TermShape, [Next]_vars, NEW m \in Nodes,
                      check'[m].phase = "put", check'[m].seen # NoLease
               PROVE  check'[m].next.term = IF check'[m].seen.holder = m
                         THEN check'[m].seen.term ELSE NextTerm(check'[m].seen.term)
    BY DEF TermShape
  <2>1. CASE check'[m] = check[m]
    BY <2>1 DEF TermShape
  <2>2. CASE check'[m] # check[m]
    <3>1. ReadLease(m)
      <4>1. PICK n \in Nodes : \/ CheckStep(n) \/ CallFails(n) \/ BeginRelease(n) \/ Crash(n)
        BY <2>2 DEF Next, GiveUpWaiting, FinishRelease, Tick, vars
      <4>2. n = m
        BY <4>1, <2>2 DEF CheckStep, StartCheck, ReadLease, WriteLease, CallFails, Answer, Done,
                          Prepare, BeginRelease, Crash, Shape, TypeOK
      <4> QED
        BY <4>1, <4>2, <2>2, NoCheckType
           DEF CheckStep, StartCheck, Spawned, WriteLease, CallFails, Answer, Done, BeginRelease,
               Crash, Abandoned, Shape, TypeOK, Check
    <3>2. PICK object : Prepare(m, object) /\ object.term =
                   IF lease = NoLease THEN 1
                   ELSE IF lease.holder = m THEN lease.term ELSE NextTerm(lease.term)
      BY <3>1 DEF ReadLease, Done, Shape, TypeOK, Check, LeaseJson
    <3>3. check'[m].seen = lease /\ check'[m].next = object
      BY <3>2 DEF Prepare, Shape, TypeOK, Check
    <3> QED
      BY <3>2, <3>3
  <2> QED
    BY <2>1, <2>2
<1> QED
  BY <1>1, <1>2, ShapeCorrect, PTL DEF Spec

(* Leadership changes hands only upward: whoever writes over a lease it does *)
(* not hold writes a higher term, and a renewal or release keeps the term.   *)
THEOREM TermsRiseHolds == Spec => TermsRise
<1> DEFINE A == lease # NoLease /\ lease' # lease /\ lease.term < MaxTerm =>
       \/ lease'.holder \in {lease.holder, Nobody} /\ lease'.term = lease.term
       \/ lease'.holder # Nobody /\ lease'.term > lease.term
<1>1. Shape /\ TermShape /\ [Next]_vars => [A]_vars
  <2> SUFFICES ASSUME Shape, TermShape, Next,
                      lease # NoLease, lease' # lease, lease.term < MaxTerm
               PROVE  \/ lease'.holder \in {lease.holder, Nobody} /\ lease'.term = lease.term
                      \/ lease'.holder # Nobody /\ lease'.term > lease.term
    OBVIOUS
  <2>1. PICK n \in Nodes : WriteLease(n) \/ FinishRelease(n)
    BY DEF Next, CheckStep, StartCheck, ReadLease, CallFails, Answer,
           GiveUpWaiting, BeginRelease, Crash, Tick
  <2>2. lease \in LeaseRecord /\ lease.term \in Nat
    BY DEF Shape, TypeOK, LeaseObject, LeaseRecord
  <2>3. CASE WriteLease(n)
    <3>1. /\ check[n].phase = "put" /\ lease = check[n].seen /\ lease' = check[n].next
          /\ lease'.holder = n
      BY <2>3 DEF WriteLease, Lands, Shape, CheckShape
    <3>2. lease'.term = IF lease.holder = n THEN lease.term ELSE lease.term + 1
      BY <3>1 DEF TermShape, NextTerm
    <3> QED
      BY <3>1, <3>2, <2>2, TtlAssumption
  <2>4. CASE FinishRelease(n)
    BY <2>4 DEF FinishRelease, StillOurs, Released, Shape, ReleaseShape
  <2> QED
    BY <2>1, <2>3, <2>4
<1>2. Spec => [][A]_vars
  BY <1>1, ShapeCorrect, TermShapeCorrect, PTL DEF Spec
<1> QED
  BY <1>2 DEF TermsRise

-----------------------------------------------------------------------------
(* Together: the lease of src/lease.rs is well formed and exclusive in every *)
(* reachable state, for every number of nodes and every TTL.                 *)
THEOREM LeaseSafeHolds ==
  ASSUME Synchronized
  PROVE  Spec => []LeaseSafe
<1>1. TypeOK /\ Exclusive => LeaseSafe
  BY DEF LeaseSafe
<1> QED
  BY <1>1, TypeCorrect, ExclusiveLease, PTL

(* And no step of it starts a stale leadership, expires a peer's lease or    *)
(* hands the lease on without raising its term.                              *)
THEOREM LeaseStepsHold ==
  ASSUME Synchronized
  PROVE  Spec => LeaseSteps
  BY FreshWinHolds, ReleaseSparesPeersHolds, TermsRiseHolds DEF LeaseSteps
=============================================================================
