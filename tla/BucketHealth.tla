---------------------------- MODULE BucketHealth ----------------------------
(***************************************************************************)
(* One node's view of its buckets (src/bucket_health.rs), the loop that    *)
(* probes them and moves the node's pins (src/worker.rs), and the pins     *)
(* themselves (src/buckets.rs).  Every storage call of a request reports   *)
(* its outcome while the loop is between two awaits, so a bucket may fail  *)
(* and recover between the loop's read of a stamp and its acknowledgement, *)
(* or between a proposed switch and its publication.                       *)
(*                                                                         *)
(* An Instant is the time since, counted up to the return window.  The     *)
(* selection generation that every switch bumps is left out: GlobalIndex   *)
(* models what it cancels.  A bucket's topology and format stamps are one  *)
(* value here; Topology models how they are written.                       *)
(***************************************************************************)
EXTENDS Integers, FiniteSets, FiniteSetsExt

CONSTANTS
    Slots,          \* the configured buckets, 0 first
    NoSlot,
    Outlooks,       \* what the environment may do: see Outlook
    LeaveAfter,     \* leave_after_failures
    Window,         \* return_after_healthy
    CycleTime,      \* the longest the loop takes from its caught-up check to its tick
    Grace,          \* fanout_grace: the longest a write waits before it leaves its notes
    MaxFlips,       \* bound: outages and recoveries
    MaxReports      \* bound: outcomes reported by requests

VARIABLES
    outlook,
    health,         \* BucketStatus of each bucket
    selected,       \* BucketHealth.selected
    readPin,        \* BucketHealth.read_pin
    applied,        \* the write pin (BucketSet.current, applied_selected)
    appliedRead,    \* applied_read_selected
    readActive,     \* BucketSet.read_active
    fenced,         \* writes_fenced
    loop,           \* where the health loop stands
    up,             \* environment: which buckets answer
    stamp,          \* environment: whose stamps each bucket carries
    owed,           \* environment: the kinds of repair notes owed to the region's bucket
    fanout,         \* time units since a write of this node gave up on the region's bucket
    lull,           \* time units since the caught-up check
    flips, reports

world == <<outlook, up, stamp, flips>>
pinVars == <<applied, appliedRead, readActive>>
healthVars ==
    <<world, health, selected, readPin, pinVars, fenced, loop, owed, fanout, lull, reports>>

Outlook ==
    [region : Slots \cup {NoSlot}, flips : 0 .. MaxFlips, reports : 0 .. MaxReports]

ASSUME HealthAssumption ==
    /\ 0 \in Slots /\ Slots \subseteq Nat /\ NoSlot \notin Slots
    /\ LeaveAfter \in Nat \ {0}
    /\ Window \in Nat /\ CycleTime \in Nat /\ Grace \in Nat
    /\ Outlooks \subseteq Outlook

-----------------------------------------------------------------------------
(* Signals.                                                                *)

Signals ==
    {"success", "404", "timeout", "408", "5xx", "403", "other"}

\* signal_for_error and classify: a missing object is an answer, a missing
\* bucket and a timeout are not, anything else raises an alarm and moves nothing.
classify(signal) ==
    IF signal \in {"success", "404"} THEN "healthy"
    ELSE IF signal \in {"timeout", "408", "5xx"} THEN "failure"
    ELSE "ignored"

Status == [state : {"unknown", "healthy", "unhealthy"}, failures : 0 .. LeaveAfter,
           since : -1 .. Window, topology : {"verified", "pending", "checking"}]
Never == -1

usable(s) == s.state = "healthy" /\ s.topology = "verified"
served(s) == usable(s) /\ s.since = Window
eligible(s) == s.state # "unhealthy" /\ s.topology = "verified"

\* BucketHealth::observe: a bucket that recovers must have its stamp read again.
Recovered(s) ==
    [s EXCEPT !.topology = IF s.state = "healthy" THEN @ ELSE "pending",
              !.state = "healthy", !.failures = 0, !.since = IF @ = Never THEN 0 ELSE @]
Failed(s) ==
    LET n == IF s.failures = LeaveAfter THEN LeaveAfter ELSE s.failures + 1
    IN  [s EXCEPT !.failures = n, !.since = Never,
                  !.state = IF n >= LeaveAfter THEN "unhealthy" ELSE @]
observe(s, class) ==
    CASE class = "healthy" -> Recovered(s)
      [] class = "failure" -> Failed(s)
      [] class = "ignored" -> s

-----------------------------------------------------------------------------
(* Selection.                                                              *)

First(set, default) == IF set = {} THEN default ELSE Min(set)

\* evaluate: a bucket that is gone, or unverified at a tick, is left for the most
\* preferred usable one; otherwise a more preferred one must serve out the window.
Select(h, fromTick) ==
    LET gone == h[selected].state = "unhealthy" \/ (fromTick /\ ~usable(h[selected]))
    IN  IF gone
        THEN First({b \in Slots : usable(h[b])}, selected)
        ELSE First({b \in Slots : b < selected /\ served(h[b])}, selected)

\* Mutant: a bucket that is caught up need not serve out the window.
EagerReadPin(h, pin, caughtUp) ==
    LET r == outlook.region
    IN  IF r = NoSlot THEN pin
        ELSE IF ~usable(h[r]) THEN "follow"
        ELSE IF caughtUp THEN "earned" ELSE pin

next_read_pin(h, pin, caughtUp) ==
    LET r == outlook.region
    IN  IF r = NoSlot THEN pin
        ELSE IF pin = "earned" /\ ~usable(h[r]) THEN "follow"
        ELSE IF pin = "follow" /\ served(h[r]) /\ caughtUp THEN "earned"
        ELSE pin

evaluate(h, caughtUp, fromTick) ==
    /\ health' = h
    /\ selected' = Select(h, fromTick)
    /\ readPin' = next_read_pin(h, readPin, caughtUp)

read_index == IF readPin = "earned" THEN outlook.region ELSE selected
read_pin == IF readActive THEN appliedRead ELSE applied

-----------------------------------------------------------------------------
(* Start.                                                                  *)

Calm == [at |-> "probe", todo |-> Slots, caughtUp |-> FALSE, to |-> NoSlot, readTo |-> NoSlot,
         blocked |-> {}]
LoopSteps == {"probe", "region", "tick", "check", "ack", "apply", "applyRead"}

\* Startup has read the stamps of the buckets that answered and has counted the
\* silent ones through the leave threshold.
StartStatus(b) ==
    IF up[b]
    THEN [state |-> "healthy", failures |-> 0, since |-> 0, topology |-> "verified"]
    ELSE [state |-> "unhealthy", failures |-> LeaveAfter, since |-> Never, topology |-> "verified"]

HealthInit ==
    /\ outlook \in Outlooks
    /\ up \in [Slots -> BOOLEAN] /\ \E b \in Slots : up[b]
    /\ stamp = [b \in Slots |-> "ours"]
    /\ owed \in {{}} \cup IF outlook.region = NoSlot THEN {} ELSE {{"standing"}}
    /\ fanout = Never
    /\ health = [b \in Slots |-> StartStatus(b)]
    /\ selected = Min({b \in Slots : up[b]})
    /\ applied = selected
    /\ readPin = IF outlook.region # NoSlot /\ up[outlook.region] /\ owed = {} THEN "earned" ELSE "follow"
    /\ appliedRead = IF readPin = "earned" THEN outlook.region ELSE selected
    /\ readActive = (readPin = "earned")
    /\ fenced = FALSE
    /\ loop = Calm
    /\ lull = 0 /\ flips = 0 /\ reports = 0

-----------------------------------------------------------------------------
(* The environment.                                                        *)

\* An outage begins or ends.  Another deployment, or a newer release, may take a
\* bucket that this node counts as gone.
Flip(b) ==
    /\ flips < outlook.flips
    /\ flips' = flips + 1
    /\ up' = [up EXCEPT ![b] = ~@]
    /\ stamp' \in {stamp} \cup
          IF health[b].state = "unhealthy"
          THEN {[stamp EXCEPT ![b] = s] : s \in {"other", "newer"}}
          ELSE {}
    /\ UNCHANGED <<outlook, health, selected, readPin, pinVars, fenced, loop, owed, fanout, lull,
                   reports>>

\* A request's storage call ends.  It may have begun before the last flip, and a
\* write that could not reach the region's bucket goes on to leave a note.
Report(b, signal) ==
    /\ reports < outlook.reports
    /\ reports' = reports + 1
    /\ evaluate([health EXCEPT ![b] = observe(@, classify(signal))], FALSE, FALSE)
    /\ fanout' \in {fanout} \cup
          IF fanout = Never /\ b = outlook.region /\ classify(signal) = "failure" THEN {0} ELSE {}
    /\ UNCHANGED <<world, pinVars, fenced, loop, owed, lull>>

\* fanout_sync: a write does not try the region's bucket, which counts as gone.
SkipRegion ==
    /\ outlook.region # NoSlot /\ fanout = Never
    /\ health[outlook.region].state = "unhealthy"
    /\ fanout' = 0
    /\ UNCHANGED <<world, health, selected, readPin, pinVars, fenced, loop, owed, lull, reports>>

\* Its note is put once the other buckets are served, within the grace.
Owe ==
    /\ fanout # Never
    /\ fanout' = Never /\ owed' = owed \cup {"outage"}
    /\ UNCHANGED <<world, health, selected, readPin, pinVars, fenced, loop, lull, reports>>

\* A note with no failure of this node behind it: a proxy fill, a merge that was
\* deferred, a copy that outlived its grace, any fan-out of another node.
OweServing ==
    /\ outlook.region # NoSlot /\ "new" \notin owed
    /\ reports < outlook.reports
    /\ reports' = reports + 1
    /\ owed' = owed \cup {"new"}
    /\ UNCHANGED <<world, health, selected, readPin, pinVars, fenced, loop, fanout, lull>>

\* The sweep pays notes once the bucket answers.
Drain ==
    /\ owed # {} /\ up[outlook.region]
    /\ \E kind \in owed : owed' = owed \ {kind}
    /\ UNCHANGED <<world, health, selected, readPin, pinVars, fenced, loop, fanout, lull, reports>>

Elapse ==
    /\ loop.at = "tick" => lull < CycleTime
    /\ fanout < Grace
    /\ fanout' = IF fanout = Never THEN Never ELSE fanout + 1
    /\ lull' = IF loop.at = "tick" THEN lull + 1 ELSE 0
    /\ \E b \in Slots : health[b].since \in 0 .. Window - 1
    /\ health' = [b \in Slots |->
          [health[b] EXCEPT !.since = IF @ \in 0 .. Window - 1 THEN @ + 1 ELSE @]]
    /\ UNCHANGED <<world, selected, readPin, pinVars, fenced, loop, owed, reports>>

-----------------------------------------------------------------------------
(* run_bucket_health_until and maintain_bucket_selection.                  *)

Truth(b) == IF up[b] THEN "success" ELSE "timeout"

\* probe_buckets: the answer or the timeout of one of the concurrent probes.
Probe(b) ==
    /\ loop.at = "probe" /\ b \in loop.todo
    /\ evaluate([health EXCEPT ![b] = observe(@, classify(Truth(b)))], FALSE, FALSE)
    /\ loop' = [loop EXCEPT !.todo = @ \ {b}]
    /\ UNCHANGED <<world, pinVars, fenced, owed, fanout, lull, reports>>

\* read_return_pending
ReturnPending ==
    /\ outlook.region # NoSlot
    /\ appliedRead # outlook.region /\ usable(health[outlook.region])

\* region_bucket_caught_up: no bucket holds a note for the region's; a peer that
\* does not answer defers the return.
CaughtUp == owed = {} /\ \A b \in Slots \ {outlook.region} : up[b]

\* The probes are over, or were not due: no request of late, nobody gone.
CheckRegion ==
    /\ loop.at = "probe"
    /\ loop.todo = {} \/ (loop.todo = Slots /\ \A b \in Slots : eligible(health[b]))
    /\ loop' = [loop EXCEPT !.at = "tick", !.todo = {}, !.caughtUp = ReturnPending /\ CaughtUp]
    /\ lull' = 0
    /\ owed' = {IF kind = "new" THEN "standing" ELSE kind : kind \in owed}
    /\ UNCHANGED <<world, health, selected, readPin, pinVars, fenced, fanout, reports>>

\* Mutant: a bucket whose check did not pass is not listed again.
PendingOnly == {b \in Slots : health[b].topology = "pending"}

Unverified == {b \in Slots : health[b].topology # "verified"}

\* worker_tick: propose the switches, list the buckets to validate.
Tick ==
    LET h == [b \in Slots |-> [health[b] EXCEPT !.topology = IF @ = "verified" THEN @ ELSE "checking"]]
        to == Select(health, TRUE)
        pin == next_read_pin(health, readPin, loop.caughtUp)
        readTo == IF pin = "earned" THEN outlook.region ELSE to
    IN  /\ loop.at = "tick"
        /\ health' = h
        /\ selected' = to
        /\ readPin' = pin
        /\ loop' = [loop EXCEPT
              !.at = "check", !.caughtUp = FALSE,
              !.todo = Unverified,
              !.to = IF to = applied THEN NoSlot ELSE to,
              !.readTo = IF outlook.region = NoSlot \/ readTo = appliedRead THEN NoSlot ELSE readTo]
        /\ lull' = 0
        /\ UNCHANGED <<world, pinVars, fenced, owed, fanout, reports>>

\* One bucket's stamps are read; a silent one is reported by the storage layer or
\* by the timeout.
CheckTopology ==
    LET b == Min(loop.todo)
        blocked == [loop EXCEPT !.todo = @ \ {b}, !.blocked = @ \cup {b}]
    IN  /\ loop.at = "check" /\ loop.todo # {}
        /\ \/ /\ ~up[b]
              /\ evaluate([health EXCEPT ![b] = observe(@, "failure")], FALSE, FALSE)
              /\ loop' = blocked
              /\ UNCHANGED fenced
           \/ /\ up[b]
              /\ evaluate([health EXCEPT ![b] = observe(@, "healthy")], FALSE, FALSE)
              /\ loop' = IF stamp[b] = "ours" THEN [loop EXCEPT !.at = "ack"] ELSE blocked
              /\ fenced' = (fenced \/ stamp[b] = "other")
        /\ UNCHANGED <<world, pinVars, owed, fanout, lull, reports>>

\* Mutant: the acknowledgement does not ask whether the check is still the last.
Revalidated(b) == [health EXCEPT ![b].topology = "verified"]

topology_check_passed(b) ==
    [health EXCEPT ![b].topology = IF @ = "checking" THEN "verified" ELSE @]

Acknowledge ==
    LET b == Min(loop.todo)
    IN  /\ loop.at = "ack"
        /\ health' = topology_check_passed(b)
        /\ loop' = [loop EXCEPT !.at = "check", !.todo = @ \ {b}]
        /\ UNCHANGED <<world, selected, readPin, pinVars, fenced, owed, fanout, lull, reports>>

\* apply_selection, apply_read_selection: a switch is dropped if its target was
\* blocked, or if an observation since the tick has made it stale.
Publishable(b, wanted) ==
    /\ b \notin {NoSlot} \cup loop.blocked
    /\ wanted = b /\ usable(health[b])

Apply ==
    /\ loop.at = "check" /\ loop.todo = {}
    /\ applied' = IF Publishable(loop.to, selected) THEN loop.to ELSE applied
    /\ loop' = [loop EXCEPT !.at = "applyRead", !.to = NoSlot]
    /\ UNCHANGED <<world, health, selected, readPin, appliedRead, readActive, fenced, owed, fanout,
                   lull, reports>>

ApplyRead ==
    /\ loop.at = "applyRead"
    /\ IF Publishable(loop.readTo, read_index)
       THEN appliedRead' = loop.readTo /\ readActive' = TRUE
       ELSE UNCHANGED <<appliedRead, readActive>>
    /\ loop' = Calm
    /\ UNCHANGED <<world, health, selected, readPin, applied, fenced, owed, fanout, lull, reports>>

LoopStep ==
    \/ \E b \in Slots : Probe(b)
    \/ CheckRegion \/ Tick \/ CheckTopology \/ Acknowledge \/ Apply \/ ApplyRead

HealthNext ==
    \/ LoopStep \/ Elapse \/ SkipRegion \/ Owe \/ OweServing \/ Drain
    \/ \E b \in Slots : Flip(b) \/ \E signal \in Signals : Report(b, signal)

\* The loop runs, time passes, a fan-out ends by its deadline, the sweep drains; the idle cadence probes in the end.
HealthFairness ==
    /\ WF_healthVars(LoopStep) /\ WF_healthVars(Elapse) /\ WF_healthVars(Owe) /\ WF_healthVars(Drain)
    /\ \A b \in Slots : SF_healthVars(Probe(b))

HealthSpec == HealthInit /\ [][HealthNext]_healthVars /\ HealthFairness

-----------------------------------------------------------------------------
(* Properties.                                                             *)

\* Well typed, and the loop never proposes what it already applied.
HealthTypeOK ==
    /\ outlook \in Outlooks
    /\ health \in [Slots -> Status]
    /\ {selected, applied, appliedRead} \subseteq Slots
    /\ readPin \in {"follow", "earned"}
    /\ readPin = "earned" => outlook.region # NoSlot
    /\ loop.at \in LoopSteps /\ loop.todo \subseteq Slots
    /\ loop.to # applied

\* No bucket that was stamped by others while it was gone ever becomes usable,
\* however its recoveries interleave with the check of its stamp.
UsableIsOurs == \A b \in Slots : usable(health[b]) => stamp[b] = "ours"

\* Neither pin ever moves onto a bucket that others have stamped.
PinsMoveToOurs ==
    [][/\ applied' # applied => stamp[applied'] = "ours"
       /\ appliedRead' # appliedRead => stamp[appliedRead'] = "ours"]_healthVars

\* What may be owed to the region's bucket when reads are promised to it is only a
\* note without a failure behind it that was left since the caught-up check.  A note
\* older than the check was seen by it; one of a write that this node saw fail comes
\* within the grace of a failure, which restarts the window, and the window is longer
\* than the grace and the age of the verdict together.
ReadsCaughtUp == [][readPin = "follow" /\ readPin' = "earned" => owed \subseteq {"new"}]_healthVars

(* bucket_health.rs, worker.rs: a bucket that others stamped while it was gone never
   becomes usable again. *)
HealthSafe == HealthTypeOK /\ UsableIsOurs

(* worker.rs apply_selection, bucket_health.rs next_read_pin: no step moves a pin to a
   bucket that others stamped, or promises reads to a bucket that is owed a repair of
   its outage or from before the caught-up check. *)
HealthSteps == PinsMoveToOurs /\ ReadsCaughtUp

\* Once outages end, writes settle on the most preferred bucket that answers
\* and is ours, and reads on the region's bucket, if it is such a one, or with the writes.
Good == {b \in Slots : up[b] /\ stamp[b] = "ours"}
PinsSettle ==
    <>[](Good # {} =>
            /\ applied = Min(Good)
            /\ read_pin \in Good
            /\ outlook.region \in Good /\ (\A b \in Slots : up[b]) => read_pin = outlook.region)
=============================================================================
