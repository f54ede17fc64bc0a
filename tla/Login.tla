-------------------------------- MODULE Login --------------------------------
(***************************************************************************)
(* The failed-login throttle (auth.rs) as the request middleware uses it    *)
(* (app.rs log_requests, run_throttling_logins).  A request that presents a *)
(* credential is admitted or refused before any handler runs; a credential  *)
(* that authenticates as nobody, a guess, reserves one of the LoginFailLimit *)
(* slots of its network until the answer settles it.                        *)
(*                                                                         *)
(* Times are ages and remaining times rather than dates, saturated where    *)
(* the code stops telling them apart, so that the clock needs no bound: a   *)
(* window's `last` is the time since its last failure (Cooldown: long ago,  *)
(* or never), `blocked` what is left of its lockout.  One step of admit_at  *)
(* and of release_at runs under the table's lock, so each is one action.    *)
(***************************************************************************)
EXTENDS Naturals, FiniteSets, FiniteSetsExt, Sequences, Functions, TLC

CONSTANTS
    Requests,       \* request tasks the server can run at once
    Addresses,      \* client addresses
    Site, Isp,      \* the wider networks of an address, as functions
    Watched,        \* the address whose history the properties follow
    Guesses,        \* fingerprints of credentials that authenticate as nobody
    Valid,          \* stands for a credential that does authenticate
    LoginFailLimit, \* LOGIN_FAIL_LIMIT
    ThrottleCap,    \* LOGIN_THROTTLE_CAP
    Cooldown,       \* --login-cooldown-secs, in ticks
    SweepInterval,  \* LOGIN_SWEEP_INTERVAL_MS, in ticks
    Crowds,         \* who sends which credentials: the behaviours explored
    MaxGuesses      \* bound: guesses sent in a behaviour

ASSUME LoginAssumption ==
    /\ LoginFailLimit \in Nat \ {0} /\ ThrottleCap \in Nat \ {0}
    /\ Cooldown \in Nat \ {0} /\ SweepInterval \in Nat
    /\ Site \in [Addresses -> STRING] /\ Isp \in [Addresses -> STRING]
    /\ Valid \notin Guesses /\ Watched \in Addresses
    /\ Crowds \subseteq [Addresses -> SUBSET (Guesses \cup {Valid})]

VARIABLES
    crowd,      \* the credentials each address sends
    table,      \* ThrottleTable.map: tracked networks and their windows
    swept,      \* time since the last sweep, at most SweepInterval
    request,    \* what each request task is doing
    sent,       \* guesses sent so far
    told,       \* guess -> what is left of the cooldown since Watched last
                \* learned that the guess is wrong (a history)
    locked,     \* what is left of the lockout put on Watched (a history)
    forgotten   \* whether a full table gave up a count of Watched (a history)

loginVars == <<crowd, table, swept, request, sent, told, locked, forgotten>>

Networks == (Addresses \X {"host"}) \cup (Range(Site) \X {"site"})
                \cup (Range(Isp) \X {"isp"})

(* throttle_keys: the networks an address is counted under, most specific first. *)
throttle_keys(a) == <<<<a, "host">>, <<Site[a], "site">>, <<Isp[a], "isp">>>>

(* FailWindow::default. *)
NewWindow == [count |-> 0, last |-> Cooldown, blocked |-> 0, pending |-> <<>>]

Idle == [phase |-> "idle"]

in_flight(w) == Cardinality(DOMAIN w.pending)

(* FailWindow::live: a lockout or an unfinished attempt. *)
live(w) == w.blocked > 0 \/ in_flight(w) > 0

Decayed(w) == w.last >= Cooldown

(* The sweep a crowded table runs on the admission of an untracked address: a
   full table gives partial counts up, lockouts and attempts in flight stay. *)
Due(t) == 2 * Cardinality(DOMAIN t) >= ThrottleCap /\ swept >= SweepInterval
Retained(t) ==
    {k \in DOMAIN t : \/ live(t[k])
                      \/ Cardinality(DOMAIN t) < ThrottleCap /\ ~Decayed(t[k])}
Sweep(t) == IF Due(t) THEN Restrict(t, Retained(t)) ELSE t

(* The network that counts an untracked address, by how crowded the table is:
   4 refuses. *)
Crowding(t) == (4 * Cardinality(DOMAIN t)) \div ThrottleCap
Coarsened(t, a) == throttle_keys(a)[IF Crowding(t) <= 1 THEN 1 ELSE Crowding(t)]

Tracked(t, a) == {i \in 1..3 : throttle_keys(a)[i] \in DOMAIN t}

With(t, k, w) == (k :> w) @@ t

Reserve(w, g) == [w EXCEPT !.pending = (g :> [refs |-> 1, failed |-> FALSE]) @@ @]

Join(w, g) == [w EXCEPT !.pending[g].refs = @ + 1]

(* The window as admission finds it: failures a cooldown apart never add up. *)
Aged(w) == IF Decayed(w) THEN [w EXCEPT !.count = 0] ELSE w

Full(w) == w.count + in_flight(w) >= LoginFailLimit

(* admit_at for an address no tracked network covers. *)
AdmitUntracked(a, g) ==
    LET t == Sweep(table)
        k == Coarsened(t, a)
    IN  [ok |-> Crowding(t) < 4,
         key |-> IF Crowding(t) < 4 THEN k ELSE throttle_keys(a)[1],
         table |-> IF Crowding(t) < 4 /\ g # Valid
                   THEN With(t, k, Reserve(NewWindow, g)) ELSE t]

(* admit_at for an address counted under the tracked network k. *)
AdmitTracked(k, g) ==
    LET w == Aged(table[k])
        blockedNow == table[k].blocked > 0
        shared == g \in DOMAIN w.pending
    IN  [ok |-> ~blockedNow /\ (shared \/ ~Full(w)),
         key |-> k,
         table |->
            CASE blockedNow -> table
              [] ~blockedNow /\ shared -> With(table, k, Join(w, g))
              [] ~blockedNow /\ ~shared /\ Full(w) -> With(table, k, w)
              [] ~blockedNow /\ ~shared /\ ~Full(w) /\ g # Valid ->
                    With(table, k, Reserve(w, g))
              [] OTHER -> IF Decayed(w) /\ ~live(w)
                          THEN Restrict(table, DOMAIN table \ {k})
                          ELSE With(table, k, w)]

admit_at(a, g) ==
    IF Tracked(table, a) = {} THEN AdmitUntracked(a, g)
    ELSE AdmitTracked(throttle_keys(a)[Min(Tracked(table, a))], g)

(* A sweep that the arrival of address a starts gives up a count of Watched. *)
GivenUp(a) ==
    /\ Tracked(table, a) = {} /\ Due(table)
    /\ \E k \in Range(throttle_keys(Watched)) \cap (DOMAIN table \ Retained(table)) :
            ~Decayed(table[k])

(* log_requests: a request with a credential reaches the throttle. *)
Arrive(r) ==
    /\ request[r] = Idle
    /\ \E a \in Addresses : \E g \in crowd[a] :
        /\ g # Valid => sent < MaxGuesses
        /\ sent' = IF g # Valid THEN sent + 1 ELSE sent
        /\ \E verdict \in {admit_at(a, g)} :
            /\ table' = verdict.table
            /\ request' = [request EXCEPT ![r] =
                    [phase |-> IF verdict.ok THEN "running" ELSE "refused",
                     addr |-> a, guess |-> g, key |-> verdict.key]]
        /\ swept' = IF Tracked(table, a) = {} /\ Due(table) THEN 0 ELSE swept
        /\ forgotten' = (forgotten \/ GivenUp(a))
    /\ UNCHANGED <<crowd, told, locked>>

(* What release_at makes of the window whose slot's last reference lets go
   after a failure. *)
Counted(w) ==
    LET n == Aged(w).count + 1
    IN  IF n >= LoginFailLimit
        THEN [w EXCEPT !.count = 0, !.last = 0, !.blocked = Cooldown]
        ELSE [w EXCEPT !.count = n, !.last = 0]

(* release_at: one reference of a slot lets go; the last one, when any of them
   failed, is one failed login. *)
Released(w, g, failed) ==
    LET p == w.pending[g]
        any == p.failed \/ failed
        free == [w EXCEPT !.pending = Restrict(@, DOMAIN @ \ {g})]
    IN  IF p.refs > 1
        THEN [w EXCEPT !.pending[g] = [refs |-> p.refs - 1, failed |-> any]]
        ELSE IF any THEN Counted(free) ELSE free

(* LoginAttempt::drop; a valid credential holds nothing. *)
Release(q, failed) ==
    IF q.guess # Valid /\ q.key \in DOMAIN table
       /\ q.guess \in DOMAIN table[q.key].pending
    THEN [table EXCEPT ![q.key] = Released(@, q.guess, failed)]
    ELSE table

(* The attempt ends; a lockout that begins falls on every address its network
   counts. *)
LocksOut(t, k) ==
    /\ t # table /\ t[k].blocked > table[k].blocked
    /\ Tracked(t, Watched) # {}
    /\ throttle_keys(Watched)[Min(Tracked(t, Watched))] = k

Settle(r, failed) ==
    LET q == request[r] IN
    /\ table' = Release(q, failed)
    /\ request' = [request EXCEPT ![r] = Idle]
    /\ locked' = IF LocksOut(Release(q, failed), q.key) THEN Cooldown ELSE locked
    /\ told' = IF failed /\ q.addr = Watched THEN [told EXCEPT ![q.guess] = Cooldown]
               ELSE told
    /\ UNCHANGED <<crowd, swept, sent, forgotten>>

(* run_throttling_logins: a 401 to a guess is a failure. *)
Answer401(r) ==
    /\ request[r].phase = "running"
    /\ request[r].guess # Valid
    /\ Settle(r, TRUE)

(* Any other answer (a valid credential, a role denial), or the client is gone. *)
Other(r) ==
    /\ request[r].phase = "running"
    /\ Settle(r, FALSE)

(* too_many_logins: the refused client reads its 429. *)
Refused(r) ==
    /\ request[r].phase = "refused"
    /\ request' = [request EXCEPT ![r] = Idle]
    /\ UNCHANGED <<crowd, table, swept, sent, told, locked, forgotten>>

Older(n, cap) == IF n < cap THEN n + 1 ELSE cap
Less(n) == IF n > 0 THEN n - 1 ELSE 0

Tick ==
    /\ table' = [k \in DOMAIN table |->
            [table[k] EXCEPT !.last = Older(@, Cooldown), !.blocked = Less(@)]]
    /\ swept' = Older(swept, SweepInterval)
    /\ told' = [g \in Guesses |-> Less(told[g])]
    /\ locked' = Less(locked)
    /\ UNCHANGED <<crowd, request, sent, forgotten>>

LoginInit ==
    /\ crowd \in Crowds
    /\ table = <<>>
    /\ swept = SweepInterval
    /\ request = [r \in Requests |-> Idle]
    /\ sent = 0
    /\ told = [g \in Guesses |-> 0]
    /\ locked = 0
    /\ forgotten = FALSE

LoginNext ==
    \/ \E r \in Requests : Arrive(r) \/ Answer401(r) \/ Other(r) \/ Refused(r)
    \/ Tick

(* Time passes, and every request is answered or dropped. *)
LoginFairness ==
    /\ WF_loginVars(Tick)
    /\ \A r \in Requests : WF_loginVars(Other(r))

LoginSpec == LoginInit /\ [][LoginNext]_loginVars /\ LoginFairness

-----------------------------------------------------------------------------
Window == [count : 0..(LoginFailLimit - 1), last : 0..Cooldown,
           blocked : 0..Cooldown,
           pending : UNION {[G -> [refs : 1..Cardinality(Requests), failed : BOOLEAN]]
                                : G \in SUBSET Guesses}]

(* The table never outgrows its cap, and a window never counts and reserves
   more than the limit. *)
LoginTypeOK ==
    /\ crowd \in Crowds
    /\ DOMAIN table \subseteq Networks
    /\ Cardinality(DOMAIN table) <= ThrottleCap
    /\ \A k \in DOMAIN table :
        /\ table[k] \in Window
        /\ table[k].count + in_flight(table[k]) <= LoginFailLimit
    /\ swept \in 0..SweepInterval
    /\ sent \in 0..MaxGuesses
    /\ told \in [Guesses -> 0..Cooldown]
    /\ locked \in 0..Cooldown
    /\ forgotten \in BOOLEAN

(* auth.rs LoginThrottle: "guesses sent at the same time share the five".  In no
   stretch of one cooldown does an address learn of more than LoginFailLimit
   different credentials that they are wrong, however its requests overlap,
   repeat each other or are dropped; only a full table forgets a count. *)
GuessBudget ==
    ~forgotten => Cardinality({g \in Guesses : told[g] > 0}) <= LoginFailLimit

(* auth.rs LoginThrottle: a lockout is never forgotten, not by a sweep, not by
   a full table, not because the address is later counted under another
   network: no credential of a locked-out address is evaluated. *)
LockoutHolds ==
    [][\A r \in Requests :
        (request[r] = Idle /\ request'[r].phase = "running"
             /\ request'[r].addr = Watched) => locked = 0]_loginVars

(* Every reservation belongs to a request that still runs: a client that goes
   away, or a shared slot, never leaks budget. *)
SlotsHeld ==
    \A k \in DOMAIN table : \A g \in DOMAIN table[k].pending :
        table[k].pending[g].refs =
            Cardinality({r \in Requests : /\ request[r].phase = "running"
                                          /\ request[r].key = k
                                          /\ request[r].guess = g})
=============================================================================
