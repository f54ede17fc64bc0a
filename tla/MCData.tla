------------------------------- MODULE MCData -------------------------------
(***************************************************************************)
(* Bounded instances of the data a fleet keeps up to date beside the       *)
(* packages: the download counters, the quarantined set, the advisory      *)
(* feed, the mirror that sync fills and the filters it is filled through.  *)
(* A behaviour is one part's; the others rest in an initial state.         *)
(***************************************************************************)
EXTENDS Counters, Quarantine, Sync, Sequences

CONSTANTS Parts, e1, e2, n1, n2, b1, b2, g1, g2, s1, s2, p1, p2, c1, c2, f1, f2,
          None, Plain, Refused, Malformed, NoFile, AnyMinor

VARIABLES part,
          story, osv, exports, feeds, pin, holder, snap, etags, job, probe, cycle, skipped,
          chosen, setup, server, now, up, page, store, pages, stamp, served

\* Counters: two events of two shards, kept and pruned or flushed late; two of one shard;
\* and two nodes whose passes may overlap.
Apart == [e \in Events |-> IF e = e1 THEN "x" ELSE "y"]
Together == [e \in Events |-> "x"]
Year(f, l, m, s) == [shard |-> f, last |-> l, mishaps |-> m, late |-> s, crew |-> {n1}]
Years == {Year(Apart, 2, 0, FALSE), Year(Apart, 1, 0, TRUE), Year(Apart, 1, 1, FALSE), Year(Together, 1, 1, FALSE),
          [Year(Together, 1, 0, FALSE) EXCEPT !.crew = Compacting]}
FirstDay == {<<0, "x">>}

\* Quarantine: writes, a sweep and a fault on one bucket; a move between two.
Course(bs, e, f, w, s, x) ==
    [shelves |-> bs, edits |-> [p \in Projects |-> IF p = p1 THEN e ELSE f],
     sweeps |-> w, switches |-> s, faults |-> x]
Both == {Course({s1}, 1, 0, 1, 0, 1), Course({s1}, 1, 1, 0, 0, 1), Course({s1}, 2, 0, 0, 0, 1),
         Course({s1, s2}, 1, 0, 0, 1, 0), Course({s1, s2}, 1, 0, 0, 0, 1)}

\* Sync: changes and faults; fix advisories; two runs beside an edit by hand; a
\* destination that cannot say what it holds.
Chapter(n, ch, ad, dr, fa, fu) ==
    [lists |-> [c \in Clients |-> IF c = c1 THEN {p1} ELSE IF n = 2 THEN {p2} ELSE {}],
     filters |-> IF n = 1 THEN Filters ELSE {Dists}, days |-> IF n = 1 THEN LastDay ELSE 0,
     changes |-> ch, advisories |-> ad, drifts |-> dr, faults |-> fa, fulls |-> fu,
     endpoint |-> TRUE]
Wide == {{f1}, {f1, f2}}
Book == {Chapter(1, 2, 0, 0, 1, 0), Chapter(1, 1, 1, 0, 1, 0), Chapter(2, 0, 0, 1, 1, 1),
         [Chapter(1, 2, 0, 0, 0, 0) EXCEPT !.endpoint = FALSE]}

\* The feed: malware published and withdrawn, a fix edited, a burst; a restart, a failover
\* and a peer's push.
Say(id, live_) == [id |-> id, live |-> live_]
Tale(script, nodes, r, fl, p, fa) ==
    [script |-> script, nodes |-> nodes, restarts |-> r, flips |-> fl, pushes |-> p, faults |-> fa]
NewMalware == <<Say("m", TRUE), Say("m", FALSE)>>
Withdrawn == <<Say("f", FALSE), Say("m", TRUE)>>
FixEdited == <<Say("v", TRUE), Say("v", FALSE)>>
Burst == <<Say("v", TRUE), Say("w", TRUE)>>
Scripts == {NewMalware, Withdrawn, FixEdited, Burst}
Tales ==
    {Tale(s, {g1}, 0, 0, 0, 2) : s \in {FixEdited, NewMalware}}
    \cup {Tale(s, {g1}, 1, 0, 0, 0) : s \in Scripts}
    \cup {Tale(s, {g1}, 0, 0, 1, 0) : s \in {NewMalware, FixEdited}}
    \cup {Tale(<<Say("m", TRUE)>>, {g1, g2}, 0, 0, 0, 0), Tale(<<Say("m", TRUE)>>, {g1}, 0, 1, 0, 0)}
A == INSTANCE AdvisoryFeed WITH shelf <- feeds, memo <- etags, Nodes <- {g1, g2},
        Buckets <- {1, 2}, Mal <- {"m", "f"}, Fixes <- {"v", "w"}, Floor <- {"f"},
        Stories <- Tales, MaxFixFetches <- 1, Attempts <- 2

\* Filters: one axis at a time, on the command line over a file that includes p only, and
\* settings that change between two starts.
Line(name, pins) == [name |-> name, pins |-> pins]
Dist(pkg, version, release, format, size, windows, tags) ==
    [pkg |-> pkg, version |-> version, release |-> release, format |-> format, size |-> size,
     windows |-> windows, tags |-> tags, digest |-> TRUE]
pure == Dist("p", 1, "final", "wheel", 1, FALSE,
             [python |-> {<<3, AnyMinor>>}, abi |-> {"none"}, platform |-> {"any"}])
fat == Dist("p", 2, "pre", "wheel", 2, FALSE,
            [python |-> {<<3, 9>>, <<3, 8>>}, abi |-> {"abi3", "cp39"}, platform |-> {"win", "linux"}])
win == Dist("p", 2, "dev", "wheel", NoFile, FALSE,
            [python |-> {<<3, 9>>}, abi |-> {"cp39"}, platform |-> {"win"}])
odd == Dist("p", 1, "final", "wheel", 1, FALSE, Malformed)
sdist == Dist("q", 1, "final", "sdist", 2, FALSE, Malformed)
setupexe == Dist("q", NoFile, "final", "other", 2, TRUE, Malformed)
bare == [Dist("q", 2, "final", "sdist", 1, FALSE, Malformed) EXCEPT !.digest = FALSE]
Cut(how, n) == [kind |-> how, n |-> n]
Setup(proxy, cli, file) == [proxy |-> proxy, cli |-> cli, file |-> file]
OnlyP == [include_packages |-> {Line("p", {})}]
Tuned(first, setups, dists) == [first |-> first, setups |-> setups, dists |-> dists]
Knobs ==
    {"exclude_newer" :> v : v \in {None, Cut("at", 1), Cut("ago", 1), Malformed}} \cup
    {"exclude_older" :> v : v \in {Cut("at", 1), Cut("ago", 2)}} \cup
    {"exclude_larger" :> 1, "exclude_python_below" :> <<3, 9>>, "exclude_python_below" :> <<4, 0>>} \cup
    {b :> v : b \in {"exclude_dev", "exclude_windows", "exclude_prereleases", "include_yanked"},
              v \in BOOLEAN} \cup
    {"security_fixes_skip_cooldown" :> FALSE} \cup
    {"include_format" :> v : v \in {{}, {"wheel"}, {"sdist"}}} \cup
    {"include_packages" :> {}, "include_packages_from" :> {Line("q", {1})},
     "include_packages" :> {Line("p", {2})}, "exclude_packages" :> {},
     "exclude_packages" :> {Malformed}, "exclude_packages" :> {Line("p", {1})},
     "exclude_packages_from" :> {Line("p", {})}} \cup
    {a :> v : a \in {"exclude_platform_tag", "include_platform_tag"}, v \in {{}, {{"win"}}, {{"win", "linux"}}}} \cup
    {a :> {{<<3, 9>>}} : a \in {"exclude_python_tag", "include_python_tag"}} \cup
    {a :> {{"cp39"}} : a \in {"exclude_abi_tag", "include_abi_tag"}}
Sources == {OnlyP, OnlyP @@ [exclude_prereleases |-> TRUE, include_yanked |-> TRUE]}
Configurations ==
    {Tuned(Setup(TRUE, k, OnlyP), <<>>, {fat}) : k \in Knobs}
    \cup {Tuned(Setup(TRUE, k, f), <<>>, {pure}) : k \in Knobs, f \in Sources}
    \cup {Tuned(Setup(TRUE, k, <<>>), <<>>, {x}) : k \in Knobs, x \in {win, odd, sdist, setupexe, bare}}
    \cup {Tuned(Setup(TRUE, <<>>, f), <<Setup(TRUE, k, f), Setup(b, <<>>, f)>>, {pure}) :
            k \in {"exclude_packages" :> {Line("p", {1})}, "exclude_packages" :> {Line("p", {})}},
            f \in {OnlyP, OnlyP @@ [exclude_newer |-> None, exclude_packages |-> {Line("p", {2})}]},
            b \in BOOLEAN}
M == INSTANCE MirrorFilter WITH story <- chosen, live <- server, held <- store, index <- pages,
        Stories <- Configurations, Absent <- NoFile, DefaultCooldown <- 1, LastTick <- 2, MaxYanks <- 1

-----------------------------------------------------------------------------
advisories == <<story, osv, exports, feeds, pin, holder, snap, etags, job, probe, cycle, skipped>>
filters == <<chosen, setup, server, now, up, page, store, pages, stamp, served>>

First(S) == CHOOSE x \in S : TRUE
Init ==
    /\ part \in Parts
    /\ CountersInit /\ (part # "counters" => season = First(Seasons))
    /\ QuarantineInit /\ (part # "quarantine" => course = First(Courses) /\ (\A p \in Projects : ~status[p])
                                                 /\ selected[Leader] = First(course.shelves))
    /\ SyncInit /\ (part # "sync" => chapter = First(Chapters))
    /\ A!AdvisoryInit /\ (part # "feed" => story = First(Tales))
    /\ M!FilterInit /\ (part # "filter" => chosen = First(Configurations))
Next ==
    \/ /\ part = "counters" /\ CountersNext
       /\ UNCHANGED <<part, quarantineVars, syncVars, advisories, filters>>
    \/ /\ part = "quarantine" /\ QuarantineNext
       /\ UNCHANGED <<part, counterVars, syncVars, advisories, filters>>
    \/ /\ part = "sync" /\ SyncNext
       /\ UNCHANGED <<part, counterVars, quarantineVars, advisories, filters>>
    \/ /\ part = "feed" /\ A!AdvisoryNext
       /\ UNCHANGED <<part, counterVars, quarantineVars, syncVars, filters>>
    \/ /\ part = "filter" /\ M!FilterNext
       /\ UNCHANGED <<part, counterVars, quarantineVars, syncVars, advisories>>
dataVars == <<part, counterVars, quarantineVars, syncVars, advisories, filters>>
Spec == Init /\ [][Next]_dataVars

-----------------------------------------------------------------------------
(* What keeps unwanted files out of a mirror.  advisories.rs: nothing OSV listed falls
   between the snapshot and the probe, neither a block nor the withdrawal of a fix.
   sync.rs resolve_packages, denylist.rs: what the mirror holds lies inside the slice
   the operator's sources describe, and what they deny is on no index page, whichever
   process rendered it. *)
GatesSafe ==
    /\ A!AdvisoryTypeOK /\ A!NothingMissed /\ A!FixesCurrent
    /\ M!ScopeKept /\ M!DenyEnforced

(* What no step may do: answer a query with more downloads than were written, put an
   older quarantined set in the place of a newer one, or lift a mirrored freeze
   without an active verdict (counters.rs, advisories.rs adopt_quarantined, sync.rs). *)
DataSteps == NoDoubleCount /\ NeverBackwards /\ FreezeLiftedOnlyOnVerdict
=============================================================================
