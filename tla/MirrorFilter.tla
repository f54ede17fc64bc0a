----------------------------- MODULE MirrorFilter -----------------------------
(***************************************************************************)
(* What slice of upstream a node may take: the `[mirror]` settings of the  *)
(* command line, the environment and pypiron.toml are resolved once at     *)
(* start (sync.rs MirrorArgs::resolve) and the same predicate then rules   *)
(* `sync`, the proxy's listing and the proxy's fills, while the package    *)
(* denylist also rules what the index shows (denylist.rs).                 *)
(*                                                                         *)
(* A source is a function whose domain is what it sets; a list it sets may *)
(* still name nothing.  A filter pattern is the set of tags it matches.  A *)
(* python tag is the version it pins, <<3, 9>>, or <<3, AnyMinor>> when it names *)
(* no minor one; an unrecognized tag is <<>>.                               *)
(***************************************************************************)
EXTENDS Integers, Sequences, FiniteSets, Functions, TLC

CONSTANTS Stories,      \* what an operator configures in turn, and what is upstream
          None, Plain, Refused, Malformed, Absent, AnyMinor,
          DefaultCooldown, LastTick, MaxYanks

VARIABLES story,        \* the setups still to come and the distributions upstream may carry
          setup,        \* the sources the next process starts with: [cli, file]
          live,         \* the server's resolved mirror; None while it is down
          now, up,      \* the clock; upstream's listing: file -> [at, yanked, fix]
          page,         \* the proxy's cached listing, as it was fetched
          held,         \* files in the store -> how they were taken
          index,        \* the files the package index shows
          stamp,        \* _state/enforced-excludes.json, or Absent
          served        \* the setup a server last ran with (a history)
filterVars == <<story, setup, live, now, up, page, held, index, stamp, served>>

----------------------------------------------------------------------------
(* Resolution: command line and environment over file over default. *)
Given(src, axes) == axes \cap DOMAIN src # {}
Lines(src, axes) == UNION {src[a] : a \in axes \cap DOMAIN src}
\* mutant: a list that names nothing reads as no list
EmptyIsUnset(cli, file, axes) ==
    LET lines == Lines(IF Given(cli, axes) THEN cli ELSE file, axes)
    IN  IF Malformed \in lines THEN Refused ELSE lines
resolve_packages(cli, file, axes) ==
    LET src == IF Given(cli, axes) THEN cli ELSE file
    IN  IF \/ Given(src, axes) /\ Lines(src, axes) = {}
           \/ Malformed \in Lines(src, axes)
        THEN Refused ELSE Lines(src, axes)
pick_vec(cli, file, axis) == resolve_packages(cli, file, {axis})

Flags == {"exclude_dev", "exclude_windows", "exclude_prereleases", "include_yanked"}
drop_file_bools_set_by_cli(cli, file) == Restrict(file, DOMAIN file \ (Flags \cap DOMAIN cli))
Flag(cli, file, b) ==
    LET kept == drop_file_bools_set_by_cli(cli, file)
    IN  (b \in DOMAIN cli /\ cli[b]) \/ (b \in DOMAIN kept /\ kept[b])

(* A value that was given empty is None: no bound. *)
Knob(cli, file, axis, default) ==
    LET v == IF axis \in DOMAIN cli THEN cli[axis]
             ELSE IF axis \in DOMAIN file THEN file[axis] ELSE default
    IN  IF v = Malformed THEN Refused ELSE v
At(t) == [kind |-> "at", n |-> t]
Ago(d) == [kind |-> "ago", n |-> d]
exclude_older_raw(cli, file) == Knob(cli, file, "exclude_older", None)
exclude_newer_input(cli, file) == Knob(cli, file, "exclude_newer", Ago(DefaultCooldown))

TagAxes == {"include_python_tag", "include_abi_tag", "include_platform_tag",
            "exclude_python_tag", "exclude_abi_tag", "exclude_platform_tag"}
resolve(cli, file) ==
    LET m == [a \in TagAxes \cup {"include_format"} |-> pick_vec(cli, file, a)] @@
             [include_packages |-> resolve_packages(cli, file,
                                        {"include_packages", "include_packages_from"}),
              exclude_packages |-> resolve_packages(cli, file,
                                        {"exclude_packages", "exclude_packages_from"}),
              exclude_newer |-> exclude_newer_input(cli, file),
              exclude_older |-> exclude_older_raw(cli, file),
              exclude_python_below |-> Knob(cli, file, "exclude_python_below", None),
              exclude_larger |-> Knob(cli, file, "exclude_larger", None),
              exclude_dev |-> Flag(cli, file, "exclude_dev"),
              exclude_windows |-> Flag(cli, file, "exclude_windows"),
              exclude_prereleases |-> Flag(cli, file, "exclude_prereleases"),
              exclude_yanked |-> ~ Flag(cli, file, "include_yanked"),
              fixes_skip_cooldown |-> Knob(cli, file, "security_fixes_skip_cooldown", TRUE)]
    IN  IF \E a \in DOMAIN m : m[a] = Refused THEN Refused ELSE m

----------------------------------------------------------------------------
(* The name axis: a spec is a project and the versions it pins; a bare spec *)
(* (empty pins) is the whole project.                                       *)
Constraints(specs, pkg) == {s.pins : s \in {s \in specs : s.name = pkg}}
version_allowed(constraints, f) ==
    {} \in constraints \/ (f.version # Absent /\ f.version \in UNION constraints)
file_denied(specs, f) == version_allowed(Constraints(specs, f.pkg), f)
name_fully_denied(specs, pkg) == {} \in Constraints(specs, pkg)
version_in_scope(m, f) ==
    /\ m.include_packages = {} \/ version_allowed(Constraints(m.include_packages, f.pkg), f)
    /\ ~ file_denied(m.exclude_packages, f)
(* The stamp holds what a server enforces; it reads back as the same list. *)
canonical(specs) == [p \in {s.name : s \in specs} |-> Constraints(specs, p)]
from_canonical(c) == UNION {{[name |-> p, pins |-> v] : v \in c[p]} : p \in DOMAIN c}

----------------------------------------------------------------------------
(* The predicate.  `lift` names the gates its caller opens. *)
instant(c) == IF c.kind = "at" THEN c.n ELSE now - c.n
fix_lifts_cooldown(m) ==
    m.fixes_skip_cooldown /\ m.exclude_newer # None /\ m.exclude_newer.kind = "ago"
tokens_match_any(tokens, filters) == \E t \in tokens, pat \in filters : t \in pat
tokens_all_excluded(tokens, filters) ==
    filters # {} /\ \A t \in tokens : tokens_match_any({t}, filters)
is_windows_wheel_platform(tags) == tags.platform \subseteq {"win"}
wheel_reaches_python_floor(tags, floor) ==
    \E t \in tags.python :
        \/ t = <<>>
        \/ t[1] >= floor[1] /\ (t[2] = AnyMinor \/ "abi3" \in tags.abi)
        \/ t[2] # AnyMinor /\ (t[1] > floor[1] \/ (t[1] = floor[1] /\ t[2] >= floor[2]))
Tagged(m, tags) ==
    /\ ~ (m.exclude_windows /\ is_windows_wheel_platform(tags))
    /\ ~ tokens_all_excluded(tags.python, m.exclude_python_tag)
    /\ ~ tokens_all_excluded(tags.abi, m.exclude_abi_tag)
    /\ ~ tokens_all_excluded(tags.platform, m.exclude_platform_tag)
    /\ m.exclude_python_below = None \/ wheel_reaches_python_floor(tags, m.exclude_python_below)
    /\ m.include_python_tag = {} \/ tokens_match_any(tags.python, m.include_python_tag)
    /\ m.include_abi_tag = {} \/ tokens_match_any(tags.abi, m.include_abi_tag)
    /\ m.include_platform_tag = {} \/ tokens_match_any(tags.platform, m.include_platform_tag)
(* A file upstream gives no time for is kept, whatever the bounds. *)
InBounds(m, e, lift) ==
    LET newer == IF e.fix /\ "fix" \in lift /\ fix_lifts_cooldown(m) THEN None ELSE m.exclude_newer
    IN  e.at # Absent => /\ newer # None => e.at < instant(newer)
                         /\ m.exclude_older # None => e.at >= instant(m.exclude_older)
(* A file whose name gives no version cannot be shown to be a pre-release. *)
infer_version(f) == f.version
is_prerelease_version(f) == infer_version(f) # Absent /\ f.release # "final"
is_dev_version(f) == infer_version(f) # Absent /\ f.release = "dev"
is_windows_installer(f) == f.format # "wheel" /\ f.windows
matches_mirror_inner(f, m, lift) ==
    /\ m.include_format = {} \/ f.format \in m.include_format
    /\ m.exclude_yanked /\ up[f].yanked => "yanked" \in lift
    /\ m.exclude_larger = None \/ f.size = Absent \/ f.size <= m.exclude_larger
    /\ ~ (m.exclude_prereleases /\ is_prerelease_version(f))
    /\ ~ (m.exclude_dev /\ is_dev_version(f))
    /\ InBounds(m, up[f], lift)
    /\ IF f.format # "wheel" THEN ~ (m.exclude_windows /\ is_windows_installer(f))
       ELSE IF f.tags = Malformed
            THEN m.include_python_tag \cup m.include_abi_tag \cup m.include_platform_tag = {}
            ELSE Tagged(m, f.tags)
matches_mirror_fix(f, m) == matches_mirror_inner(f, m, {"fix"})
matches_mirror_listing(f, m) == matches_mirror_inner(f, m, {"fix", "yanked"})

----------------------------------------------------------------------------
(* Upstream and the operator. *)
Publish(f) ==
    /\ f \in story.dists \ DOMAIN up
    /\ \E t \in {now, Absent} : up' = (f :> [at |-> t, yanked |-> FALSE, fix |-> FALSE]) @@ up
    /\ UNCHANGED <<story, setup, live, now, page, held, index, stamp, served>>
YankUpstream(f) ==
    /\ Cardinality({g \in DOMAIN up : up[g].yanked}) < MaxYanks
    /\ f \in DOMAIN up /\ ~ up[f].yanked
    /\ up' = [up EXCEPT ![f].yanked = TRUE]
    /\ UNCHANGED <<story, setup, live, now, page, held, index, stamp, served>>
NameFix(f) ==
    /\ f \in DOMAIN up /\ f.version # Absent /\ ~ up[f].fix
    /\ up' = [up EXCEPT ![f].fix = TRUE]
    /\ UNCHANGED <<story, setup, live, now, page, held, index, stamp, served>>
Tick ==
    /\ now < LastTick /\ now' = now + 1
    /\ UNCHANGED <<story, setup, live, up, page, held, index, stamp, served>>
Stop ==
    /\ live # None /\ live' = None /\ page' = <<>>
    /\ UNCHANGED <<story, setup, now, up, held, index, stamp, served>>
Reconfigure ==
    /\ live = None /\ story.setups # <<>> /\ UNCHANGED <<live, page>>
    /\ setup' = Head(story.setups) /\ story' = [story EXCEPT !.setups = Tail(@)]
    /\ UNCHANGED <<now, up, held, index, stamp, served>>

(* A server starts.  With an upstream to proxy it resolves the settings, and *)
(* one that cannot be resolved keeps it down; it then brings the index and   *)
(* the stamp in line with its denylist.  Without one it has no denylist.     *)
Denied(m) == IF m = Plain THEN {} ELSE m.exclude_packages
Shown(fs, deny) == {f \in fs : ~ file_denied(deny, f)}
Boot ==
    LET m == IF setup.proxy THEN resolve(setup.cli, setup.file) ELSE Plain
    IN  /\ live = None /\ m # Refused
        /\ live' = m /\ served' = setup
        /\ IF m = Plain \/ (stamp = Absent /\ Denied(m) = {})
           THEN UNCHANGED <<index, stamp>>
           ELSE index' = Shown(DOMAIN held, Denied(m)) /\ stamp' = canonical(Denied(m))
        /\ UNCHANGED <<story, setup, now, up, page, held>>

(* Files land in the store, and their packages' pages are rendered anew. *)
Stored(fs, taken) ==
    LET pkgs == {f.pkg : f \in fs}
        all == DOMAIN held \cup fs
    IN  /\ held' = taken @@ held
        /\ index' = {f \in index : f.pkg \notin pkgs}
                     \cup Shown({f \in all : f.pkg \in pkgs}, Denied(live))
(* One sync run over every project of its work list. *)
Selected(m) ==
    {f \in DOMAIN up : /\ f.digest /\ f.version # Absent
                       /\ version_in_scope(m, f) /\ matches_mirror_fix(f, m)}
Sync ==
    LET m == resolve(setup.cli, setup.file)
        new == Selected(m) \ DOMAIN held
    IN  /\ live # None /\ m # Refused /\ m.include_packages # {} /\ new # {}
        /\ Stored(new, [f \in new |-> [setup |-> setup, now |-> now, up |-> up[f]]])
        /\ UNCHANGED <<story, setup, live, now, up, page, stamp, served>>
(* The proxy fetches a listing, and fills from the listing it has. *)
Listable(m) ==
    {f \in DOMAIN up : /\ f.digest /\ matches_mirror_listing(f, m)
                       /\ version_in_scope(m, f) /\ ~ name_fully_denied(m.exclude_packages, f.pkg)}
List ==
    /\ live \notin {None, Plain}
    /\ page' = [f \in Listable(live) |-> [now |-> now, up |-> up[f]]]
    /\ page' # page
    /\ UNCHANGED <<story, setup, live, now, up, held, index, stamp, served>>
fill_refused_by_yank(f) == live.exclude_yanked /\ page[f].up.yanked
Fill(f) ==
    /\ live # None /\ f \in DOMAIN page \ DOMAIN held /\ ~ fill_refused_by_yank(f)
    /\ Stored({f}, f :> [setup |-> setup, now |-> page[f].now, up |-> page[f].up])
    /\ UNCHANGED <<story, setup, live, now, up, page, stamp, served>>

(* `rebuild-index` takes the denylist a server last enforced, through        *)
(* whatever channel; the file's own is only for a store that carries no stamp. *)
FileDenylist == resolve(<<>>, setup.file)
enforced_denylist(fallback) == IF stamp = Absent THEN fallback ELSE from_canonical(stamp)
RebuildOffline ==
    /\ live = None /\ FileDenylist # Refused
    /\ LET deny == enforced_denylist(FileDenylist.exclude_packages)
       IN  index' = Shown(DOMAIN held, deny) /\ stamp' = canonical(deny)
    /\ UNCHANGED <<story, setup, live, now, up, page, held, served>>

FilterInit ==
    /\ story \in Stories
    /\ setup = story.first
    /\ live = None /\ now = 0 /\ up = <<>> /\ page = <<>>
    /\ held = <<>> /\ index = {} /\ stamp = Absent /\ served = None
FilterNext ==
    \/ \E f \in story.dists : Publish(f) \/ YankUpstream(f) \/ NameFix(f) \/ Fill(f)
    \/ Tick \/ Stop \/ Reconfigure \/ Boot \/ Sync \/ List \/ RebuildOffline
FilterSpec == FilterInit /\ [][FilterNext]_filterVars

----------------------------------------------------------------------------
(* What the operator's sources say, read without resolving them: the source *)
(* that governs an axis is the first that sets it.                          *)
Governs(s, axes) == IF Given(s.cli, axes) THEN s.cli ELSE s.file
Includes == {"include_packages", "include_packages_from"}
Excludes == {"exclude_packages", "exclude_packages_from"}
Says(s, axes) == Lines(Governs(s, axes), axes)
SetEmpty(s, axes) == Given(Governs(s, axes), axes) /\ Says(s, axes) = {}
Names(specs, f) == \E sp \in specs : sp.name = f.pkg /\ (sp.pins = {} \/ f.version \in sp.pins)
WantsNewer(s) == Governs(s, {"exclude_newer"})
Aged(s, h) ==
    LET src == WantsNewer(s)
        cut == IF "exclude_newer" \in DOMAIN src THEN src["exclude_newer"] ELSE Ago(DefaultCooldown)
    IN  \/ cut = None \/ h.up.at = Absent
        \/ cut.kind = "at" /\ h.up.at < cut.n
        \/ cut.kind = "ago" /\ (h.up.at < h.now - cut.n \/ h.up.fix)
Turned(s, b) == LET src == Governs(s, {b}) IN b \in DOMAIN src /\ src[b]

(* Whatever reached the store from upstream lies inside the slice the        *)
(* operator's own sources describe, however they were combined: no source    *)
(* that governs an axis was set and empty, the file is named by the include  *)
(* list if there is one and by no exclude list, and it was out of its        *)
(* cooldown when it was taken unless a settled advisory named it as a fix.   *)
(* (sync.rs resolve_packages: "Only the absence of every source may mean     *)
(* unscoped".)                                                               *)
ScopeKept ==
    \A f \in DOMAIN held :
        LET s == held[f].setup
        IN  /\ \A axes \in {Includes, Excludes} \cup {{a} : a \in TagAxes \cup {"include_format"}} :
                   ~ SetEmpty(s, axes)
            /\ Says(s, Includes) # {} => Names(Says(s, Includes), f)
            /\ ~ Names(Says(s, Excludes), f)
            /\ Aged(s, held[f])
            /\ held[f].up.yanked => Turned(s, "include_yanked")
            /\ Turned(s, "exclude_prereleases") => f.release = "final"

(* A file the last server's settings denied is on no index page, whichever   *)
(* process rendered it: the server, or an offline rebuild that was never     *)
(* given those settings (denylist.rs: "rather than re-deriving it from a     *)
(* config channel serve may not have used").                                 *)
DenyEnforced ==
    served # None /\ served.proxy => \A f \in index : ~ Names(Says(served, Excludes), f)
=============================================================================
