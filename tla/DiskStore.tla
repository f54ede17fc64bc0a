------------------------------ MODULE DiskStore ------------------------------
(***************************************************************************)
(* The disk backend (storage.rs, DiskStorage): one key of the tree, the    *)
(* temporary siblings its writers stage bytes in, the lock that makes a    *)
(* conditional put, the directory walk, and a process death between any    *)
(* two file-system calls.  A write of a temporary file is two steps, since *)
(* a reader of the directory may meet it half written.  The content etag   *)
(* of a conditional put is the content itself (disk_content_etag).         *)
(***************************************************************************)
EXTENDS Naturals, FiniteSets

CONSTANTS Tasks, Contents, Gone, Torn, NoCall,
          Disciplines,   \* sets of calls that one key sees, chosen at the start
          MaxTemps,      \* bound on the writes that stage a temporary file
          MaxDeaths      \* bound on process deaths

ASSUME DiskAssumption ==
    /\ {Gone, Torn} \cap Contents = {} /\ Gone # Torn /\ Gone \notin Tasks
    /\ MaxTemps \in Nat /\ MaxDeaths \in Nat

VARIABLES discipline,  \* the calls made on this key
          dest,        \* the file at the key's path
          temps,       \* temporary siblings, by sequence number
          seq,         \* TMP_SEQ
          cas_lock,    \* the task that holds it, or Gone
          crossed,     \* the swaps under way that a write without the lock has crossed
          call, answer,
          at,          \* where in its call a task is
          tmp,         \* the temporary a task stages in
          walk,        \* a directory walk: what it saw, what it has still to stat
          deaths

diskVars == <<discipline, dest, temps, seq, cas_lock, crossed, call, answer, at, tmp, walk, deaths>>

Kinds == {"put", "delete", "create", "link", "swap", "get"}
Call == [kind : Kinds, bytes : Contents, want : Contents]

ASSUME DisciplineAssumption == NoCall \notin Call /\ \A d \in Disciplines : d \subseteq Call

Undecided == [is |-> "undecided"]
Flag(b) == [is |-> "flag", flag |-> b]
Read(v) == [is |-> "read", content |-> v]
Failure == [is |-> "failure"]

Paths == {0} \cup 1..MaxTemps                \* 0 is the key itself
FileAt(p) == IF p = 0 THEN dest ELSE temps[p]
NoWalk == [on |-> FALSE, todo |-> {}, listed |-> {}, stood |-> {}]

DiskInit ==
    /\ discipline \in Disciplines
    /\ dest = Gone
    /\ temps = [p \in 1..MaxTemps |-> Gone]
    /\ seq = 0
    /\ cas_lock = Gone /\ crossed = {}
    /\ call = [t \in Tasks |-> NoCall]
    /\ answer = [t \in Tasks |-> Undecided]
    /\ at = [t \in Tasks |-> "idle"]
    /\ tmp = [t \in Tasks |-> 0]
    /\ walk = NoWalk
    /\ deaths = 0

\* What stood throughout a walk shrinks with every file that goes away.
Still(d, ts) == [walk EXCEPT !.stood = {p \in @ : IF p = 0 THEN d # Gone ELSE ts[p] # Gone}]

Go(t, where) == at' = [at EXCEPT ![t] = where]
Decide(t, a) == answer' = [answer EXCEPT ![t] = a]

\* The unconditional writes do not take the lock that a swap holds.
Crosses(t) == crossed' = crossed \cup {u \in Tasks \ {t} : call[u] # NoCall /\ call[u].kind = "swap"}

-----------------------------------------------------------------------------
Begin(t, c) ==
    /\ at[t] = "idle"
    /\ call' = [call EXCEPT ![t] = c]
    /\ Go(t, CASE c.kind \in {"put", "create"} -> "stage"
               [] c.kind = "swap" -> "lock"
               [] OTHER -> c.kind)
    /\ UNCHANGED <<discipline, dest, temps, seq, cas_lock, answer, tmp, walk, deaths, crossed>>

\* tmp_sibling: a sequence number of the process makes every name distinct.
TmpByClock == IF seq = 0 THEN 1 ELSE seq
TmpSibling == seq + 1

\* fs::write of the temporary: created, and half written for a while.
Stage(t) ==
    /\ at[t] = "stage" /\ seq < MaxTemps
    /\ tmp' = [tmp EXCEPT ![t] = TmpSibling]
    /\ seq' = TmpSibling
    /\ temps' = [temps EXCEPT ![TmpSibling] = Torn]
    /\ Go(t, "fill")
    /\ UNCHANGED <<discipline, dest, cas_lock, call, answer, walk, deaths, crossed>>

Fill(t) ==
    /\ at[t] = "fill"
    /\ temps' = [temps EXCEPT ![tmp[t]] = call[t].bytes]
    /\ Go(t, IF call[t].kind \in {"put", "swap"} THEN "rename" ELSE "hard_link")
    /\ UNCHANGED <<discipline, dest, seq, cas_lock, call, answer, tmp, walk, deaths, crossed>>

\* A full disk fails the write; the temporary stays.
FillFails(t) ==
    /\ at[t] = "fill"
    /\ Decide(t, Failure) /\ Go(t, "return")
    /\ UNCHANGED <<discipline, dest, temps, seq, cas_lock, call, tmp, walk, deaths, crossed>>

\* write_rename: the temporary moves over the destination.
Renamed(t) == [dest |-> temps[tmp[t]], temps |-> [temps EXCEPT ![tmp[t]] = Gone]]

Rename(t) ==
    /\ at[t] = "rename" /\ temps[tmp[t]] # Gone
    /\ dest' = Renamed(t).dest
    /\ IF call[t].kind = "put" THEN Crosses(t) ELSE UNCHANGED crossed
    /\ temps' = Renamed(t).temps
    /\ walk' = Still(dest', temps')
    /\ Decide(t, Flag(TRUE)) /\ Go(t, "return")
    /\ UNCHANGED <<discipline, seq, cas_lock, call, tmp, deaths>>

\* A failed rename (a shared temporary already moved away is one) removes the temporary.
RenameFails(t) ==
    /\ at[t] = "rename"
    /\ temps' = [temps EXCEPT ![tmp[t]] = Gone]
    /\ walk' = Still(dest, temps')
    /\ Decide(t, Failure) /\ Go(t, "return")
    /\ UNCHANGED <<discipline, dest, seq, cas_lock, call, tmp, deaths, crossed>>

\* link_atomic: hard_link creates the destination or answers EEXIST; the temporary goes after it.
HardLink(t) ==
    /\ at[t] = "hard_link" /\ temps[tmp[t]] # Gone
    /\ dest' = IF dest = Gone THEN temps[tmp[t]] ELSE dest
    /\ Decide(t, Flag(dest = Gone)) /\ Go(t, "unlink")
    /\ UNCHANGED <<discipline, temps, seq, cas_lock, call, tmp, walk, deaths, crossed>>

Unlink(t) ==
    /\ at[t] = "unlink"
    /\ temps' = [temps EXCEPT ![tmp[t]] = Gone]
    /\ walk' = Still(dest, temps')
    /\ Go(t, "return")
    /\ UNCHANGED <<discipline, dest, seq, cas_lock, call, answer, tmp, deaths, crossed>>

\* put_file_if_absent links the upload's spool file directly ...
LinkSpool(t) ==
    /\ at[t] = "link"
    /\ dest' = IF dest = Gone THEN call[t].bytes ELSE dest
    /\ Decide(t, Flag(dest = Gone)) /\ Go(t, "return")
    /\ UNCHANGED <<discipline, temps, seq, cas_lock, call, tmp, walk, deaths, crossed>>

\* ... or, across file systems (EXDEV), stages a copy first.
LinkCrossesDevices(t) ==
    /\ at[t] = "link"
    /\ Go(t, "stage")
    /\ UNCHANGED <<discipline, dest, temps, seq, cas_lock, call, answer, tmp, walk, deaths, crossed>>

\* put_if_match: the lock is held across read, compare and write.
Unlocked(t) == TRUE
Lockable(t) == cas_lock = Gone

Lock(t) ==
    /\ at[t] = "lock" /\ Lockable(t)
    /\ cas_lock' = t
    /\ Go(t, "compare")
    /\ UNCHANGED <<discipline, dest, temps, seq, call, answer, tmp, walk, deaths, crossed>>

Compare(t) ==
    /\ at[t] = "compare"
    /\ IF dest = call[t].want
       THEN Go(t, "stage") /\ UNCHANGED answer
       ELSE Decide(t, Flag(FALSE)) /\ Go(t, "return")
    /\ UNCHANGED <<discipline, dest, temps, seq, cas_lock, call, tmp, walk, deaths, crossed>>

\* get_bytes, get_with_etag and serve_artifact open the file once.
Get(t) ==
    /\ at[t] = "get"
    /\ Decide(t, Read(dest)) /\ Go(t, "return")
    /\ UNCHANGED <<discipline, dest, temps, seq, cas_lock, call, tmp, walk, deaths, crossed>>

\* delete_keys: a missing file is no error.
Delete(t) ==
    /\ at[t] = "delete"
    /\ dest' = Gone
    /\ walk' = Still(Gone, temps)
    /\ Crosses(t)
    /\ Decide(t, Flag(TRUE)) /\ Go(t, "return")
    /\ UNCHANGED <<discipline, temps, seq, cas_lock, call, tmp, deaths>>

Return(t) ==
    /\ at[t] = "return"
    /\ cas_lock' = IF cas_lock = t THEN Gone ELSE cas_lock
    /\ crossed' = crossed \ {t}
    /\ call' = [call EXCEPT ![t] = NoCall]
    /\ answer' = [answer EXCEPT ![t] = Undecided]
    /\ tmp' = [tmp EXCEPT ![t] = 0]
    /\ Go(t, "idle")
    /\ UNCHANGED <<discipline, dest, temps, seq, walk, deaths>>

-----------------------------------------------------------------------------
\* list_all and list_dir_entries: read the directory, then stat each entry.
ReadDir ==
    /\ ~walk.on
    /\ LET there == {p \in Paths : FileAt(p) # Gone}
       IN walk' = [NoWalk EXCEPT !.on = TRUE, !.todo = there, !.stood = there]
    /\ UNCHANGED <<discipline, dest, temps, seq, cas_lock, call, answer, at, tmp, deaths, crossed>>

\* An entry that vanished since is skipped.
Stat(p) ==
    /\ walk.on /\ p \in walk.todo
    /\ walk' = [walk EXCEPT !.todo = @ \ {p},
                            !.listed = IF FileAt(p) = Gone THEN @ ELSE @ \cup {p}]
    /\ UNCHANGED <<discipline, dest, temps, seq, cas_lock, call, answer, at, tmp, deaths, crossed>>

EndWalk ==
    /\ walk.on /\ walk.todo = {}
    /\ walk' = NoWalk
    /\ UNCHANGED <<discipline, dest, temps, seq, cas_lock, call, answer, at, tmp, deaths, crossed>>

\* The process dies between two file-system calls (FaultInjectStorage aborts there).
Die ==
    /\ deaths < MaxDeaths
    /\ deaths' = deaths + 1
    /\ cas_lock' = Gone /\ crossed' = {}
    /\ call' = [t \in Tasks |-> NoCall]
    /\ answer' = [t \in Tasks |-> Undecided]
    /\ at' = [t \in Tasks |-> "idle"]
    /\ tmp' = [t \in Tasks |-> 0]
    /\ walk' = NoWalk
    /\ UNCHANGED <<discipline, dest, temps, seq>>

DiskNext ==
    \/ \E t \in Tasks, c \in discipline : Begin(t, c)
    \/ \E t \in Tasks : Stage(t) \/ Fill(t) \/ FillFails(t) \/ Rename(t) \/ RenameFails(t)
          \/ HardLink(t) \/ Unlink(t) \/ LinkSpool(t) \/ LinkCrossesDevices(t)
          \/ Lock(t) \/ Compare(t) \/ Get(t) \/ Delete(t) \/ Return(t)
    \/ ReadDir \/ EndWalk \/ \E p \in Paths : Stat(p)
    \/ Die

DiskSpec == DiskInit /\ [][DiskNext]_diskVars

-----------------------------------------------------------------------------
\* The types of the state; the file at the key is whole or absent, and the lock is
\* held by a task inside a conditional put.
DiskTypeOK ==
    /\ dest \in Contents \cup {Gone}
    /\ temps \in [1..MaxTemps -> Contents \cup {Gone, Torn}]
    /\ seq \in 0..MaxTemps
    /\ \A t \in Tasks : call[t] = NoCall \/ call[t] \in Call
    /\ \A t \in Tasks : cas_lock = t => call[t] # NoCall /\ call[t].kind = "swap"

\* A finished walk lists every file that stood from its start to its end, whatever
\* vanished under it (storage.rs list_dir_entries, walk_disk).
WalkComplete == walk.on /\ walk.todo = {} => walk.stood \subseteq walk.listed

\* Every call on the key takes effect at one instant: a file is never torn, a create
\* wins once, a conditional put replaces what it compared, unless a put or a delete, which
\* take no lock, crossed it between its comparison and its rename: then it may replace what
\* they left (storage.rs put_if_match, link_atomic, write_rename, delete_keys).
Store == INSTANCE AtomicStore WITH value <- dest, Calls <- Call
Atomic == Store!StoreSpec

(* storage.rs DiskStorage: on one disk, a walk that races writers and deleters
   misses no file that stood throughout, the temporaries of two calls never
   collide, and only a swap holds the CAS lock. *)
DiskSafe == DiskTypeOK /\ WalkComplete
=============================================================================
