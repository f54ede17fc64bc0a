---------------------------- MODULE RequestProofs ----------------------------
(***************************************************************************)
(* The disk backend implements the atomic store, for any number of tasks,  *)
(* any contents and any number of deaths, whichever calls a key sees.      *)
(***************************************************************************)
EXTENDS DiskStore, TLAPS

-----------------------------------------------------------------------------
(* The inductive invariant.                                                *)

\* Where a task of each kind may stand.
Places(kind) ==
    CASE kind = "put"    -> {"stage", "fill", "rename", "return"}
      [] kind = "delete" -> {"delete", "return"}
      [] kind = "create" -> {"stage", "fill", "hard_link", "unlink", "return"}
      [] kind = "link"   -> {"link", "stage", "fill", "hard_link", "unlink", "return"}
      [] kind = "swap"   -> {"lock", "compare", "stage", "fill", "rename", "return"}
      [] kind = "get"    -> {"get", "return"}

WalkType ==
    [on : BOOLEAN, todo : SUBSET Paths, listed : SUBSET Paths, stood : SUBSET Paths]

DiskTypes ==
    /\ discipline \in Disciplines
    /\ dest \in Contents \cup {Gone}
    /\ temps \in [1..MaxTemps -> Contents \cup {Gone, Torn}]
    /\ seq \in 0..MaxTemps
    /\ cas_lock \in Tasks \cup {Gone} /\ crossed \subseteq Tasks
    /\ call \in [Tasks -> discipline \cup {NoCall}]
    /\ DOMAIN answer = Tasks
    /\ DOMAIN at = Tasks
    /\ tmp \in [Tasks -> 0..MaxTemps]
    /\ walk \in WalkType
    /\ deaths \in Nat

\* A task stands where its call's code has brought it, and has an answer from the
\* moment its call took effect.
TaskShape(t) ==
    /\ IF call[t] = NoCall THEN at[t] = "idle" ELSE at[t] \in Places(call[t].kind)
    /\ answer[t] = Undecided <=> at[t] \notin {"unlink", "return"}

\* The temporary a task works on is its own and holds the call's bytes.
TempShape(t) ==
    /\ tmp[t] <= seq
    /\ at[t] \in {"fill", "rename", "hard_link", "unlink"} => tmp[t] # 0
    /\ at[t] \in {"rename", "hard_link"} => temps[tmp[t]] = call[t].bytes
    /\ \A u \in Tasks : u # t /\ tmp[t] # 0 => tmp[u] # tmp[t]

\* From its comparison to its rename a swap holds the lock, and the file is what it
\* compared unless a write without the lock has crossed it.
SwapShape(t) ==
    call[t] # NoCall /\ call[t].kind = "swap" =>
        /\ at[t] \in {"compare", "stage", "fill", "rename"} => cas_lock = t
        /\ at[t] \in {"stage", "fill", "rename"} => dest = call[t].want \/ t \in crossed

LockShape == \A t \in Tasks : cas_lock = t => call[t] # NoCall /\ call[t].kind = "swap"

\* What stood since the walk began stands still, and is listed or still to be seen.
WalkShape ==
    /\ walk.on => walk.stood \subseteq walk.todo \cup walk.listed
    /\ \A p \in walk.stood : FileAt(p) # Gone

DiskInv ==
    /\ DiskTypes
    /\ \A t \in Tasks : TaskShape(t) /\ TempShape(t) /\ SwapShape(t)
    /\ LockShape
    /\ WalkShape

\* What a call is, whatever the discipline of its key.
LEMMA CallFacts ==
    ASSUME DiskTypes, NEW t \in Tasks, call[t] # NoCall
    PROVE  /\ call[t] \in discipline /\ call[t] \in Call
           /\ call[t].kind \in Kinds /\ call[t].bytes \in Contents /\ call[t].want \in Contents
           /\ call[t].bytes # Gone /\ call[t].want # Gone
<1>1. call[t] \in discipline /\ discipline \subseteq Call
    BY DisciplineAssumption DEF DiskTypes
<1> QED
    BY <1>1, DiskAssumption DEF Call

\* A write without the lock marks every other swap under way.
LEMMA CrossesAll ==
    ASSUME DiskTypes, NEW t \in Tasks, Crosses(t), NEW u \in Tasks, u # t, call[u] # NoCall,
           call[u].kind = "swap"
    PROVE  u \in crossed'
    BY DEF Crosses

\* Where a task stands tells what kind of call it is making.
LEMMA KindAt ==
    ASSUME DiskTypes, NEW t \in Tasks, TaskShape(t)
    PROVE  /\ at[t] # "idle" => call[t] # NoCall /\ at[t] \in Places(call[t].kind)
           /\ at[t] = "idle" => call[t] = NoCall
           /\ at[t] = "rename" => call[t].kind \in {"put", "swap"}
           /\ at[t] \in {"hard_link", "unlink"} => call[t].kind \in {"create", "link"}
           /\ at[t] = "link" => call[t].kind = "link"
           /\ at[t] \in {"lock", "compare"} => call[t].kind = "swap"
           /\ at[t] = "get" => call[t].kind = "get"
           /\ at[t] = "delete" => call[t].kind = "delete"
           /\ at[t] \in {"stage", "fill"} => call[t].kind \in {"put", "create", "link", "swap"}
<1>1. CASE call[t] = NoCall
    BY <1>1 DEF TaskShape
<1>2. CASE call[t] # NoCall
    BY <1>2, CallFacts DEF TaskShape, Places, Kinds
<1> QED
    BY <1>1, <1>2

\* What is still standing after a step, and still to be seen or listed.
LEMMA StillKeeps ==
    ASSUME DiskTypes, WalkShape, NEW d, NEW ts \in [1..MaxTemps -> Contents \cup {Gone, Torn}],
           dest' = d, temps' = ts, walk' = Still(d, ts)
    PROVE  walk' \in WalkType /\ WalkShape'
<1>1. walk' = [walk EXCEPT !.stood = {p \in @ : IF p = 0 THEN d # Gone ELSE ts[p] # Gone}]
    BY DEF Still
<1>2. /\ walk'.on = walk.on /\ walk'.todo = walk.todo /\ walk'.listed = walk.listed
      /\ walk'.stood = {p \in walk.stood : IF p = 0 THEN d # Gone ELSE ts[p] # Gone}
    BY <1>1 DEF DiskTypes, WalkType
<1>3. walk' \in WalkType
    BY <1>1 DEF DiskTypes, WalkType
<1> QED
    BY <1>2, <1>3 DEF WalkShape, FileAt

LEMMA DiskInvInit == DiskInit => DiskInv
<1> SUFFICES ASSUME DiskInit PROVE DiskInv
    OBVIOUS
<1> USE DiskAssumption, DisciplineAssumption DEF DiskInit
<1>1. DiskTypes
    BY DEF DiskTypes, WalkType, NoWalk
<1>2. \A t \in Tasks : TaskShape(t) /\ TempShape(t) /\ SwapShape(t)
    BY DEF TaskShape, TempShape, SwapShape
<1>3. LockShape /\ WalkShape
    BY DEF LockShape, WalkShape, NoWalk
<1> QED
    BY <1>1, <1>2, <1>3 DEF DiskInv

\* A step that leaves files, temporaries and the walk alone and moves one task.
LEMMA WalkUntouched ==
    ASSUME DiskTypes, WalkShape, UNCHANGED <<dest, temps, walk>>
    PROVE  WalkShape'
    BY DEF WalkShape, FileAt

LEMMA DiskInvStep == DiskInv /\ [DiskNext]_diskVars => DiskInv'
<1> SUFFICES ASSUME DiskInv, [DiskNext]_diskVars PROVE DiskInv'
    OBVIOUS
<1> USE DiskAssumption
<1>0. /\ DiskTypes /\ LockShape /\ WalkShape
      /\ \A t \in Tasks : TaskShape(t) /\ TempShape(t) /\ SwapShape(t)
    BY DEF DiskInv
<1>1. ASSUME NEW t \in Tasks, NEW c \in discipline, Begin(t, c) PROVE DiskInv'
    <2>1. c \in Call /\ c # NoCall /\ c.kind \in Kinds
        BY <1>0, DisciplineAssumption DEF DiskTypes, Call
    <2>2. DiskTypes'
        BY <1>0, <1>1 DEF DiskTypes, Begin, Go
    <2>3. at'[t] \in Places(c.kind) /\ at'[t] \in {"stage", "lock", "link", "get", "delete"}
        BY <1>0, <1>1, <2>1 DEF Begin, Go, DiskTypes, Places, Kinds
    <2>4. /\ call'[t] = c /\ call[t] = NoCall /\ at[t] = "idle"
          /\ \A u \in Tasks : u # t => at'[u] = at[u] /\ call'[u] = call[u]
          /\ c.kind = "swap" => at'[t] = "lock"
        <3>1. at[t] = "idle" /\ call'[t] = c
            BY <1>0, <1>1 DEF Begin, DiskTypes
        <3>2. call[t] = NoCall
            BY <1>0, <3>1, KindAt
        <3>3. \A u \in Tasks : u # t => at'[u] = at[u] /\ call'[u] = call[u]
            BY <1>0, <1>1 DEF Begin, Go, DiskTypes
        <3>4. ASSUME c.kind = "swap" PROVE at'[t] = "lock"
            BY <1>0, <1>1, <3>4 DEF Begin, Go, DiskTypes
        <3> QED
            BY <3>1, <3>2, <3>3, <3>4
    <2>5. \A u \in Tasks : TaskShape(u)' /\ TempShape(u)' /\ SwapShape(u)'
        BY <1>0, <1>1, <2>1, <2>3, <2>4 DEF Begin, TaskShape, TempShape, SwapShape
    <2>6. LockShape' /\ WalkShape'
        BY <1>0, <1>1, <2>4, WalkUntouched DEF Begin, LockShape
    <2> QED
        BY <2>2, <2>5, <2>6 DEF DiskInv
<1>2. ASSUME NEW t \in Tasks, Stage(t) PROVE DiskInv'
    <2>1. DiskTypes'
        BY <1>0, <1>2 DEF DiskTypes, Stage, TmpSibling, Go
    <2>2. /\ at[t] = "stage" /\ at'[t] = "fill" /\ tmp'[t] = seq + 1 /\ seq' = seq + 1
          /\ \A u \in Tasks : u # t => at'[u] = at[u] /\ tmp'[u] = tmp[u]
          /\ \A p \in 1..MaxTemps : p # seq + 1 => temps'[p] = temps[p]
          /\ temps'[seq + 1] = Torn
        BY <1>0, <1>2 DEF DiskTypes, Stage, TmpSibling, Go
    <2>3. call[t] # NoCall /\ "fill" \in Places(call[t].kind)
        BY <1>0, <2>2, KindAt DEF Places
    <2>4. \A u \in Tasks : TaskShape(u)' /\ SwapShape(u)'
        BY <1>0, <1>2, <2>2, <2>3 DEF Stage, TaskShape, SwapShape
    <2>5. \A u \in Tasks : TempShape(u)'
        BY <1>0, <1>2, <2>2 DEF Stage, TempShape, DiskTypes
    <2>6. LockShape'
        BY <1>0, <1>2 DEF Stage, LockShape
    <2>7. WalkShape'
        BY <1>0, <1>2, <2>2 DEF Stage, WalkShape, FileAt, DiskTypes, WalkType, Paths
    <2> QED
        BY <2>1, <2>4, <2>5, <2>6, <2>7 DEF DiskInv
<1>3. ASSUME NEW t \in Tasks, Fill(t) PROVE DiskInv'
    <2>1. /\ at[t] = "fill" /\ call[t] # NoCall /\ call[t].bytes \in Contents /\ tmp[t] \in 1..MaxTemps
          /\ call[t].kind \in {"put", "create", "link", "swap"}
        BY <1>0, <1>3, KindAt, CallFacts DEF Fill, TempShape, DiskTypes
    <2>2. DiskTypes'
        BY <1>0, <1>3, <2>1 DEF DiskTypes, Fill, Go
    <2>3. /\ at'[t] = IF call[t].kind \in {"put", "swap"} THEN "rename" ELSE "hard_link"
          /\ \A u \in Tasks : u # t => at'[u] = at[u]
          /\ temps'[tmp[t]] = call[t].bytes
          /\ \A p \in 1..MaxTemps : p # tmp[t] => temps'[p] = temps[p]
        BY <1>0, <1>3, <2>1 DEF Fill, Go, DiskTypes
    <2>4. \A u \in Tasks : TaskShape(u)' /\ SwapShape(u)'
        BY <1>0, <1>3, <2>1, <2>3 DEF Fill, TaskShape, SwapShape, Places
    <2>5. \A u \in Tasks : TempShape(u)'
        BY <1>0, <1>3, <2>1, <2>3 DEF Fill, TempShape, DiskTypes
    <2>6. LockShape'
        BY <1>0, <1>3 DEF Fill, LockShape
    <2>7. WalkShape'
        BY <1>0, <1>3, <2>1, <2>3 DEF Fill, WalkShape, FileAt, DiskTypes, WalkType, Paths
    <2> QED
        BY <2>2, <2>4, <2>5, <2>6, <2>7 DEF DiskInv
<1>4. ASSUME NEW t \in Tasks, FillFails(t) PROVE DiskInv'
    <2>1. DiskTypes'
        BY <1>0, <1>4 DEF DiskTypes, FillFails, Go, Decide
    <2>2. /\ at[t] = "fill" /\ at'[t] = "return" /\ answer'[t] = Failure
          /\ \A u \in Tasks : u # t => at'[u] = at[u] /\ answer'[u] = answer[u]
        BY <1>0, <1>4 DEF FillFails, Go, Decide, DiskTypes
    <2>3. \A u \in Tasks : TaskShape(u)' /\ TempShape(u)' /\ SwapShape(u)'
        <3>1. call[t] # NoCall /\ "return" \in Places(call[t].kind) /\ Failure # Undecided
            BY <1>0, <2>2, KindAt, CallFacts DEF Places, Kinds, Failure, Undecided
        <3> QED
            BY <1>0, <1>4, <2>2, <3>1 DEF FillFails, TaskShape, TempShape, SwapShape
    <2>4. LockShape' /\ WalkShape'
        BY <1>0, <1>4, WalkUntouched DEF FillFails, LockShape
    <2> QED
        BY <2>1, <2>3, <2>4 DEF DiskInv
<1>5. ASSUME NEW t \in Tasks, Rename(t) PROVE DiskInv'
    <2>1. /\ at[t] = "rename" /\ call[t] # NoCall /\ call[t].bytes \in Contents /\ tmp[t] \in 1..MaxTemps
          /\ call[t].kind \in {"put", "swap"} /\ temps[tmp[t]] = call[t].bytes
          /\ call[t].kind = "swap" => cas_lock = t
        BY <1>0, <1>5, KindAt, CallFacts DEF Rename, TempShape, SwapShape, DiskTypes
    <2>2. /\ dest' = call[t].bytes /\ temps' = [temps EXCEPT ![tmp[t]] = Gone]
          /\ walk' = Still(dest', temps')
        BY <1>5, <2>1 DEF Rename, Renamed
    <2>3. walk' \in WalkType /\ WalkShape'
        <3>1. temps' \in [1..MaxTemps -> Contents \cup {Gone, Torn}]
            BY <1>0, <2>2 DEF DiskTypes
        <3> QED
            BY <1>0, <2>2, <3>1, StillKeeps
    <2>4. DiskTypes'
        BY <1>0, <1>5, <2>1, <2>2, <2>3 DEF DiskTypes, Rename, Crosses, Go, Decide
    <2>5. /\ at'[t] = "return" /\ answer'[t] = Flag(TRUE)
          /\ \A u \in Tasks : u # t => at'[u] = at[u] /\ answer'[u] = answer[u]
          /\ \A p \in 1..MaxTemps : p # tmp[t] => temps'[p] = temps[p]
        BY <1>0, <1>5, <2>2 DEF Rename, Go, Decide, DiskTypes
    <2>6. \A u \in Tasks : TaskShape(u)' /\ TempShape(u)'
        <3>1. "return" \in Places(call[t].kind) /\ Flag(TRUE) # Undecided
            BY <2>1 DEF Places, Flag, Undecided
        <3>2. \A u \in Tasks : TaskShape(u)'
            BY <1>0, <1>5, <2>1, <2>5, <3>1 DEF Rename, TaskShape
        <3> QED
            BY <1>0, <1>5, <2>1, <2>5, <3>2 DEF Rename, TempShape, DiskTypes
    <2>7. ASSUME NEW u \in Tasks PROVE SwapShape(u)'
        <3>1. CASE u = t
            BY <1>5, <2>5, <3>1 DEF SwapShape
        <3>2. CASE u # t /\ call[u] # NoCall /\ call[u].kind = "swap"
            <4>1. CASE call[t].kind = "swap"
                <5>1. at[u] \notin {"compare", "stage", "fill", "rename"}
                    BY <1>0, <2>1, <3>2, <4>1 DEF SwapShape
                <5> QED
                    BY <2>5, <3>2, <5>1 DEF SwapShape
            <4>2. CASE call[t].kind = "put"
                <5>1. Crosses(t) /\ UNCHANGED <<call, cas_lock>>
                    BY <1>5, <4>2 DEF Rename
                <5>2. u \in crossed'
                    BY <1>0, <3>2, <5>1, CrossesAll
                <5> QED
                    BY <1>0, <2>5, <3>2, <5>1, <5>2 DEF SwapShape
            <4> QED
                BY <2>1, <4>1, <4>2
        <3>3. CASE u # t /\ ~(call[u] # NoCall /\ call[u].kind = "swap")
            BY <1>5, <3>3 DEF Rename, SwapShape
        <3> QED
            BY <3>1, <3>2, <3>3
    <2>8. LockShape'
        BY <1>0, <1>5 DEF Rename, LockShape
    <2> QED
        BY <2>3, <2>4, <2>6, <2>7, <2>8 DEF DiskInv
<1>6. ASSUME NEW t \in Tasks, RenameFails(t) \/ Unlink(t) PROVE DiskInv'
    <2>1. /\ at[t] \in {"rename", "unlink"} /\ call[t] # NoCall /\ tmp[t] \in 1..MaxTemps
          /\ "return" \in Places(call[t].kind)
        BY <1>0, <1>6, KindAt, CallFacts DEF RenameFails, Unlink, TempShape, DiskTypes, Places
    <2>2. dest' = dest /\ temps' = [temps EXCEPT ![tmp[t]] = Gone] /\ walk' = Still(dest', temps')
        BY <1>6 DEF RenameFails, Unlink
    <2>3. walk' \in WalkType /\ WalkShape'
        <3>1. temps' \in [1..MaxTemps -> Contents \cup {Gone, Torn}]
            BY <1>0, <2>2 DEF DiskTypes
        <3> QED
            BY <1>0, <2>2, <3>1, StillKeeps
    <2>4. DiskTypes'
        BY <1>0, <1>6, <2>2, <2>3 DEF DiskTypes, RenameFails, Unlink, Go, Decide
    <2>5. /\ at'[t] = "return" /\ answer'[t] # Undecided
          /\ \A u \in Tasks : u # t => at'[u] = at[u] /\ answer'[u] = answer[u]
          /\ \A p \in 1..MaxTemps : p # tmp[t] => temps'[p] = temps[p]
        BY <1>0, <1>6, <2>2
           DEF RenameFails, Unlink, Go, Decide, DiskTypes, TaskShape, Failure, Undecided
    <2>6. \A u \in Tasks : TaskShape(u)'
        BY <1>0, <1>6, <2>1, <2>5 DEF RenameFails, Unlink, TaskShape
    <2>7. \A u \in Tasks : TempShape(u)'
        BY <1>0, <1>6, <2>1, <2>5 DEF RenameFails, Unlink, TempShape, DiskTypes
    <2>8. \A u \in Tasks : SwapShape(u)'
        BY <1>0, <1>6, <2>5 DEF RenameFails, Unlink, SwapShape
    <2>9. LockShape'
        BY <1>0, <1>6 DEF RenameFails, Unlink, LockShape
    <2> QED
        BY <2>3, <2>4, <2>6, <2>7, <2>8, <2>9 DEF DiskInv
<1>7. ASSUME NEW t \in Tasks, HardLink(t) \/ LinkSpool(t) PROVE DiskInv'
    <2>1. /\ at[t] \in {"hard_link", "link"} /\ call[t] # NoCall /\ call[t].bytes \in Contents
          /\ call[t].kind \in {"create", "link"}
        BY <1>0, <1>7, KindAt, CallFacts DEF HardLink, LinkSpool
    <2>2. dest' = IF dest = Gone THEN call[t].bytes ELSE dest
        BY <1>0, <1>7 DEF HardLink, LinkSpool, TempShape
    <2>3. DiskTypes'
        BY <1>0, <1>7, <2>1, <2>2 DEF DiskTypes, HardLink, LinkSpool, Go, Decide
    <2>4. /\ at'[t] \in {"unlink", "return"} /\ answer'[t] = Flag(dest = Gone)
          /\ HardLink(t) => at[t] = "hard_link"
          /\ LinkSpool(t) => at'[t] = "return"
          /\ \A u \in Tasks : u # t => at'[u] = at[u] /\ answer'[u] = answer[u]
        BY <1>0, <1>7 DEF HardLink, LinkSpool, Go, Decide, DiskTypes
    <2>5. \A u \in Tasks : TaskShape(u)'
        <3>1. {"unlink", "return"} \subseteq Places(call[t].kind) /\ Flag(dest = Gone) # Undecided
            BY <2>1 DEF Places, Flag, Undecided
        <3> QED
            BY <1>0, <1>7, <2>1, <2>4, <3>1 DEF HardLink, LinkSpool, TaskShape
    <2>6. \A u \in Tasks : TempShape(u)'
        BY <1>0, <1>7, <2>4 DEF HardLink, LinkSpool, TempShape
    <2>7. ASSUME NEW u \in Tasks PROVE SwapShape(u)'
        <3>1. CASE u = t
            BY <1>7, <2>1, <3>1 DEF SwapShape, HardLink, LinkSpool
        <3>2. CASE u # t
            <4>1. call[u] # NoCall => call[u].want # Gone
                BY <1>0, CallFacts
            <4> QED
                BY <1>0, <1>7, <2>2, <2>4, <3>2, <4>1 DEF SwapShape, HardLink, LinkSpool
        <3> QED
            BY <3>1, <3>2
    <2>8. LockShape'
        BY <1>0, <1>7 DEF HardLink, LinkSpool, LockShape
    <2>9. WalkShape'
        BY <1>0, <1>7, <2>1, <2>2 DEF HardLink, LinkSpool, WalkShape, FileAt
    <2> QED
        BY <2>3, <2>5, <2>6, <2>7, <2>8, <2>9 DEF DiskInv
<1>8. ASSUME NEW t \in Tasks, LinkCrossesDevices(t) PROVE DiskInv'
    <2>1. DiskTypes'
        BY <1>0, <1>8 DEF DiskTypes, LinkCrossesDevices, Go
    <2>2. /\ at[t] = "link" /\ at'[t] = "stage" /\ call[t] # NoCall /\ call[t].kind = "link"
          /\ \A u \in Tasks : u # t => at'[u] = at[u]
        BY <1>0, <1>8, KindAt DEF LinkCrossesDevices, Go, DiskTypes
    <2>3. \A u \in Tasks : TaskShape(u)' /\ TempShape(u)' /\ SwapShape(u)'
        BY <1>0, <1>8, <2>2 DEF LinkCrossesDevices, TaskShape, TempShape, SwapShape, Places
    <2>4. LockShape' /\ WalkShape'
        BY <1>0, <1>8, WalkUntouched DEF LinkCrossesDevices, LockShape
    <2> QED
        BY <2>1, <2>3, <2>4 DEF DiskInv
<1>9. ASSUME NEW t \in Tasks, Lock(t) PROVE DiskInv'
    <2>1. DiskTypes'
        BY <1>0, <1>9 DEF DiskTypes, Lock, Go
    <2>2. /\ at[t] = "lock" /\ at'[t] = "compare" /\ call[t] # NoCall /\ call[t].kind = "swap"
          /\ cas_lock = Gone /\ cas_lock' = t
          /\ \A u \in Tasks : u # t => at'[u] = at[u]
        BY <1>0, <1>9, KindAt DEF Lock, Lockable, Go, DiskTypes
    <2>3. \A u \in Tasks : TaskShape(u)' /\ TempShape(u)' /\ SwapShape(u)'
        BY <1>0, <1>9, <2>2 DEF Lock, TaskShape, TempShape, SwapShape, Places
    <2>4. LockShape' /\ WalkShape'
        BY <1>0, <1>9, <2>2, WalkUntouched DEF Lock, LockShape
    <2> QED
        BY <2>1, <2>3, <2>4 DEF DiskInv
<1>10. ASSUME NEW t \in Tasks, Compare(t) PROVE DiskInv'
    <2>1. DiskTypes'
        BY <1>0, <1>10 DEF DiskTypes, Compare, Go, Decide
    <2>2. /\ at[t] = "compare" /\ call[t] # NoCall /\ call[t].kind = "swap" /\ cas_lock = t
          /\ \/ dest = call[t].want /\ at'[t] = "stage" /\ answer'[t] = answer[t]
             \/ at'[t] = "return" /\ answer'[t] = Flag(FALSE)
          /\ \A u \in Tasks : u # t => at'[u] = at[u] /\ answer'[u] = answer[u]
        BY <1>0, <1>10, KindAt DEF Compare, Go, Decide, DiskTypes, SwapShape
    <2>3. \A u \in Tasks : TaskShape(u)' /\ TempShape(u)' /\ SwapShape(u)'
        <3>1. {"stage", "return"} \subseteq Places(call[t].kind) /\ Flag(FALSE) # Undecided
            BY <2>2 DEF Places, Flag, Undecided
        <3>2. UNCHANGED <<dest, temps, seq, cas_lock, crossed, call, tmp>>
            BY <1>10 DEF Compare
        <3>3. \A u \in Tasks : TaskShape(u)'
            BY <1>0, <2>2, <3>1, <3>2 DEF TaskShape
        <3>4. \A u \in Tasks : TempShape(u)'
            BY <1>0, <2>2, <3>2 DEF TempShape
        <3>5. \A u \in Tasks : SwapShape(u)'
            BY <1>0, <2>2, <3>2 DEF SwapShape
        <3> QED
            BY <3>3, <3>4, <3>5
    <2>4. LockShape' /\ WalkShape'
        BY <1>0, <1>10, WalkUntouched DEF Compare, LockShape
    <2> QED
        BY <2>1, <2>3, <2>4 DEF DiskInv
<1>11. ASSUME NEW t \in Tasks, Get(t) PROVE DiskInv'
    <2>1. DiskTypes'
        BY <1>0, <1>11 DEF DiskTypes, Get, Go, Decide
    <2>2. /\ at[t] = "get" /\ at'[t] = "return" /\ call[t] # NoCall /\ call[t].kind = "get"
          /\ answer'[t] = Read(dest)
          /\ \A u \in Tasks : u # t => at'[u] = at[u] /\ answer'[u] = answer[u]
        BY <1>0, <1>11, KindAt DEF Get, Go, Decide, DiskTypes
    <2>3. \A u \in Tasks : TaskShape(u)' /\ TempShape(u)' /\ SwapShape(u)'
        <3>1. "return" \in Places(call[t].kind) /\ Read(dest) # Undecided
            BY <2>2 DEF Places, Read, Undecided
        <3> QED
            BY <1>0, <1>11, <2>2, <3>1 DEF Get, TaskShape, TempShape, SwapShape
    <2>4. LockShape' /\ WalkShape'
        BY <1>0, <1>11, WalkUntouched DEF Get, LockShape
    <2> QED
        BY <2>1, <2>3, <2>4 DEF DiskInv
<1>12. ASSUME NEW t \in Tasks, Delete(t) PROVE DiskInv'
    <2>1. walk' \in WalkType /\ WalkShape'
        BY <1>0, <1>12, StillKeeps DEF Delete, DiskTypes
    <2>2. DiskTypes'
        BY <1>0, <1>12, <2>1 DEF DiskTypes, Delete, Crosses, Go, Decide
    <2>3. /\ at[t] = "delete" /\ at'[t] = "return" /\ call[t] # NoCall /\ call[t].kind = "delete"
          /\ answer'[t] = Flag(TRUE)
          /\ \A u \in Tasks : u # t => at'[u] = at[u] /\ answer'[u] = answer[u]
        BY <1>0, <1>12, KindAt DEF Delete, Go, Decide, DiskTypes
    <2>4. \A u \in Tasks : TaskShape(u)' /\ TempShape(u)'
        <3>1. "return" \in Places(call[t].kind) /\ Flag(TRUE) # Undecided
            BY <2>3 DEF Places, Flag, Undecided
        <3> QED
            BY <1>0, <1>12, <2>3, <3>1 DEF Delete, TaskShape, TempShape
    <2>5. Crosses(t) /\ UNCHANGED <<call, cas_lock>>
        BY <1>12 DEF Delete
    <2>6. (\A u \in Tasks : SwapShape(u)') /\ LockShape'
        <3>1. ASSUME NEW u \in Tasks PROVE SwapShape(u)'
            <4>1. CASE u = t
                BY <2>3, <2>5, <4>1 DEF SwapShape
            <4>2. CASE u # t /\ call[u] # NoCall /\ call[u].kind = "swap"
                <5>1. u \in crossed'
                    BY <1>0, <2>5, <4>2, CrossesAll
                <5> QED
                    BY <1>0, <2>3, <2>5, <4>2, <5>1 DEF SwapShape
            <4>3. CASE u # t /\ ~(call[u] # NoCall /\ call[u].kind = "swap")
                BY <2>5, <4>3 DEF SwapShape
            <4> QED
                BY <4>1, <4>2, <4>3
        <3>2. LockShape'
            BY <1>0, <2>5 DEF LockShape
        <3> QED
            BY <3>1, <3>2
    <2> QED
        BY <2>1, <2>2, <2>4, <2>6 DEF DiskInv
<1>13. ASSUME NEW t \in Tasks, Return(t) PROVE DiskInv'
    <2>1. DiskTypes'
        BY <1>0, <1>13 DEF DiskTypes, Return, Go
    <2>2. /\ at[t] = "return" /\ at'[t] = "idle" /\ call'[t] = NoCall /\ answer'[t] = Undecided
          /\ tmp'[t] = 0 /\ cas_lock' = IF cas_lock = t THEN Gone ELSE cas_lock
          /\ crossed' = crossed \ {t}
          /\ \A u \in Tasks : u # t => /\ at'[u] = at[u] /\ answer'[u] = answer[u]
                                       /\ call'[u] = call[u] /\ tmp'[u] = tmp[u]
        BY <1>0, <1>13 DEF Return, Go, DiskTypes
    <2>3. \A u \in Tasks : TaskShape(u)' /\ SwapShape(u)'
        BY <1>0, <1>13, <2>2 DEF Return, TaskShape, SwapShape
    <2>4. \A u \in Tasks : TempShape(u)'
        BY <1>0, <1>13, <2>2 DEF Return, TempShape, DiskTypes
    <2>5. LockShape' /\ WalkShape'
        BY <1>0, <1>13, <2>2, WalkUntouched DEF Return, LockShape
    <2> QED
        BY <2>1, <2>3, <2>4, <2>5 DEF DiskInv
<1>14. CASE ReadDir \/ EndWalk \/ \E p \in Paths : Stat(p)
    <2>1. UNCHANGED <<discipline, dest, temps, seq, cas_lock, crossed, call, answer, at, tmp, deaths>>
        BY <1>14 DEF ReadDir, EndWalk, Stat
    <2>2. walk' \in WalkType /\ WalkShape'
        <3>1. CASE ReadDir
            BY <1>0, <3>1, <2>1 DEF ReadDir, NoWalk, WalkType, WalkShape, FileAt
        <3>2. CASE EndWalk
            BY <1>0, <3>2, <2>1 DEF EndWalk, NoWalk, WalkType, WalkShape, FileAt
        <3>3. ASSUME NEW p \in Paths, Stat(p) PROVE walk' \in WalkType /\ WalkShape'
            <4>1. /\ walk'.on = walk.on /\ walk'.stood = walk.stood
                  /\ walk'.todo = walk.todo \ {p}
                  /\ walk'.listed = IF FileAt(p) = Gone THEN walk.listed ELSE walk.listed \cup {p}
                  /\ walk' \in WalkType
                BY <1>0, <3>3 DEF Stat, DiskTypes, WalkType
            <4>2. FileAt(p) = Gone => p \notin walk.stood
                BY <1>0 DEF WalkShape
            <4>3. \A q \in Paths : FileAt(q)' = FileAt(q)
                BY <2>1 DEF FileAt
            <4> QED
                BY <1>0, <4>1, <4>2, <4>3 DEF WalkShape, DiskTypes, WalkType
        <3> QED
            BY <1>14, <3>1, <3>2, <3>3
    <2>3. DiskTypes'
        BY <1>0, <2>1, <2>2 DEF DiskTypes
    <2>4. \A u \in Tasks : TaskShape(u)' /\ TempShape(u)' /\ SwapShape(u)'
        BY <1>0, <2>1 DEF TaskShape, TempShape, SwapShape
    <2>5. LockShape'
        BY <1>0, <2>1 DEF LockShape
    <2> QED
        BY <2>2, <2>3, <2>4, <2>5 DEF DiskInv
<1>15. CASE Die
    <2>1. DiskTypes'
        BY <1>0, <1>15 DEF DiskTypes, Die, NoWalk, WalkType
    <2>2. \A u \in Tasks : TaskShape(u)' /\ TempShape(u)' /\ SwapShape(u)'
        BY <1>0, <1>15 DEF Die, TaskShape, TempShape, SwapShape, DiskTypes
    <2>3. LockShape' /\ WalkShape'
        BY <1>0, <1>15 DEF Die, LockShape, WalkShape, NoWalk
    <2> QED
        BY <2>1, <2>2, <2>3 DEF DiskInv
<1>16. CASE UNCHANGED diskVars
    BY <1>0, <1>16 DEF diskVars, DiskInv, DiskTypes, TaskShape, TempShape, SwapShape, LockShape,
                       WalkShape, FileAt
<1> QED
    BY <1>1, <1>2, <1>3, <1>4, <1>5, <1>6, <1>7, <1>8, <1>9, <1>10, <1>11, <1>12, <1>13, <1>14,
       <1>15, <1>16 DEF DiskNext

LEMMA DiskInvCorrect == DiskSpec => []DiskInv
    BY DiskInvInit, DiskInvStep, PTL DEF DiskSpec

(* The disk is well formed in every reachable state: the file at the key is   *)
(* whole or absent, only a swap holds the lock, and a walk lists every file   *)
(* that stood throughout (list_dir_entries).                                  *)
THEOREM DiskSafeHolds == DiskSpec => []DiskSafe
<1>1. DiskInv => DiskSafe
    <2> SUFFICES ASSUME DiskInv PROVE DiskSafe
        OBVIOUS
    <2>1. DiskTypeOK
        BY CallFacts DEF DiskInv, DiskTypes, LockShape, DiskTypeOK
    <2>2. WalkComplete
        BY DEF DiskInv, WalkShape, WalkComplete
    <2> QED
        BY <2>1, <2>2 DEF DiskSafe
<1> QED
    BY <1>1, DiskInvCorrect, PTL

-----------------------------------------------------------------------------
(* The refinement.                                                         *)

\* A step that decides nothing is invisible above.
LEMMA Silent ==
    ASSUME UNCHANGED <<dest, call, answer, crossed>>
    PROVE  [Store!StoreNext]_(Store!storeVars)
    BY DEF Store!storeVars

\* A step with the effect and the answer that the atomic call has is that call.
LEMMA TakesEffect ==
    ASSUME NEW t \in Tasks, call[t] # NoCall, answer[t] = Undecided,
           dest' = Store!Effect(call[t]).value,
           answer' = [answer EXCEPT ![t] = Store!Effect(call[t]).answer],
           IF call[t].kind \in {"put", "delete"} THEN Crosses(t) ELSE UNCHANGED crossed,
           UNCHANGED call
    PROVE  [Store!StoreNext]_(Store!storeVars)
    BY DEF Store!StoreNext, Store!TakeEffect, Store!Undecided, Undecided, Store!Crosses, Crosses

\* A swap that was crossed and writes all the same.
LEMMA Overruns ==
    ASSUME NEW t \in Tasks, t \in crossed, call[t] # NoCall, call[t].kind = "swap",
           answer[t] = Undecided, dest' = call[t].bytes,
           answer' = [answer EXCEPT ![t] = Flag(TRUE)], UNCHANGED <<call, crossed>>
    PROVE  [Store!StoreNext]_(Store!storeVars)
    BY DEF Store!StoreNext, Store!Overrun, Store!Undecided, Undecided, Store!Flag, Flag

LEMMA Fails ==
    ASSUME NEW t \in Tasks, call[t] # NoCall, answer[t] = Undecided,
           answer' = [answer EXCEPT ![t] = Failure], UNCHANGED <<dest, call, crossed>>
    PROVE  [Store!StoreNext]_(Store!storeVars)
    BY DEF Store!StoreNext, Store!Fail, Store!Undecided, Undecided, Store!Failure, Failure

\* Every step of the disk is a step of the store, or none.
LEMMA StepRefines ==
    ASSUME DiskInv, [DiskNext]_diskVars PROVE [Store!StoreNext]_(Store!storeVars)
<1> USE DiskAssumption
<1>0. /\ DiskTypes /\ LockShape /\ WalkShape
      /\ \A t \in Tasks : TaskShape(t) /\ TempShape(t) /\ SwapShape(t)
    BY DEF DiskInv
<1>1. ASSUME NEW t \in Tasks, NEW c \in discipline, Begin(t, c)
      PROVE  [Store!StoreNext]_(Store!storeVars)
    <2>1. c \in Call /\ at[t] = "idle"
        BY <1>0, <1>1, DisciplineAssumption DEF DiskTypes, Begin
    <2>2. call[t] = NoCall
        BY <1>0, <2>1, KindAt
    <2>3. Store!Invoke(t, c)
        BY <1>1, <2>2 DEF Begin, Store!Invoke
    <2> QED
        BY <2>1, <2>3 DEF Store!StoreNext
<1>2. ASSUME NEW t \in Tasks,
             \/ Stage(t) \/ Fill(t) \/ Unlink(t) \/ LinkCrossesDevices(t) \/ Lock(t)
      PROVE  [Store!StoreNext]_(Store!storeVars)
    BY <1>2, Silent DEF Stage, Fill, Unlink, LinkCrossesDevices, Lock
<1>3. ASSUME NEW t \in Tasks, FillFails(t) \/ RenameFails(t)
      PROVE  [Store!StoreNext]_(Store!storeVars)
    <2>1. at[t] \in {"fill", "rename"}
        BY <1>3 DEF FillFails, RenameFails
    <2>2. call[t] # NoCall /\ answer[t] = Undecided
        BY <1>0, <2>1, KindAt DEF TaskShape
    <2> QED
        BY <1>3, <2>2, Fails DEF FillFails, RenameFails, Decide
<1>4. ASSUME NEW t \in Tasks, Rename(t) PROVE [Store!StoreNext]_(Store!storeVars)
    <2>1. at[t] = "rename" /\ dest' = temps[tmp[t]] /\ UNCHANGED call
        BY <1>4 DEF Rename, Renamed
    <2>2. /\ call[t] # NoCall /\ answer[t] = Undecided /\ call[t].kind \in {"put", "swap"}
          /\ dest' = call[t].bytes
          /\ call[t].kind = "swap" => dest = call[t].want \/ t \in crossed
        <3>1. call[t] # NoCall /\ call[t].kind \in {"put", "swap"}
            BY <1>0, <2>1, KindAt
        <3>2. answer[t] = Undecided /\ temps[tmp[t]] = call[t].bytes
            BY <1>0, <2>1 DEF TaskShape, TempShape
        <3>3. call[t].kind = "swap" => dest = call[t].want \/ t \in crossed
            BY <1>0, <2>1, <3>1 DEF SwapShape
        <3> QED
            BY <2>1, <3>1, <3>2, <3>3
    <2>3. /\ answer' = [answer EXCEPT ![t] = Flag(TRUE)]
          /\ IF call[t].kind = "put" THEN Crosses(t) ELSE UNCHANGED crossed
        BY <1>4 DEF Rename, Decide
    <2>4. CASE call[t].kind = "put" \/ dest = call[t].want
        <3>1. dest' = Store!Effect(call[t]).value /\ Flag(TRUE) = Store!Effect(call[t]).answer
            BY <2>2, <2>4 DEF Store!Effect, Store!Flag, Flag
        <3>2. IF call[t].kind \in {"put", "delete"} THEN Crosses(t) ELSE UNCHANGED crossed
            BY <2>2, <2>3
        <3> QED
            BY <2>1, <2>2, <2>3, <3>1, <3>2, TakesEffect
    <2>5. CASE call[t].kind = "swap" /\ t \in crossed
        BY <2>1, <2>2, <2>3, <2>5, Overruns
    <2> QED
        BY <2>2, <2>4, <2>5
<1>5. ASSUME NEW t \in Tasks, HardLink(t) \/ LinkSpool(t)
      PROVE  [Store!StoreNext]_(Store!storeVars)
    <2>1. at[t] \in {"hard_link", "link"} /\ UNCHANGED call
        BY <1>5 DEF HardLink, LinkSpool
    <2>2. /\ call[t] # NoCall /\ answer[t] = Undecided /\ call[t].kind \in {"create", "link"}
          /\ dest' = IF dest = Gone THEN call[t].bytes ELSE dest
        BY <1>0, <1>5, <2>1, KindAt DEF TaskShape, TempShape, HardLink, LinkSpool
    <2>3. dest' = Store!Effect(call[t]).value /\ Flag(dest = Gone) = Store!Effect(call[t]).answer
        BY <2>2 DEF Store!Effect, Store!Flag, Flag
    <2> QED
        BY <1>5, <2>1, <2>2, <2>3, TakesEffect DEF HardLink, LinkSpool, Decide
<1>6. ASSUME NEW t \in Tasks, Compare(t) PROVE [Store!StoreNext]_(Store!storeVars)
    <2>1. CASE dest = call[t].want
        BY <1>6, <2>1, Silent DEF Compare
    <2>2. CASE dest # call[t].want
        <3>1. at[t] = "compare" /\ dest' = dest /\ UNCHANGED call
            BY <1>6 DEF Compare
        <3>2. call[t] # NoCall /\ answer[t] = Undecided /\ call[t].kind = "swap"
            BY <1>0, <3>1, KindAt DEF TaskShape
        <3>3. dest' = Store!Effect(call[t]).value /\ Flag(FALSE) = Store!Effect(call[t]).answer
            BY <2>2, <3>1, <3>2 DEF Store!Effect, Store!Flag, Flag
        <3> QED
            BY <1>6, <2>2, <3>1, <3>2, <3>3, TakesEffect DEF Compare, Decide
    <2> QED
        BY <2>1, <2>2
<1>7. ASSUME NEW t \in Tasks, Get(t) \/ Delete(t) PROVE [Store!StoreNext]_(Store!storeVars)
    <2>1. at[t] \in {"get", "delete"} /\ UNCHANGED call
        BY <1>7 DEF Get, Delete
    <2>2. call[t] # NoCall /\ answer[t] = Undecided /\ call[t].kind = at[t]
        BY <1>0, <2>1, KindAt DEF TaskShape
    <2>3. CASE Get(t)
        <3>1. dest' = Store!Effect(call[t]).value /\ Read(dest) = Store!Effect(call[t]).answer
            BY <2>2, <2>3 DEF Get, Store!Effect, Store!Read, Read
        <3> QED
            BY <2>1, <2>2, <2>3, <3>1, TakesEffect DEF Get, Decide
    <2>4. CASE Delete(t)
        <3>1. dest' = Store!Effect(call[t]).value /\ Flag(TRUE) = Store!Effect(call[t]).answer
            BY <2>2, <2>4 DEF Delete, Store!Effect, Store!Flag, Flag
        <3> QED
            BY <2>1, <2>2, <2>4, <3>1, TakesEffect DEF Delete, Decide
    <2> QED
        BY <1>7, <2>3, <2>4
<1>8. ASSUME NEW t \in Tasks, Return(t) PROVE [Store!StoreNext]_(Store!storeVars)
    <2>1. answer[t] # Undecided
        BY <1>0, <1>8 DEF Return, TaskShape
    <2>2. Store!Respond(t)
        BY <1>8, <2>1 DEF Return, Store!Respond, Store!Undecided, Undecided
    <2> QED
        BY <2>2 DEF Store!StoreNext
<1>9. CASE ReadDir \/ EndWalk \/ \E p \in Paths : Stat(p)
    BY <1>9, Silent DEF ReadDir, EndWalk, Stat
<1>10. CASE Die
    <2>1. Store!DieAll
        BY <1>10 DEF Die, Store!DieAll, Store!Undecided, Undecided
    <2> QED
        BY <2>1 DEF Store!StoreNext
<1>11. CASE UNCHANGED diskVars
    BY <1>11, Silent DEF diskVars
<1> QED
    BY <1>1, <1>2, <1>3, <1>4, <1>5, <1>6, <1>7, <1>8, <1>9, <1>10, <1>11 DEF DiskNext

(* The disk implements the atomic store (storage.rs write_rename, link_atomic,  *)
(* put_if_match): whatever the interleaving and wherever the process dies, each *)
(* call takes effect at its rename, its link, its lost comparison, its read or  *)
(* its delete, and answers what the key held at that instant; the exception is  *)
(* a swap that a put or a delete crossed, which may overrun what they left.     *)
THEOREM AtomicHolds == DiskSpec => Atomic
<1>1. DiskInit => Store!StoreInit
    BY DEF DiskInit, Store!StoreInit, Store!Undecided, Undecided
<1>2. DiskInv /\ [DiskNext]_diskVars => [Store!StoreNext]_(Store!storeVars)
    BY StepRefines
<1> QED
    BY <1>1, <1>2, DiskInvCorrect, PTL DEF DiskSpec, Atomic, Store!StoreSpec
=============================================================================
