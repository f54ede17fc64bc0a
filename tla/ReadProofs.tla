----------------------------- MODULE ReadProofs -----------------------------
(***************************************************************************)
(* What reads rest on.  The origin claim, for any writers, roles, deaths   *)
(* and sweeps: each package belongs to one world (Origin).  The fill that  *)
(* a read starts, for any requests, sizes, attempts, permits and           *)
(* generations: one fill of a file at a time, a teed body is complete only *)
(* once verified, and the presence cache is honest (ProxyFill).            *)
(***************************************************************************)
EXTENDS Origin, ProxyFill, FiniteSetTheorems, TLAPS

-----------------------------------------------------------------------------
(* The origin claim (Origin): the inductive invariant.                     *)

Releaser(w) == Role[w] \in {"audit", "operator"}

\* Where a writer of each role can be.
ClaimSteps == {"cas", "create", "reread", "refetch"}
FillSteps == ClaimSteps \cup {"head", "observe", "download", "type", "recheck", "put", "post",
                              "filled", "refused", "done", "dead"}
UploadSteps == ClaimSteps \cup {"observe", "intent", "fence", "store", "sidecar", "post",
                                "acked", "refused", "done", "dead"}
DemoteSteps == {"observe", "demote", "done", "dead"}
ReleaseSteps == ClaimSteps \cup {"look", "sweep", "drop", "recount", "release", "relist", "freed", "rollback",
                                 "demote", "released", "done"}
StepsOf(w) == IF Role[w] = "fill" THEN FillSteps ELSE IF Uploads(w) THEN UploadSteps
              ELSE IF Role[w] = "demote" THEN DemoteSteps ELSE ReleaseSteps
OriginSteps == FillSteps \cup UploadSteps \cup DemoteSteps \cup ReleaseSteps

ClaimRecord == [state : {"absent", "unclaimed", "mirror", "private"}, nonce : Nat]
Claims == {c \in ClaimRecord : c.nonce = 0 <=> c.state = "absent"}
Memory == [nonce : Nat, ripe : BOOLEAN]
Original == [state : {"mirror", "private"}, undo : BOOLEAN]

OriginTyped ==
    /\ cast \in Casts /\ claim \in Claims
    /\ body \in {"none", "fill", "mirror", "private"} /\ side \in {"none", "mirror", "private"}
    /\ \A i \in intents : i \in [by : cast, stale : BOOLEAN]
    /\ step \in [Writers -> OriginSteps] /\ seen \in [Writers -> ClaimRecord]
    /\ \A w \in Writers : step[w] \in StepsOf(w) /\ seen[w].nonce <= claim.nonce
    /\ empties \in Memory /\ empties.nonce <= claim.nonce /\ orig \in [Writers -> Original]

\* The claim a writer at step s relies on is of the kind that led it there.
Relies(w, s, c) ==
    /\ s \in {"relist", "cas", "freed"} => c.state = "unclaimed"
    /\ s \in {"download", "type", "recheck"} => c.state = "mirror"
    /\ s = "intent" => c.state \in {"absent", "unclaimed", Role[w]}
    /\ s = "fence" => c.state = Role[w]
    /\ s = "demote" => c.state # "private"
    /\ s \in {"rollback", "demote"} => Role[w] # "audit"
    /\ Role[w] = "audit" /\ s \in {"recount", "release"} => c.state = "mirror"

\* What stands in the bucket, by the step a writer has reached: the record of a
\* fill is typed before its body is put, an upload that is to store has a live
\* intent, and a private one that passed its fence has the claim.
Uploading == {"cas", "create", "reread", "refetch", "fence", "store"}
Intent(w) == [by |-> w, stale |-> FALSE]
Stands(w, s, cl, b, d, is, sw) ==
    /\ Role[w] = "fill" /\ s \in {"recheck", "put"} => d # "none" \/ sw
    /\ Uploads(w) /\ s \in Uploading => Intent(w) \in is
    /\ s = "sidecar" => b = Role[w]
    /\ Role[w] = "private" /\ s \in {"store", "sidecar", "acked"} => cl.state = "private"
    /\ Role[w] = "private" /\ s = "acked" => b = "private" /\ (d = "private" \/ sw)

WriterInv(w) == Relies(w, step[w], seen[w]) /\ Stands(w, step[w], claim, body, side, intents, swept)

RecordSound(b, d, sw) ==
    ~sw => /\ b = "fill" => d = "mirror"
           /\ d = "private" => b \in {"private", "mirror"}

\* A released name with a record, or with one about to be put, is being restored,
\* unless its release broke off or a sweep overtook the record.
Ownerless == claim.state \in {"absent", "unclaimed"}
Landed == body # "none" \/ \E w \in cast : step[w] \in {"put", "store"}
RestoreSteps == {"relist", "cas"}
Restores(w) == Releaser(w) /\ step[w] \in RestoreSteps /\ seen[w] = claim
Restored == Ownerless /\ Landed /\ ~BrokenOff /\ ~swept => \E w \in cast : Restores(w)

\* The operator releases when no private upload is under way or acknowledged.
Stopped == {"done", "refused", "dead"}
UploadsStopped == \A x \in cast : Role[x] = "private" => step[x] \in Stopped
OperatorCareful == \A w \in cast : Role[w] = "operator" /\ step[w] = "release" => UploadsStopped

OriginInv ==
    /\ OriginTyped /\ (\A w \in cast : WriterInv(w))
    /\ RecordSound(body, side, swept) /\ Restored /\ OperatorCareful

-----------------------------------------------------------------------------
(* A step of one writer.                                                   *)

\* The private claim stays while a private upload is past its fence, and what is
\* in the bucket stays there, but for a sidecar that is swept.
Rises ==
    /\ cast' = cast
    /\ claim.state = "private" /\ ~UploadsStopped => claim'.state = "private"
    /\ body # "none" => body' = body
    /\ swept => swept'
    /\ Overtaken /\ ~swept' => /\ side # "none" => side' # "none"
                               /\ side = "private" => side' = "private"

LEMMA CastFact ==
    ASSUME OriginTyped
    PROVE  cast \subseteq Writers
    BY OriginAssumption DEF OriginTyped

LEMMA OthersStand ==
    ASSUME OriginInv, NEW x \in cast, Rises, step'[x] = step[x], seen'[x] = seen[x],
           Intent(x) \in intents => Intent(x) \in intents'
    PROVE  WriterInv(x)'
<1>1. WriterInv(x)
    BY DEF OriginInv
<1>2. Relies(x, step[x], seen[x])'
    BY <1>1 DEF WriterInv, Relies
<1>3. Role[x] = "private" /\ step[x] \in {"store", "sidecar", "acked"} => ~UploadsStopped
    BY DEF UploadsStopped, Stopped
<1>4. /\ Role[x] = "fill" /\ step[x] \in {"recheck", "put"} => Overtaken
      /\ body = "private" => Overtaken
    BY DEF Overtaken
<1>5. Stands(x, step[x], claim, body, side, intents, swept)'
    <2>1. Role[x] = "fill" /\ step[x] \in {"recheck", "put"} => side' # "none" \/ swept'
        <3>1. Role[x] = "fill" /\ step[x] \in {"recheck", "put"} => side # "none" \/ swept
            BY <1>1 DEF WriterInv, Stands
        <3> QED
            BY <1>4, <3>1 DEF Rises
    <2>2. Role[x] = "private" /\ step[x] = "acked" => body' = "private" /\ (side' = "private" \/ swept')
        <3>1. Role[x] = "private" /\ step[x] = "acked" => body = "private" /\ (side = "private" \/ swept)
            BY <1>1 DEF WriterInv, Stands
        <3> QED
            BY <1>4, <3>1 DEF Rises
    <2>3. step[x] = "sidecar" => body' = Role[x]
        <3>1. step[x] = "sidecar" => body = Role[x] /\ Role[x] \in {"private", "mirror"}
            BY <1>1, CastFact, OriginAssumption DEF WriterInv, Stands, OriginInv, OriginTyped, StepsOf, FillSteps,
                  DemoteSteps, ReleaseSteps, ClaimSteps, Uploads
        <3> QED
            BY <3>1 DEF Rises
    <2> QED
        BY <1>1, <1>3, <2>1, <2>2, <2>3 DEF WriterInv, Stands, Rises, Uploads, Intent
<1> QED
    BY <1>2, <1>5 DEF WriterInv

\* What an action of writer w does: it goes to s having seen c, and opens or
\* commits no other intent than its own.
Advance(w, s, c) ==
    /\ step' = [step EXCEPT ![w] = s] /\ seen' = [seen EXCEPT ![w] = c]
    /\ s \in StepsOf(w) /\ c \in ClaimRecord /\ c.nonce <= claim'.nonce
    /\ intents' \in {intents, {i \in intents : i.by # w}, intents \cup {Intent(w)}}
    /\ Role[w] = "private" => step[w] \notin Stopped
    /\ Relies(w, s, c) /\ Stands(w, s, claim', body', side', intents', swept')
    /\ Role[w] = "operator" /\ s = "release" => UploadsStopped
    /\ orig' \in [Writers -> Original]

LEMMA Advances ==
    ASSUME OriginInv, NEW w \in cast, NEW s, NEW c, Advance(w, s, c), Rises,
           claim' \in Claims, claim.nonce <= claim'.nonce,
           body' \in {"none", "fill", "mirror", "private"}, side' \in {"none", "mirror", "private"},
           empties' \in Memory, empties'.nonce <= claim'.nonce,
           RecordSound(body', side', swept'), Restored'
    PROVE  OriginInv'
<1>1. OriginTyped /\ cast \subseteq Writers /\ w \in Writers /\ cast' = cast
    BY CastFact DEF OriginInv, Rises
<1>2. /\ step'[w] = s /\ seen'[w] = c
      /\ \A x \in Writers \ {w} : step'[x] = step[x] /\ seen'[x] = seen[x]
    BY <1>1 DEF OriginTyped, Advance
<1>3. \A i \in intents' : i \in [by : cast', stale : BOOLEAN]
    <2>1. Intent(w) \in [by : cast, stale : BOOLEAN]
        BY DEF Intent
    <2>2. \A i \in intents' : i \in intents \/ i = Intent(w)
        BY DEF Advance
    <2> QED
        BY <1>1, <2>1, <2>2 DEF OriginTyped
<1>4. StepsOf(w) \subseteq OriginSteps
    BY DEF StepsOf, OriginSteps
<1>5. OriginTyped'
    <2>1. step' \in [Writers -> OriginSteps] /\ seen' \in [Writers -> ClaimRecord]
        BY <1>1, <1>4 DEF OriginTyped, Advance
    <2>2. ASSUME NEW x \in Writers
          PROVE  step'[x] \in StepsOf(x) /\ seen'[x].nonce <= claim'.nonce
        <3>1. seen[x].nonce \in Nat /\ claim.nonce \in Nat /\ claim'.nonce \in Nat
            BY <1>1, <2>2 DEF OriginTyped, Claims, ClaimRecord
        <3>2. seen[x].nonce <= claim'.nonce
            BY <1>1, <3>1 DEF OriginTyped
        <3> QED
            BY <1>1, <1>2, <3>2 DEF OriginTyped, Advance
    <2>3. \A x \in Writers : StepsOf(x)' = StepsOf(x)
        BY DEF StepsOf, Uploads
    <2> QED
        BY <1>1, <1>3, <2>1, <2>2, <2>3 DEF OriginTyped, Advance
<1>6. ASSUME NEW x \in cast, x # w
      PROVE  WriterInv(x)'
    <2>1. Intent(x) \in intents => Intent(x) \in intents'
        BY <1>6 DEF Advance, Intent
    <2> QED
        BY <1>1, <1>2, <1>6, <2>1, OthersStand
<1>7. WriterInv(w)'
    BY <1>2 DEF Advance, WriterInv, Relies, Stands, Uploads, Intent
<1>8. OperatorCareful'
    <2>1. UploadsStopped => UploadsStopped'
        BY <1>1, <1>2 DEF UploadsStopped, Advance
    <2> QED
        BY <1>1, <1>2, <2>1 DEF OriginInv, OperatorCareful, Advance
<1> QED
    BY <1>1, <1>5, <1>6, <1>7, <1>8 DEF OriginInv

\* A step that leaves the claim and the record alone.
Still ==
    /\ UNCHANGED <<cast, claim, body, side, swept>> /\ empties' \in Memory /\ empties'.nonce <= claim.nonce
    /\ \A n \in stranded : n \in stranded'

\* It brings no body under way under an ownerless name, and ends no restore that
\* is still owed, unless it breaks off.
Careful(w, s, c) ==
    /\ s \in {"put", "store"} => ~Ownerless
    /\ Restores(w) /\ Ownerless /\ Landed /\ ~swept => (s \in RestoreSteps /\ c = claim) \/ BrokenOff'

LEMMA Moves ==
    ASSUME OriginInv, NEW w \in cast, NEW s, NEW c, Advance(w, s, c), Still, Careful(w, s, c)
    PROVE  OriginInv'
<1>1. OriginTyped /\ cast \subseteq Writers /\ w \in Writers /\ claim.nonce \in Nat
    BY CastFact DEF OriginInv, OriginTyped, Claims, ClaimRecord
<1>2. /\ step'[w] = s /\ seen'[w] = c
      /\ \A x \in Writers \ {w} : step'[x] = step[x] /\ seen'[x] = seen[x]
    BY <1>1 DEF OriginTyped, Advance
<1>3. Rises
    BY DEF Rises, Still
<1>4. Restored'
    <2> SUFFICES ASSUME Ownerless, Landed', ~BrokenOff', ~swept
                 PROVE  \E x \in cast : Restores(x)'
        BY DEF Restored, Still, Ownerless
    <2>1. Landed /\ ~BrokenOff
        BY <1>1, <1>2 DEF Landed, Careful, Still, BrokenOff
    <2>2. PICK x \in cast : Restores(x)
        BY <2>1 DEF OriginInv, Restored
    <2>3. CASE x = w
        BY <1>1, <1>2, <2>1, <2>2, <2>3 DEF Careful, Restores, Releaser, Still
    <2>4. CASE x # w
        BY <1>1, <1>2, <2>2, <2>4 DEF Restores, Releaser, Still
    <2> QED
        BY <2>3, <2>4
<1> QED
    BY <1>1, <1>3, <1>4, Advances DEF Still, OriginInv, OriginTyped

-----------------------------------------------------------------------------
(* The writers, one by one.                                                *)

\* What the invariant says of one writer before its step.
LEMMA WriterFacts ==
    ASSUME OriginInv, NEW w \in cast
    PROVE  /\ w \in Writers /\ Relies(w, step[w], seen[w]) /\ Stands(w, step[w], claim, body, side, intents, swept)
           /\ step[w] \in StepsOf(w) /\ seen[w] \in ClaimRecord /\ claim \in Claims /\ claim \in ClaimRecord
           /\ seen[w].nonce <= claim.nonce /\ claim.nonce <= claim.nonce /\ claim.nonce \in Nat
           /\ seen[w].nonce \in Nat
           /\ empties \in Memory /\ empties.nonce <= claim.nonce
           /\ step = [step EXCEPT ![w] = step[w]] /\ seen = [seen EXCEPT ![w] = seen[w]]
           /\ Role[w] \in {"fill", "private", "mirror", "demote", "audit", "operator"}
           /\ claim.state \in {"absent", "unclaimed", "mirror", "private"}
           /\ orig \in [Writers -> Original] /\ Owner(w) \in {"mirror", "private"}
<1>1. OriginTyped /\ w \in Writers /\ WriterInv(w)
    BY CastFact DEF OriginInv
<1> QED
    BY <1>1, OriginAssumption DEF OriginTyped, WriterInv, Claims, ClaimRecord, Original, Owner

LEMMA FillKeeps ==
    ASSUME OriginInv, NEW w \in cast,
           FillHead(w) \/ FillObserve(w) \/ FillDownload(w) \/ FillRecheck(w) \/ FillPost(w)
    PROVE  OriginInv'
<1> USE DEF At, Go, Note, Same, SameRecord, Unpaired, Commit, Fence
<1>1. /\ w \in Writers /\ Relies(w, step[w], seen[w]) /\ Stands(w, step[w], claim, body, side, intents, swept)
      /\ step[w] \in StepsOf(w) /\ seen[w] \in ClaimRecord /\ claim \in ClaimRecord
      /\ seen[w].nonce <= claim.nonce /\ claim.nonce <= claim.nonce /\ claim.nonce \in Nat
      /\ empties \in Memory /\ empties.nonce <= claim.nonce
      /\ step = [step EXCEPT ![w] = step[w]] /\ seen = [seen EXCEPT ![w] = seen[w]]
    BY WriterFacts
<1>2. Role[w] = "fill"
    BY <1>1, WriterFacts DEF FillHead, FillObserve, FillDownload, FillRecheck, FillPost, StepsOf, UploadSteps,
          DemoteSteps, ReleaseSteps, ClaimSteps, Uploads
<1>3. Still
    BY <1>1 DEF FillHead, FillObserve, FillDownload, FillRecheck, FillPost, Still
<1>. orig' \in [Writers -> Original]
    BY WriterFacts DEF FillHead, FillObserve, FillDownload, FillRecheck, FillPost
<1>4. StepsOf(w) = FillSteps /\ ~Uploads(w) /\ ~Releaser(w) /\ Owner(w) = "mirror"
    BY <1>2 DEF StepsOf, Uploads, Releaser, Owner
<1>5. ASSUME NEW s \in FillSteps, NEW c \in ClaimRecord, c.nonce <= claim.nonce,
             step' = [step EXCEPT ![w] = s], seen' = [seen EXCEPT ![w] = c],
             intents' \in {intents, {i \in intents : i.by # w}, intents \cup {Intent(w)}},
             Relies(w, s, c), s \in {"recheck", "put"} => side # "none" \/ swept, s # "sidecar", s # "store",
             s = "put" => ~Ownerless
      PROVE  OriginInv'
    <2>1. Advance(w, s, c)
        BY <1>2, <1>3, <1>4, <1>5 DEF Advance, Stands, Still
    <2>2. Careful(w, s, c)
        BY <1>4, <1>5 DEF Careful, Restores
    <2> QED
        BY <1>3, <2>1, <2>2, Moves
<1>6. CASE FillHead(w)
    <2>1. PICK s \in {"done", "observe"} : step' = [step EXCEPT ![w] = s]
        BY <1>6 DEF FillHead
    <2> QED
        BY <1>1, <1>5, <1>6, <2>1 DEF FillHead, FillSteps, Relies
<1>7. CASE FillObserve(w)
    <2>1. PICK s \in {"download", "done", "cas", "create"} :
              /\ step' = [step EXCEPT ![w] = s]
              /\ s = "download" => claim.state = "mirror"
              /\ s = "cas" => claim.state = "unclaimed"
        BY <1>7 DEF FillObserve
    <2> QED
        BY <1>1, <1>2, <1>5, <1>7, <2>1 DEF FillObserve, FillSteps, ClaimSteps, Relies
<1>8. CASE FillDownload(w)
    <2>1. PICK s \in {"done", "type"} : step' = [step EXCEPT ![w] = s]
        BY <1>8 DEF FillDownload
    <2>2. Relies(w, s, seen[w])
        BY <1>1, <1>2, <1>8 DEF FillDownload, Relies
    <2> QED
        BY <1>1, <1>5, <1>8, <2>1, <2>2 DEF FillDownload, FillSteps, Intent
<1>9. CASE FillRecheck(w)
    <2>1. PICK s \in {"done", "put"} : step' = [step EXCEPT ![w] = s] /\ (s = "put" => claim = seen[w])
        BY <1>9 DEF FillRecheck
    <2>2. Relies(w, s, seen[w]) /\ (s = "put" => ~Ownerless) /\ (s = "put" => side # "none" \/ swept)
        BY <1>1, <1>2, <1>9, <2>1 DEF FillRecheck, Relies, Stands, Ownerless
    <2> QED
        BY <1>1, <1>5, <1>9, <2>1, <2>2 DEF FillRecheck, FillSteps
<1>10. CASE FillPost(w)
    <2>1. PICK s \in {"filled", "done"} : step' = [step EXCEPT ![w] = s]
        BY <1>10 DEF FillPost
    <2> QED
        BY <1>1, <1>5, <1>10, <2>1 DEF FillPost, FillSteps, Relies
<1> QED
    BY <1>6, <1>7, <1>8, <1>9, <1>10

LEMMA UploadKeeps ==
    ASSUME OriginInv, NEW w \in cast,
           UploadObserve(w) \/ UploadIntent(w) \/ UploadFence(w) \/ UploadPost(w)
    PROVE  OriginInv'
<1> USE DEF At, Go, Note, Same, SameRecord, Unpaired, Commit, Fence
<1>1. /\ w \in Writers /\ Relies(w, step[w], seen[w]) /\ Stands(w, step[w], claim, body, side, intents, swept)
      /\ step[w] \in StepsOf(w) /\ seen[w] \in ClaimRecord /\ claim \in ClaimRecord
      /\ seen[w].nonce <= claim.nonce /\ claim.nonce <= claim.nonce /\ claim.nonce \in Nat
      /\ empties \in Memory /\ empties.nonce <= claim.nonce
      /\ step = [step EXCEPT ![w] = step[w]] /\ seen = [seen EXCEPT ![w] = seen[w]]
      /\ claim.state \in {"absent", "unclaimed", "mirror", "private"}
    BY WriterFacts
<1>2. Uploads(w)
    BY <1>1, WriterFacts DEF UploadObserve, UploadIntent, UploadFence, UploadPost, StepsOf, FillSteps,
          DemoteSteps, ReleaseSteps, ClaimSteps, Uploads
<1>3. Still
    BY <1>1 DEF UploadObserve, UploadIntent, UploadFence, UploadPost, Still
<1>. orig' \in [Writers -> Original]
    BY WriterFacts DEF UploadObserve, UploadIntent, UploadFence, UploadPost
<1>4. /\ StepsOf(w) = UploadSteps /\ Role[w] \in {"private", "mirror"} /\ ~Releaser(w)
      /\ Owner(w) = Role[w] /\ step[w] \notin Stopped
    BY <1>2 DEF StepsOf, Uploads, Releaser, Owner, Stopped, UploadObserve, UploadIntent, UploadFence, UploadPost
<1>5. ASSUME NEW s \in UploadSteps, NEW c \in ClaimRecord, c.nonce <= claim.nonce,
             step' = [step EXCEPT ![w] = s], seen' = [seen EXCEPT ![w] = c],
             intents' \in {intents, {i \in intents : i.by # w}, intents \cup {Intent(w)}},
             Relies(w, s, c), s \in Uploading => Intent(w) \in intents',
             s # "sidecar", s # "put", s = "acked" => Role[w] = "mirror",
             s = "store" => claim.state = Owner(w)
      PROVE  OriginInv'
    <2>1. Stands(w, s, claim', body', side', intents', swept')
        BY <1>3, <1>4, <1>5 DEF Stands, Still
    <2>2. Advance(w, s, c)
        BY <1>3, <1>4, <1>5, <2>1 DEF Advance, Still
    <2>3. Careful(w, s, c)
        BY <1>4, <1>5 DEF Careful, Ownerless, Restores
    <2> QED
        BY <1>3, <2>2, <2>3, Moves
<1>6. CASE UploadObserve(w)
    <2>1. PICK s \in {"refused", "intent"} :
              /\ step' = [step EXCEPT ![w] = s]
              /\ s = "intent" => claim.state \notin {"mirror", "private"} \ {Owner(w)}
        BY <1>6 DEF UploadObserve
    <2>2. Relies(w, s, claim)
        BY <1>1, <1>4, <2>1 DEF Relies
    <2> QED
        BY <1>1, <1>5, <1>6, <2>1, <2>2 DEF UploadObserve, UploadSteps, Uploading
<1>7. CASE UploadIntent(w)
    <2>1. PICK s \in {"cas", "create", "fence"} :
              /\ step' = [step EXCEPT ![w] = s]
              /\ s = "cas" => seen[w].state = "unclaimed"
              /\ s = "fence" => seen[w].state \notin {"absent", "unclaimed"}
        BY <1>7 DEF UploadIntent
    <2>2. Relies(w, s, seen[w])
        BY <1>1, <1>4, <1>7, <2>1 DEF Relies, UploadIntent
    <2> QED
        BY <1>1, <1>5, <1>7, <2>1, <2>2 DEF UploadIntent, UploadSteps, ClaimSteps, Intent
<1>8. CASE UploadFence(w)
    <2>1. PICK s \in {"store", "refused"} :
              /\ step' = [step EXCEPT ![w] = s]
              /\ s = "store" => claim = seen[w] /\ intents' = intents
        BY <1>8 DEF UploadFence
    <2>2. Relies(w, s, seen[w]) /\ (s = "store" => claim.state = Owner(w) /\ Intent(w) \in intents)
        BY <1>1, <1>2, <1>4, <1>8, <2>1 DEF Relies, UploadFence, Stands, Uploading
    <2> QED
        BY <1>1, <1>5, <1>8, <2>1, <2>2 DEF UploadFence, UploadSteps, Uploading
<1>9. CASE UploadPost(w)
    <2>1. PICK s \in {"acked", "refused"} : step' = [step EXCEPT ![w] = s]
        BY <1>9 DEF UploadPost
    <2> QED
        BY <1>1, <1>5, <1>9, <2>1 DEF UploadPost, UploadSteps, Relies, Uploading
<1> QED
    BY <1>6, <1>7, <1>8, <1>9

\* claim_origin where it writes nothing.
LEMMA RereadKeeps ==
    ASSUME OriginInv, NEW w \in cast,
           \/ ClaimReread(w) \/ ClaimRefetch(w)
           \/ ClaimCas(w) /\ claim # seen[w] /\ UNCHANGED <<claim, seen>> /\ Go(w, "create")
           \/ ClaimCreate(w) /\ UNCHANGED <<claim, seen>> /\ Go(w, "reread")
    PROVE  OriginInv'
<1> USE DEF At, Go, Note, Same, SameRecord, Unpaired, Commit
<1>1. /\ w \in Writers /\ Relies(w, step[w], seen[w]) /\ Stands(w, step[w], claim, body, side, intents, swept)
      /\ step[w] \in StepsOf(w) /\ seen[w] \in ClaimRecord /\ claim \in ClaimRecord
      /\ seen[w].nonce <= claim.nonce /\ claim.nonce <= claim.nonce /\ claim.nonce \in Nat
      /\ empties \in Memory /\ empties.nonce <= claim.nonce
      /\ step = [step EXCEPT ![w] = step[w]] /\ seen = [seen EXCEPT ![w] = seen[w]]
      /\ claim.state \in {"absent", "unclaimed", "mirror", "private"}
      /\ Role[w] \in {"fill", "private", "mirror", "demote", "audit", "operator"}
    BY WriterFacts
<1>2. Still
    BY <1>1 DEF ClaimReread, ClaimRefetch, ClaimCas, ClaimCreate, Still
<1>. orig' \in [Writers -> Original] /\ Owner(w) \in {"mirror", "private"}
    BY WriterFacts DEF ClaimReread, ClaimRefetch, ClaimCas, ClaimCreate
<1>3. step[w] \in ClaimSteps /\ step[w] \notin Stopped
    BY DEF ClaimReread, ClaimRefetch, ClaimCas, ClaimCreate, ClaimSteps, Stopped
<1>4. Role[w] # "demote" /\ Claimed(w) \in StepsOf(w) /\ Refused(w) \in StepsOf(w) /\ ClaimSteps \subseteq StepsOf(w)
    BY <1>1, <1>3 DEF StepsOf, FillSteps, UploadSteps, DemoteSteps, ReleaseSteps, Claimed, Refused, Uploads, ClaimSteps
<1>5. /\ Claimed(w) \in {"download", "fence", "released"} /\ Refused(w) \in {"released", "refused", "rollback"}
      /\ Claimed(w) = "download" => Owner(w) = "mirror"
      /\ Claimed(w) = "fence" => Owner(w) = Role[w]
      /\ Uploads(w) => Refused(w) = "refused"
      /\ Refused(w) = "rollback" => Role[w] = "operator"
    BY <1>1 DEF Claimed, Refused, Owner, Uploads
<1>6. ASSUME NEW s \in {"cas", "create", "reread", "refetch", "download", "fence", "released", "refused", "rollback"},
             NEW c \in ClaimRecord, c.nonce <= claim.nonce, s \in StepsOf(w),
             step' = [step EXCEPT ![w] = s], seen' = [seen EXCEPT ![w] = c],
             intents' \in {intents, {i \in intents : i.by # w}},
             intents' = intents \/ s \notin Uploading,
             Relies(w, s, c), step[w] \notin RestoreSteps \/ seen[w] # claim
      PROVE  OriginInv'
    <2>1. Stands(w, s, claim', body', side', intents', swept')
        BY <1>1, <1>2, <1>3, <1>6 DEF Stands, Still, Uploading, ClaimSteps
    <2>2. Advance(w, s, c)
        BY <1>2, <1>3, <1>6, <2>1 DEF Advance, Still
    <2>3. Careful(w, s, c)
        BY <1>6 DEF Careful, Restores
    <2> QED
        BY <1>2, <2>2, <2>3, Moves
<1>7. CASE ClaimReread(w)
    <2> step[w] \notin RestoreSteps
        BY <1>7 DEF ClaimReread, RestoreSteps
    <2>1. CASE claim.state = "unclaimed" /\ Note(w, claim) /\ Go(w, "cas") /\ Unpaired
        BY <1>1, <1>4, <1>6, <2>1 DEF Relies, ClaimSteps
    <2>2. CASE claim.state = Owner(w) /\ Go(w, "refetch") /\ UNCHANGED <<seen, intents>>
        BY <1>1, <1>4, <1>6, <2>2 DEF Relies, ClaimSteps
    <2>3. CASE /\ claim.state \in {"mirror", "private"} \ {Owner(w)}
               /\ Go(w, Refused(w)) /\ Commit(w) /\ UNCHANGED seen
        <3>1. Relies(w, Refused(w), seen[w]) /\ Refused(w) \notin Uploading
            BY <1>5, <2>3 DEF Relies, Uploading
        <3> QED
            BY <1>1, <1>4, <1>5, <1>6, <2>3, <3>1
    <2> QED
        BY <1>7, <2>1, <2>2, <2>3 DEF ClaimReread
<1>8. CASE ClaimRefetch(w)
    <2>1. step[w] \notin RestoreSteps
        BY <1>8 DEF ClaimRefetch, RestoreSteps
    <2>2. CASE claim.state = Owner(w) /\ Note(w, claim) /\ Go(w, Claimed(w)) /\ Unpaired
        <3>1. Relies(w, Claimed(w), claim)
            BY <1>5, <2>2 DEF Relies
        <3>2. PICK s \in {"download", "fence", "released"} : s = Claimed(w)
            BY <1>5
        <3>3. /\ step' = [step EXCEPT ![w] = s] /\ seen' = [seen EXCEPT ![w] = claim] /\ intents' = intents
              /\ s \in StepsOf(w) /\ Relies(w, s, claim)
            BY <1>4, <2>2, <3>1, <3>2
        <3> QED
            BY <1>1, <1>6, <2>1, <3>3
    <2>3. CASE claim.state # Owner(w) /\ Go(w, Refused(w)) /\ Commit(w) /\ UNCHANGED seen
        <3>1. Relies(w, Refused(w), seen[w]) /\ Refused(w) \notin Uploading
            BY <1>5 DEF Relies, Uploading
        <3> QED
            BY <1>1, <1>4, <1>5, <1>6, <2>1, <2>3, <3>1
    <2> QED
        BY <1>8, <2>2, <2>3 DEF ClaimRefetch
<1>9. CASE ClaimCas(w) /\ claim # seen[w] /\ UNCHANGED <<claim, seen>> /\ Go(w, "create")
    BY <1>1, <1>4, <1>6, <1>9 DEF ClaimCas, Relies, ClaimSteps
<1>10. CASE ClaimCreate(w) /\ UNCHANGED <<claim, seen>> /\ Go(w, "reread")
    BY <1>1, <1>4, <1>6, <1>10 DEF ClaimCreate, Relies, RestoreSteps, ClaimSteps
<1> QED
    BY <1>7, <1>8, <1>9, <1>10

\* The audit, the operator, and the demotion where it writes nothing.
LEMMA ReleaserKeeps ==
    ASSUME OriginInv, NEW w \in cast,
           \/ AuditLook(w) \/ AuditRecount(w) \/ Relist(w) \/ Released(w) \/ OperatorLook(w)
           \/ AuditSweep(w) \/ AuditGate(w) \/ RelistFails(w) \/ OperatorFreed(w) \/ OperatorRollback(w)
           \/ Release(w) /\ UNCHANGED <<claim, seen>> /\ Go(w, "released")
    PROVE  OriginInv'
<1> USE DEF At, Go, Note, Same, SameRecord
<1>1. /\ w \in Writers /\ Relies(w, step[w], seen[w]) /\ Stands(w, step[w], claim, body, side, intents, swept)
      /\ step[w] \in StepsOf(w) /\ seen[w] \in ClaimRecord /\ claim \in ClaimRecord
      /\ seen[w].nonce <= claim.nonce /\ claim.nonce <= claim.nonce /\ claim.nonce \in Nat
      /\ empties \in Memory /\ empties.nonce <= claim.nonce
      /\ step = [step EXCEPT ![w] = step[w]] /\ seen = [seen EXCEPT ![w] = seen[w]]
    BY WriterFacts
<1>2. Releaser(w)
    BY <1>1, WriterFacts DEF AuditLook, AuditRecount, Relist, Released, OperatorLook, Release, AuditSweep, AuditGate,
          RelistFails, OperatorFreed, OperatorRollback, StepsOf, FillSteps, UploadSteps, DemoteSteps, ClaimSteps,
          Uploads, Releaser
<1>3. /\ StepsOf(w) = ReleaseSteps /\ ~Uploads(w) /\ Role[w] # "private" /\ Role[w] # "fill"
      /\ Role[w] \in {"audit", "operator"}
    BY <1>2 DEF Releaser, StepsOf, Uploads
<1>4. Still
    <2>1. NothingEmpty \in Memory /\ NothingEmpty.nonce = 0
        BY DEF NothingEmpty, Memory
    <2>2. Remember(claim) \in Memory /\ Remember(claim).nonce = claim.nonce
        BY <1>1 DEF Remember, Memory
    <2>3. empties' \in {empties, NothingEmpty, Remember(claim)}
        BY DEF AuditLook, AuditRecount, Relist, Released, OperatorLook, Release, AuditSweep, AuditGate,
              RelistFails, OperatorFreed, OperatorRollback
    <2>4. UNCHANGED <<cast, claim, body, side, swept>> /\ \A n \in stranded : n \in stranded'
        BY DEF AuditLook, AuditRecount, Relist, Released, OperatorLook, Release, AuditSweep, AuditGate,
              RelistFails, OperatorFreed, OperatorRollback, Strand
    <2> HIDE DEF NothingEmpty, Remember
    <2> QED
        BY <1>1, <2>1, <2>2, <2>3, <2>4 DEF Still
<1>. orig' \in [Writers -> Original]
    <2>1. orig \in [Writers -> Original]
        BY WriterFacts
    <2>2. \/ orig' = orig
          \/ orig' = [orig EXCEPT ![w] = [state |-> IF claim.state = "private" THEN "private" ELSE "mirror",
                                          undo |-> FALSE]]
          \/ orig' = [orig EXCEPT ![w].undo = TRUE]
        BY DEF AuditLook, AuditRecount, Relist, Released, OperatorLook, Release, AuditSweep, AuditGate,
              RelistFails, OperatorFreed, OperatorRollback
    <2>3. CASE orig' = [orig EXCEPT ![w].undo = TRUE]
        <3>1. [orig[w] EXCEPT !.undo = TRUE] \in Original
            BY <1>1, <2>1 DEF Original
        <3>2. orig' = [orig EXCEPT ![w] = [orig[w] EXCEPT !.undo = TRUE]]
            BY <1>1, <2>1, <2>3
        <3> QED
            BY <1>1, <2>1, <3>1, <3>2
    <2>4. CASE orig' = [orig EXCEPT ![w] = [state |-> IF claim.state = "private" THEN "private" ELSE "mirror",
                                            undo |-> FALSE]]
        <3>1. [state |-> IF claim.state = "private" THEN "private" ELSE "mirror", undo |-> FALSE] \in Original
            BY DEF Original
        <3> QED
            BY <1>1, <2>1, <2>4, <3>1
    <2> QED
        BY <2>1, <2>2, <2>3, <2>4
<1>5. ASSUME NEW s \in ReleaseSteps, NEW c \in ClaimRecord, c.nonce <= claim.nonce, intents' = intents,
             step' = [step EXCEPT ![w] = s], seen' = [seen EXCEPT ![w] = c], Relies(w, s, c),
             Role[w] = "operator" /\ s = "release" => UploadsStopped,
             Restores(w) /\ Landed /\ ~swept => (s \in RestoreSteps /\ c = claim) \/ BrokenOff'
      PROVE  OriginInv'
    <2>1. s \notin {"put", "store", "sidecar"}
        BY <1>5 DEF ReleaseSteps, ClaimSteps
    <2>2. Advance(w, s, c)
        BY <1>3, <1>4, <1>5, <2>1 DEF Advance, Still, Stands
    <2>3. Careful(w, s, c)
        BY <1>5, <2>1 DEF Careful
    <2> QED
        BY <1>4, <2>2, <2>3, Moves
<1>6. CASE AuditLook(w)
    <2>1. PICK s \in {"look", "recount"} :
              step' = [step EXCEPT ![w] = s] /\ (s = "recount" => claim.state = "mirror")
        BY <1>1, <1>6 DEF AuditLook
    <2>2. Relies(w, s, claim) /\ s \in ReleaseSteps /\ step[w] \notin RestoreSteps
        BY <1>6, <2>1 DEF Relies, ReleaseSteps, AuditLook, RestoreSteps
    <2> QED
        BY <1>1, <1>5, <1>6, <2>1, <2>2 DEF AuditLook, Restores
<1>7. CASE AuditRecount(w)
    <2>1. PICK s \in {"look", "release"} : step' = [step EXCEPT ![w] = s]
        BY <1>7 DEF AuditRecount
    <2>2. /\ Relies(w, s, seen[w]) /\ s \in ReleaseSteps /\ step[w] \notin RestoreSteps
          /\ Role[w] = "audit"
        BY <1>1, <1>7, <2>1 DEF Relies, ReleaseSteps, AuditRecount, RestoreSteps
    <2> QED
        BY <1>1, <1>5, <1>7, <2>1, <2>2 DEF AuditRecount, Restores
<1>8. CASE Relist(w)
    <2>1. PICK s \in {"cas", "released", "freed"} :
              step' = [step EXCEPT ![w] = s] /\ (s # "cas" => ~Appeared(w))
        BY <1>8 DEF Relist
    <2>2. Landed /\ ~swept => Appeared(w)
        <3>1. CASE body # "none"
            BY <3>1 DEF Appeared, package_has_truth
        <3>2. ASSUME NEW x \in cast, step[x] = "put", ~swept
              PROVE  Appeared(w)
            <4>1. Role[x] = "fill" /\ Stands(x, step[x], claim, body, side, intents, swept)
                BY <3>2, WriterFacts DEF StepsOf, UploadSteps, DemoteSteps, ReleaseSteps, ClaimSteps
            <4> QED
                BY <3>2, <4>1 DEF Stands, Appeared, package_has_truth
        <3>3. ASSUME NEW x \in cast, step[x] = "store"
              PROVE  Appeared(w)
            <4>1. Uploads(x) /\ Stands(x, step[x], claim, body, side, intents, swept)
                BY <3>3, WriterFacts DEF StepsOf, FillSteps, DemoteSteps, ReleaseSteps, ClaimSteps
            <4>2. Intent(x) \in intents /\ ~Intent(x).stale
                BY <3>3, <4>1 DEF Stands, Uploading, Intent
            <4> QED
                BY <4>2 DEF Appeared, has_live_intent
        <3> QED
            BY <3>1, <3>2, <3>3 DEF Landed
    <2>3. Relies(w, s, seen[w]) /\ s \in ReleaseSteps
        BY <1>1, <1>8 DEF Relist, Relies, ReleaseSteps, ClaimSteps
    <2>4. Restores(w) /\ Landed /\ ~swept => s \in RestoreSteps /\ seen[w] = claim
        BY <2>1, <2>2 DEF Restores, RestoreSteps
    <2> QED
        BY <1>1, <1>5, <1>8, <2>1, <2>3, <2>4 DEF Relist
<1>9. CASE Released(w)
    BY <1>1, <1>5, <1>9 DEF Released, Relies, ReleaseSteps, RestoreSteps, Restores
<1>10. CASE OperatorLook(w)
    <2>1. PICK s \in {"look", "release"} :
              step' = [step EXCEPT ![w] = s] /\ (s = "release" => ~package_has_truth)
        BY <1>10 DEF OperatorLook
    <2>2. s = "release" => UploadsStopped
        <3> SUFFICES ASSUME s = "release", NEW x \in cast, Role[x] = "private"
                     PROVE  step[x] \in Stopped
            BY DEF UploadsStopped
        <3>1. body = "none" /\ step[x] \in {"done", "refused", "acked", "dead"}
            BY <1>10, <2>1 DEF OperatorLook, Quiet, Uploads, package_has_truth
        <3>2. Stands(x, step[x], claim, body, side, intents, swept)
            BY WriterFacts
        <3> QED
            BY <3>1, <3>2 DEF Stands, Stopped
    <2>3. Relies(w, s, claim) /\ s \in ReleaseSteps /\ step[w] \notin RestoreSteps
        BY <1>10, <2>1 DEF Relies, ReleaseSteps, OperatorLook, RestoreSteps
    <2> QED
        BY <1>1, <1>5, <1>10, <2>1, <2>2, <2>3 DEF OperatorLook, Restores
<1>11. CASE Release(w) /\ UNCHANGED <<claim, seen>> /\ Go(w, "released")
    BY <1>1, <1>5, <1>11 DEF Release, Relies, ReleaseSteps, RestoreSteps, Restores
<1>12. CASE AuditSweep(w) \/ AuditGate(w)
    <2>1. PICK s \in {"look", "sweep", "drop"} : step' = [step EXCEPT ![w] = s]
        BY <1>12 DEF AuditSweep, AuditGate
    <2>2. Relies(w, s, seen[w]) /\ s \in ReleaseSteps /\ step[w] \notin RestoreSteps /\ UNCHANGED <<seen, intents>>
        BY <1>12, <2>1 DEF Relies, ReleaseSteps, AuditSweep, AuditGate, RestoreSteps
    <2> QED
        BY <1>1, <1>5, <2>1, <2>2 DEF Restores
<1>13. CASE RelistFails(w)
    <2>1. PICK s \in {"cas", "released"} :
              step' = [step EXCEPT ![w] = s] /\ (s = "released" => seen[w].nonce \in stranded')
        BY <1>13 DEF RelistFails, Strand
    <2>2. seen[w].state = "unclaimed" /\ Relies(w, s, seen[w]) /\ s \in ReleaseSteps /\ UNCHANGED <<seen, intents>>
        BY <1>1, <1>13, <2>1 DEF RelistFails, Relies, ReleaseSteps, ClaimSteps
    <2>3. Restores(w) => (s \in RestoreSteps /\ seen[w] = claim) \/ BrokenOff'
        BY <1>4, <2>1, <2>2 DEF Restores, RestoreSteps, BrokenOff, Still
    <2> QED
        BY <1>1, <1>5, <2>1, <2>2, <2>3
<1>14. CASE OperatorFreed(w)
    <2>1. PICK s \in {"cas", "released"} : step' = [step EXCEPT ![w] = s]
        BY <1>14 DEF OperatorFreed
    <2>2. /\ Relies(w, s, seen[w]) /\ s \in ReleaseSteps /\ step[w] \notin RestoreSteps
          /\ UNCHANGED <<seen, intents>>
        BY <1>1, <1>14, <2>1 DEF Relies, ReleaseSteps, ClaimSteps, OperatorFreed, RestoreSteps
    <2> QED
        BY <1>1, <1>5, <2>1, <2>2 DEF Restores
<1>15. CASE OperatorRollback(w)
    <2>1. PICK s \in {"demote", "released"} :
              step' = [step EXCEPT ![w] = s] /\ (s = "demote" => claim.state = "mirror")
        BY <1>15 DEF OperatorRollback
    <2>2. /\ Relies(w, s, claim) /\ s \in ReleaseSteps /\ step[w] \notin RestoreSteps
          /\ intents' = intents /\ seen' = [seen EXCEPT ![w] = claim]
        BY <1>1, <1>15, <2>1 DEF Relies, ReleaseSteps, OperatorRollback, RestoreSteps
    <2> QED
        BY <1>1, <1>5, <2>1, <2>2 DEF Restores
<1> QED
    BY <1>6, <1>7, <1>8, <1>9, <1>10, <1>11, <1>12, <1>13, <1>14, <1>15

LEMMA DemoteKeeps ==
    ASSUME OriginInv, NEW w \in cast,
           DemoteObserve(w) \/ (Demote(w) /\ UNCHANGED claim
                                /\ Go(w, IF Role[w] = "operator" THEN "released" ELSE "observe"))
    PROVE  OriginInv'
<1> USE DEF At, Go, Note, Same, SameRecord
<1>1. /\ w \in Writers /\ step[w] \in StepsOf(w) /\ seen[w] \in ClaimRecord /\ claim \in ClaimRecord
      /\ seen[w].nonce <= claim.nonce /\ claim.nonce <= claim.nonce
      /\ empties \in Memory /\ empties.nonce <= claim.nonce
      /\ step = [step EXCEPT ![w] = step[w]] /\ seen = [seen EXCEPT ![w] = seen[w]]
    BY WriterFacts
<1>2. Role[w] \in {"demote", "operator"} /\ step[w] \notin RestoreSteps /\ (DemoteObserve(w) => Role[w] = "demote")
    BY <1>1, WriterFacts DEF DemoteObserve, Demote, StepsOf, FillSteps, UploadSteps, ClaimSteps, Uploads, RestoreSteps,
          Relies
<1>3. ~Uploads(w) /\ Still /\ orig' \in [Writers -> Original]
    BY <1>1, <1>2, WriterFacts DEF Uploads, Still, DemoteObserve, Demote
<1>4. PICK s \in {"observe", "done", "demote", "released"}, c \in {seen[w], claim} :
          /\ step' = [step EXCEPT ![w] = s] /\ seen' = [seen EXCEPT ![w] = c]
          /\ s = "demote" => c.state # "private"
          /\ s = "released" <=> Role[w] = "operator"
    BY <1>1, <1>2 DEF DemoteObserve, Demote
<1>5. intents' = intents
    BY DEF DemoteObserve, Demote
<1>6. Relies(w, s, c) /\ Stands(w, s, claim', body', side', intents', swept') /\ s \in StepsOf(w)
    BY <1>2, <1>3, <1>4 DEF Relies, Stands, StepsOf, DemoteSteps, ReleaseSteps
<1>7. Advance(w, s, c)
    BY <1>1, <1>2, <1>3, <1>4, <1>5, <1>6 DEF Advance, Still
<1>8. Careful(w, s, c)
    BY <1>2, <1>4 DEF Careful, Restores
<1> QED
    BY <1>3, <1>7, <1>8, Moves

-----------------------------------------------------------------------------
(* Steps that put the claim.                                               *)

LEMMA FreshFact ==
    ASSUME OriginInv, NEW st \in {"unclaimed", "mirror", "private"}
    PROVE  /\ Fresh(st) \in Claims /\ Fresh(st) \in ClaimRecord /\ Fresh(st).state = st
           /\ claim.nonce <= Fresh(st).nonce /\ claim.nonce \in Nat /\ Fresh(st).nonce \in Nat
           /\ Fresh(st).nonce <= Fresh(st).nonce
<1>1. claim.nonce \in Nat
    BY DEF OriginInv, OriginTyped, Claims, ClaimRecord
<1> QED
    BY <1>1 DEF Fresh, Claims, ClaimRecord

\* A put of the claim that gives the name an owner, or that a releaser makes.
LEMMA PutsClaim ==
    ASSUME OriginInv, NEW w \in cast, NEW s, NEW c, NEW st \in {"unclaimed", "mirror", "private"},
           claim' = Fresh(st), Advance(w, s, c), UNCHANGED <<cast, body, side, swept, intents, empties>>,
           claim.state = "private" /\ ~UploadsStopped => st = "private",
           st = "unclaimed" => Releaser(w) /\ s = "relist" /\ c = claim'
    PROVE  OriginInv'
<1>1. /\ OriginTyped /\ cast \subseteq Writers /\ w \in Writers /\ empties \in Memory
      /\ empties.nonce <= claim.nonce /\ empties.nonce \in Nat
    BY CastFact DEF OriginInv, OriginTyped, Memory
<1>2. step'[w] = s /\ seen'[w] = c
    BY <1>1 DEF OriginTyped, Advance
<1>3. /\ claim' \in Claims /\ claim'.state = st /\ claim.nonce <= claim'.nonce
      /\ claim.nonce \in Nat /\ claim'.nonce \in Nat
    BY FreshFact
<1>4. Rises
    BY <1>3 DEF Rises
<1>5. Restored'
    BY <1>2, <1>3 DEF Restored, Ownerless, RestoreSteps, Restores, Releaser
<1>6. empties'.nonce <= claim'.nonce /\ empties' \in Memory
    BY <1>1, <1>3
<1> QED
    BY <1>1, <1>3, <1>4, <1>5, <1>6, Advances DEF OriginInv, OriginTyped

LEMMA ClaimKeeps ==
    ASSUME OriginInv, NEW w \in cast, ClaimCas(w) \/ ClaimCreate(w)
    PROVE  OriginInv'
<1> USE DEF At, Go, Note, Same, SameRecord
<1>1. CASE UNCHANGED claim
    <2>1. Fresh(Owner(w)) # claim
        BY FreshFact, WriterFacts DEF Fresh
    <2> QED
        BY <1>1, <2>1, RereadKeeps DEF ClaimCas, ClaimCreate, PutClaim
<1>2. CASE claim' # claim
    <2> DEFINE st == Owner(w)
    <2>1. /\ claim' = Fresh(st) /\ seen' = [seen EXCEPT ![w] = Fresh(st)]
          /\ step' = [step EXCEPT ![w] = Claimed(w)] /\ step[w] \in {"cas", "create"}
          /\ UNCHANGED <<cast, body, side, swept, intents, empties, orig>>
          /\ (claim = seen[w] /\ step[w] = "cas") \/ claim = NoClaim
        BY <1>2 DEF ClaimCas, ClaimCreate, PutClaim
    <2>2. st \in {"mirror", "private"} /\ orig' \in [Writers -> Original]
        BY <2>1, WriterFacts
    <2>3. /\ Role[w] \in {"fill", "private", "mirror", "audit", "operator"}
          /\ Stands(w, step[w], claim, body, side, intents, swept) /\ Relies(w, step[w], seen[w])
        BY <2>1, WriterFacts DEF StepsOf, DemoteSteps, Uploads
    <2>4. claim.state # "private"
        BY <2>1, <2>3 DEF Relies, NoClaim
    <2>5. Claimed(w) \in StepsOf(w) /\ Claimed(w) \in {"download", "fence", "released"}
        BY <2>3 DEF StepsOf, FillSteps, UploadSteps, ReleaseSteps, Claimed, Uploads
    <2>6. Fresh(st) \in ClaimRecord /\ Fresh(st).state = st /\ Fresh(st).nonce <= Fresh(st).nonce
        BY <2>2, FreshFact
    <2>7. Relies(w, Claimed(w), Fresh(st))
        BY <2>3, <2>5, <2>6 DEF Relies, Claimed, Owner, Uploads
    <2>8. Stands(w, Claimed(w), claim', body', side', intents', swept')
        BY <2>1, <2>3, <2>5 DEF Stands, Uploading
    <2> HIDE DEF st
    <2>9. Advance(w, Claimed(w), Fresh(st))
        BY <2>1, <2>2, <2>5, <2>6, <2>7, <2>8 DEF Advance, Stopped
    <2> QED
        BY <2>1, <2>2, <2>4, <2>9, PutsClaim
<1> QED
    BY <1>1, <1>2

LEMMA DemotesKeep ==
    ASSUME OriginInv, NEW w \in cast, Demote(w)
    PROVE  OriginInv'
<1> USE DEF At, Go, Note, Same, SameRecord
<1> DEFINE s == IF Role[w] = "operator" THEN "released" ELSE "done"
<1>1. CASE UNCHANGED claim /\ Go(w, IF Role[w] = "operator" THEN "released" ELSE "observe")
    BY <1>1, DemoteKeeps
<1>2. CASE PutClaim(w, "private") /\ Go(w, s)
    <2>1. /\ w \in Writers /\ step[w] \in StepsOf(w) /\ seen[w] \in ClaimRecord /\ seen[w].nonce \in Nat
          /\ seen[w].nonce <= claim.nonce /\ seen = [seen EXCEPT ![w] = seen[w]]
          /\ orig \in [Writers -> Original]
        BY WriterFacts
    <2>2. Role[w] \in {"demote", "operator"}
        BY <2>1, WriterFacts DEF Demote, StepsOf, FillSteps, UploadSteps, ClaimSteps, Uploads, Relies
    <2>3. claim' = Fresh("private") /\ UNCHANGED <<cast, body, side, swept, intents, empties, seen, orig>>
        BY <1>2 DEF Demote, PutClaim
    <2>4. seen[w].nonce <= claim'.nonce
        BY <2>1, <2>3, FreshFact
    <2>5. Relies(w, s, seen[w]) /\ Stands(w, s, claim', body', side', intents', swept')
        BY <2>2 DEF Relies, Stands, Uploads
    <2>6. s \in StepsOf(w) /\ s # "release"
        BY <2>2 DEF StepsOf, Uploads, DemoteSteps, ReleaseSteps
    <2>7. step' = [step EXCEPT ![w] = s]
        BY <1>2
    <2> HIDE DEF s
    <2>8. Advance(w, s, seen[w])
        BY <2>1, <2>2, <2>3, <2>4, <2>5, <2>6, <2>7 DEF Advance
    <2> QED
        BY <2>3, <2>8, PutsClaim
<1> QED
    BY <1>1, <1>2 DEF Demote

LEMMA ReleaseKeeps ==
    ASSUME OriginInv, NEW w \in cast, Release(w)
    PROVE  OriginInv'
<1> USE DEF At, Go, Note, Same, SameRecord
<1>1. CASE UNCHANGED <<claim, seen>> /\ Go(w, "released")
    BY <1>1, ReleaserKeeps
<1>2. CASE Sentinel(w) /\ Note(w, Fresh("unclaimed")) /\ Go(w, "relist")
    <2>1. /\ step[w] \in StepsOf(w) /\ step[w] = "release" /\ Relies(w, step[w], seen[w])
          /\ Role[w] \in {"fill", "private", "mirror", "demote", "audit", "operator"}
        BY WriterFacts DEF Release
    <2>2. Releaser(w) /\ Role[w] \in {"audit", "operator"} /\ ~Uploads(w)
        BY <2>1 DEF StepsOf, FillSteps, UploadSteps, DemoteSteps, ClaimSteps, Uploads, Releaser
    <2>3. /\ claim' = Fresh("unclaimed") /\ claim = seen[w]
          /\ UNCHANGED <<cast, body, side, swept, intents, empties>> /\ orig' \in [Writers -> Original]
        BY <1>2, WriterFacts DEF Release, Sentinel, PutClaim
    <2>4. claim.state = "private" => UploadsStopped
        BY <2>1, <2>2, <2>3 DEF Relies, OriginInv, OperatorCareful
    <2>5. Fresh("unclaimed") \in ClaimRecord /\ Fresh("unclaimed").state = "unclaimed"
          /\ Fresh("unclaimed").nonce <= Fresh("unclaimed").nonce
        BY FreshFact
    <2>6. Relies(w, "relist", Fresh("unclaimed")) /\ Stands(w, "relist", claim', body', side', intents', swept')
        BY <2>2, <2>5 DEF Relies, Stands
    <2>7. "relist" \in StepsOf(w)
        BY <2>2 DEF StepsOf, ReleaseSteps
    <2>8. Advance(w, "relist", Fresh("unclaimed"))
        BY <1>2, <2>2, <2>3, <2>5, <2>6, <2>7 DEF Advance
    <2> QED
        BY <2>2, <2>3, <2>4, <2>8, PutsClaim
<1> QED
    BY <1>1, <1>2 DEF Release

-----------------------------------------------------------------------------
(* Steps that write the record, deaths and time.                           *)

\* A write of the body or of the sidecar by writer w: it creates the body only
\* from the steps where the record already counts as landed.
Written(w) ==
    /\ UNCHANGED <<cast, claim, empties, swept, stranded, orig>>
    /\ body' \in {"none", "fill", "mirror", "private"} /\ side' \in {"none", "mirror", "private"}
    /\ body # "none" => body' = body
    /\ body' = body \/ step[w] \in {"put", "store"}
    /\ side # "none" => side' # "none"
    /\ side = "private" => side' = "private"
    /\ RecordSound(body', side', swept') /\ ~Releaser(w)

LEMMA Writes ==
    ASSUME OriginInv, NEW w \in cast, NEW s, Advance(w, s, seen[w]), Written(w), s \notin {"put", "store"}
    PROVE  OriginInv'
<1> USE DEF Written
<1>1. OriginTyped /\ cast \subseteq Writers /\ w \in Writers /\ claim.nonce \in Nat
    BY CastFact DEF OriginInv, OriginTyped, Claims, ClaimRecord
<1>2. /\ step'[w] = s /\ \A x \in Writers \ {w} : step'[x] = step[x] /\ seen'[x] = seen[x]
    BY <1>1 DEF OriginTyped, Advance
<1>3. Rises
    BY DEF Rises
<1>4. Restored'
    <2> SUFFICES ASSUME Ownerless, Landed', ~BrokenOff, ~swept
                 PROVE  \E x \in cast : Restores(x)'
        BY DEF Restored, Ownerless, BrokenOff
    <2>1. Landed
        BY <1>1, <1>2 DEF Landed
    <2>2. PICK x \in cast : Restores(x)
        BY <2>1 DEF OriginInv, Restored
    <2> QED
        BY <1>1, <1>2, <2>2 DEF Restores, Releaser
<1> QED
    BY <1>1, <1>3, <1>4, Advances DEF OriginInv, OriginTyped

LEMMA WritesKeep ==
    ASSUME OriginInv, NEW w \in cast,
           FillType(w) \/ FillPut(w) \/ UploadStore(w) \/ UploadSidecar(w)
    PROVE  OriginInv'
<1> USE DEF At, Go, Same, Unpaired, Commit
<1>1. /\ w \in Writers /\ Relies(w, step[w], seen[w]) /\ Stands(w, step[w], claim, body, side, intents, swept)
      /\ step[w] \in StepsOf(w) /\ seen[w] \in ClaimRecord /\ seen[w].nonce <= claim.nonce
      /\ seen = [seen EXCEPT ![w] = seen[w]]
      /\ Role[w] \in {"fill", "private", "mirror", "demote", "audit", "operator"}
    BY WriterFacts
<1>2. /\ UNCHANGED <<cast, claim, empties, seen, swept, stranded, orig>>
      /\ intents' \in {intents, {i \in intents : i.by # w}, intents \cup {Intent(w)}}
    BY DEF FillType, FillPut, UploadStore, UploadSidecar, Typed, Stored, Intent
<1>. orig' \in [Writers -> Original]
    BY <1>2, WriterFacts
<1>3. /\ body \in {"none", "fill", "mirror", "private"} /\ side \in {"none", "mirror", "private"}
      /\ RecordSound(body, side, swept)
    BY DEF OriginInv, OriginTyped
<1>4. step[w] \in {"type", "put", "store", "sidecar"} /\ step[w] \notin Stopped
    BY DEF FillType, FillPut, UploadStore, UploadSidecar, Stopped
<1>5. ASSUME NEW s \in StepsOf(w), step' = [step EXCEPT ![w] = s],
             Relies(w, s, seen[w]), Stands(w, s, claim, body', side', intents', swept')
      PROVE  Advance(w, s, seen[w])
    BY <1>1, <1>2, <1>4, <1>5
       DEF Advance, StepsOf, FillSteps, UploadSteps, DemoteSteps, ReleaseSteps, ClaimSteps, Uploads
<1>6. CASE FillType(w)
    <2>1. Role[w] = "fill" /\ StepsOf(w) = FillSteps /\ ~Uploads(w) /\ ~Releaser(w) /\ body' = body
        BY <1>6 DEF FillType, StepsOf, Uploads, Releaser
    <2>2. CASE side \in {"none", "mirror"} /\ side' = "mirror" /\ Go(w, "recheck") /\ Unpaired
        <3>1. Relies(w, "recheck", seen[w]) /\ Stands(w, "recheck", claim, body', side', intents', swept')
            BY <1>1, <1>6, <2>1, <2>2 DEF Relies, Stands, FillType
        <3>2. Advance(w, "recheck", seen[w])
            BY <1>5, <2>1, <2>2, <3>1 DEF FillSteps
        <3>3. Written(w)
            BY <1>2, <1>3, <2>1, <2>2 DEF Written, RecordSound
        <3> QED
            BY <3>2, <3>3, Writes
    <2>3. CASE side = "private" /\ Go(w, "done") /\ Commit(w) /\ UNCHANGED side
        <3>1. Relies(w, "done", seen[w]) /\ Stands(w, "done", claim, body', side', intents', swept')
            BY <2>1 DEF Relies, Stands, Uploading
        <3>2. Advance(w, "done", seen[w])
            BY <1>5, <2>1, <2>3, <3>1 DEF FillSteps
        <3>3. Written(w)
            BY <1>2, <1>3, <2>1, <2>3 DEF Written, RecordSound
        <3> QED
            BY <3>2, <3>3, Writes
    <2> QED
        BY <1>6, <2>2, <2>3 DEF FillType, Typed
<1>7. CASE FillPut(w)
    <2>1. step[w] = "put" /\ side' = side
        BY <1>7 DEF FillPut
    <2>2. Role[w] = "fill" /\ StepsOf(w) = FillSteps /\ ~Uploads(w) /\ ~Releaser(w)
        BY <1>1, <2>1 DEF StepsOf, UploadSteps, DemoteSteps, ReleaseSteps, ClaimSteps, Uploads, Releaser
    <2>3. CASE body = "none" /\ body' = "fill" /\ Go(w, "post")
        <3>1. Relies(w, "post", seen[w]) /\ Stands(w, "post", claim, body', side', intents', swept')
            BY <2>2 DEF Relies, Stands, Uploading
        <3>2. Advance(w, "post", seen[w])
            BY <1>5, <2>2, <2>3, <3>1 DEF FillSteps
        <3>3. ~swept => side = "mirror"
            BY <1>1, <1>3, <2>1, <2>2, <2>3 DEF Stands, RecordSound
        <3>4. RecordSound(body', side', swept')
            BY <1>2, <2>1, <2>3, <3>3 DEF RecordSound
        <3>5. Written(w)
            BY <1>2, <1>3, <2>1, <2>2, <2>3, <3>4 DEF Written
        <3> QED
            BY <3>2, <3>5, Writes
    <2>4. CASE Go(w, "done") /\ UNCHANGED body
        <3>1. Relies(w, "done", seen[w]) /\ Stands(w, "done", claim, body', side', intents', swept')
            BY <2>2 DEF Relies, Stands, Uploading
        <3>2. Advance(w, "done", seen[w])
            BY <1>5, <2>2, <2>4, <3>1 DEF FillSteps
        <3>4. Written(w)
            BY <1>2, <1>3, <2>1, <2>2, <2>4 DEF Written, RecordSound
        <3> QED
            BY <3>2, <3>4, Writes
    <2> QED
        BY <1>7, <2>3, <2>4 DEF FillPut
<1>8. CASE UploadStore(w)
    <2>1. step[w] = "store" /\ side' = side
        BY <1>8 DEF UploadStore
    <2>2. Uploads(w) /\ Role[w] \in {"private", "mirror"} /\ StepsOf(w) = UploadSteps /\ ~Releaser(w)
        BY <1>1, <2>1 DEF StepsOf, FillSteps, DemoteSteps, ReleaseSteps, ClaimSteps, Uploads, Releaser
    <2>3. CASE body = "none" /\ body' = Role[w] /\ Go(w, "sidecar")
        <3>1. Relies(w, "sidecar", seen[w]) /\ Stands(w, "sidecar", claim, body', side', intents', swept')
            BY <1>1, <2>1, <2>2, <2>3 DEF Relies, Stands, Uploading
        <3>2. Advance(w, "sidecar", seen[w])
            BY <1>5, <2>2, <2>3, <3>1 DEF UploadSteps
        <3>3. Written(w)
            BY <1>2, <1>3, <2>1, <2>2, <2>3 DEF Written, RecordSound
        <3> QED
            BY <3>2, <3>3, Writes
    <2>4. CASE Go(w, "refused") /\ UNCHANGED body
        <3>1. Relies(w, "refused", seen[w]) /\ Stands(w, "refused", claim, body', side', intents', swept')
            BY DEF Relies, Stands, Uploading
        <3>2. Advance(w, "refused", seen[w])
            BY <1>5, <2>2, <2>4, <3>1 DEF UploadSteps
        <3>3. Written(w)
            BY <1>2, <1>3, <2>1, <2>2, <2>4 DEF Written, RecordSound
        <3> QED
            BY <3>2, <3>3, Writes
    <2> QED
        BY <1>8, <2>3, <2>4 DEF UploadStore, Stored
<1>9. CASE UploadSidecar(w)
    <2>1. step[w] = "sidecar" /\ body' = body /\ body = Role[w]
        BY <1>1, <1>9 DEF UploadSidecar, Stands
    <2>2. Uploads(w) /\ Role[w] \in {"private", "mirror"} /\ StepsOf(w) = UploadSteps /\ ~Releaser(w)
        BY <1>1, <2>1 DEF StepsOf, FillSteps, DemoteSteps, ReleaseSteps, ClaimSteps, Uploads, Releaser
    <2>3. CASE Role[w] = "private"
        <3>1. side' = "private" /\ Go(w, "acked")
            BY <1>9, <2>3 DEF UploadSidecar
        <3>2. Relies(w, "acked", seen[w]) /\ Stands(w, "acked", claim, body', side', intents', swept')
            BY <1>1, <2>1, <2>3, <3>1 DEF Relies, Stands, Uploading
        <3>3. Advance(w, "acked", seen[w])
            BY <1>5, <2>2, <3>1, <3>2 DEF UploadSteps
        <3>4. Written(w)
            BY <1>2, <1>3, <2>1, <2>2, <2>3, <3>1 DEF Written, RecordSound
        <3> QED
            BY <3>3, <3>4, Writes
    <2>4. CASE Role[w] # "private"
        <3>1. side' = (IF side = "private" THEN side ELSE "mirror") /\ Go(w, "post")
            BY <1>9, <2>4 DEF UploadSidecar
        <3>2. Relies(w, "post", seen[w]) /\ Stands(w, "post", claim, body', side', intents', swept')
            BY <2>2, <2>4 DEF Relies, Stands, Uploading
        <3>3. Advance(w, "post", seen[w])
            BY <1>5, <2>2, <3>1, <3>2 DEF UploadSteps
        <3>4. Written(w)
            BY <1>2, <1>3, <2>1, <2>2, <2>4, <3>1 DEF Written, RecordSound
        <3> QED
            BY <3>3, <3>4, Writes
    <2> QED
        BY <2>3, <2>4
<1> QED
    BY <1>6, <1>7, <1>8, <1>9

\* The sweep's delete: what it overtakes is marked swept.
LEMMA DropKeeps ==
    ASSUME OriginInv, NEW w \in cast, AuditDrop(w)
    PROVE  OriginInv'
<1>1. /\ w \in Writers /\ seen[w] \in ClaimRecord /\ seen[w].nonce <= claim.nonce /\ claim.nonce \in Nat
      /\ step[w] \in StepsOf(w) /\ empties \in Memory /\ empties.nonce <= claim.nonce /\ claim \in Claims
      /\ seen = [seen EXCEPT ![w] = seen[w]] /\ orig \in [Writers -> Original]
      /\ Role[w] \in {"fill", "private", "mirror", "demote", "audit", "operator"}
    BY WriterFacts
<1>2. /\ UNCHANGED <<cast, claim, body, intents, seen, empties, orig, stranded>>
      /\ step' = [step EXCEPT ![w] = "look"] /\ step[w] = "drop"
    BY DEF AuditDrop, Same, Go, At
<1>3. side' = "none" /\ (Overtaken => swept') /\ (swept => swept')
    BY DEF AuditDrop
<1>4. Releaser(w) /\ ~Uploads(w) /\ Role[w] # "fill" /\ Role[w] # "private" /\ StepsOf(w) = ReleaseSteps
    BY <1>1, <1>2 DEF StepsOf, FillSteps, UploadSteps, DemoteSteps, ClaimSteps, Uploads, Releaser
<1>5. Advance(w, "look", seen[w])
    <2>1. Relies(w, "look", seen[w]) /\ Stands(w, "look", claim', body', side', intents', swept')
        BY <1>4 DEF Relies, Stands
    <2>2. "look" \in StepsOf(w)
        BY <1>4 DEF ReleaseSteps
    <2> QED
        BY <1>1, <1>2, <1>4, <2>1, <2>2 DEF Advance
<1>6. Rises
    BY <1>2, <1>3 DEF Rises
<1>7. RecordSound(body', side', swept')
    BY <1>2, <1>3 DEF RecordSound, Overtaken
<1>8. Restored'
    <2> SUFFICES ASSUME Ownerless, Landed', ~BrokenOff, ~swept'
                 PROVE  \E x \in cast : Restores(x)'
        BY <1>2 DEF Restored, Ownerless, BrokenOff
    <2>1. cast \subseteq Writers /\ step \in [Writers -> OriginSteps]
        BY CastFact DEF OriginInv, OriginTyped
    <2>2. step'[w] = "look" /\ \A x \in Writers \ {w} : step'[x] = step[x]
        BY <1>1, <1>2, <2>1
    <2>3. Landed /\ ~swept
        BY <1>2, <1>3, <2>1, <2>2 DEF Landed
    <2>4. PICK x \in cast : Restores(x)
        BY <2>3 DEF OriginInv, Restored
    <2>5. x # w
        BY <1>2, <2>4 DEF Restores, RestoreSteps
    <2> QED
        BY <1>2, <2>1, <2>2, <2>4, <2>5 DEF Restores, Releaser
<1> QED
    BY <1>1, <1>2, <1>3, <1>5, <1>6, <1>7, <1>8, Advances DEF OriginInv, OriginTyped

LEMMA DieKeeps ==
    ASSUME OriginInv, NEW w \in cast, Die(w)
    PROVE  OriginInv'
<1>1. /\ w \in Writers /\ seen[w] \in ClaimRecord /\ seen[w].nonce <= claim.nonce /\ step[w] \in StepsOf(w)
      /\ empties \in Memory /\ empties.nonce <= claim.nonce /\ claim.nonce \in Nat
      /\ seen = [seen EXCEPT ![w] = seen[w]]
      /\ Role[w] \in {"fill", "private", "mirror", "demote", "audit", "operator"}
    BY WriterFacts
<1>2. PICK s \in {"look", "dead"} : /\ step' = [step EXCEPT ![w] = s]
                                    /\ s = "look" <=> Role[w] \in {"audit", "operator"}
    BY DEF Die, Go
<1>3. /\ UNCHANGED <<cast, claim, intents, seen, body, side, swept, orig>>
      /\ \A n \in stranded : n \in stranded'
    BY DEF Die, SameRecord, Strand
<1>. orig' \in [Writers -> Original]
    BY <1>3, WriterFacts
<1>4. Still
    <2>1. empties' \in {empties, NothingEmpty}
        BY DEF Die
    <2>2. NothingEmpty \in Memory /\ NothingEmpty.nonce = 0
        BY DEF NothingEmpty, Memory
    <2> QED
        BY <1>1, <1>3, <2>1, <2>2 DEF Still
<1>5. s \in StepsOf(w) /\ (Role[w] = "private" => step[w] \notin Stopped)
    BY <1>1, <1>2 DEF StepsOf, FillSteps, UploadSteps, DemoteSteps, ReleaseSteps, Uploads, Die, Stopped
<1>6. Relies(w, s, seen[w]) /\ Stands(w, s, claim', body', side', intents', swept')
    BY <1>2 DEF Relies, Stands, Uploading
<1>7. Advance(w, s, seen[w])
    BY <1>1, <1>2, <1>3, <1>5, <1>6 DEF Advance
<1>8. Careful(w, s, seen[w])
    <2>1. Restores(w) => step[w] \in {"relist", "cas"} /\ seen[w] = claim /\ Role[w] \in {"audit", "operator"}
        BY DEF Restores, Releaser, RestoreSteps
    <2>2. step[w] \in {"relist", "cas"} => seen[w].state = "unclaimed"
        BY WriterFacts DEF Relies
    <2>3. Restores(w) => seen[w].nonce \in stranded'
        BY <2>1 DEF Die, Strand
    <2> QED
        BY <1>2, <1>3, <2>1, <2>2, <2>3 DEF Careful, BrokenOff
<1> QED
    BY <1>4, <1>7, <1>8, Moves

\* Steps of nobody's: the writers are where they were.
LEMMA NobodyKeeps ==
    ASSUME OriginInv, Backfill \/ Grace \/ Heal \/ UNCHANGED originVars
    PROVE  OriginInv'
<1>1. /\ OriginTyped /\ cast \subseteq Writers /\ claim \in Claims /\ claim.nonce \in Nat
      /\ empties \in Memory /\ empties.nonce <= claim.nonce /\ RecordSound(body, side, swept)
      /\ body \in {"none", "fill", "mirror", "private"} /\ side \in {"none", "mirror", "private"}
    BY CastFact DEF OriginInv, OriginTyped, Claims, ClaimRecord
<1>2. UNCHANGED <<cast, claim, body, step, seen, swept, stranded, orig>>
    BY DEF Backfill, Grace, Heal, originVars, Same, SameRecord
<1>3. /\ side # "none" => side' = side
      /\ side' \in {"none", "mirror", "private"} /\ RecordSound(body', side', swept')
    BY <1>1, <1>2 DEF Backfill, Grace, Heal, originVars, SameRecord, RecordSound
<1>4. Rises
    BY <1>2, <1>3 DEF Rises
<1>5. empties' \in Memory /\ empties'.nonce = empties.nonce
    BY <1>1 DEF Backfill, Grace, Heal, originVars, Memory
<1>6. \A i \in intents' : i \in [by : cast, stale : BOOLEAN]
    <2>1. CASE Grace
        BY <1>1, <2>1 DEF Grace, OriginTyped
    <2>2. CASE ~Grace
        BY <1>1, <2>2 DEF Backfill, Heal, originVars, OriginTyped
    <2> QED
        BY <2>1, <2>2
<1>7. OriginTyped'
    BY <1>1, <1>2, <1>3, <1>5, <1>6 DEF OriginTyped, StepsOf, Uploads
<1>8. ASSUME NEW x \in cast
      PROVE  WriterInv(x)'
    <2>1. CASE ~Grace
        <3>1. Intent(x) \in intents => Intent(x) \in intents'
            BY <2>1 DEF Backfill, Heal, originVars, Intent
        <3> QED
            BY <1>2, <1>4, <1>8, <3>1, OthersStand
    <2>2. CASE Grace
        <3>1. ~(Uploads(x) /\ step[x] \in Uploading)
            BY <2>2 DEF Grace, Landing, Uploading
        <3> QED
            BY <1>2, <1>3, <1>8, <2>2, <3>1 DEF OriginInv, WriterInv, Relies, Stands, Owner, Uploads, Intent,
                  Grace, SameRecord
    <2> QED
        BY <2>1, <2>2
<1>9. Restored' /\ OperatorCareful'
    BY <1>2 DEF OriginInv, Restored, Restores, BrokenOff, Ownerless, Landed, Releaser, OperatorCareful, UploadsStopped
<1> QED
    BY <1>2, <1>3, <1>7, <1>8, <1>9 DEF OriginInv

LEMMA OriginInitially ==
    ASSUME OriginInit
    PROVE  OriginInv
<1>1. cast \in Casts /\ cast \subseteq Writers
    BY OriginAssumption DEF OriginInit
<1>2. /\ claim \in Claims /\ claim.nonce \in Nat
      /\ NoClaim \in ClaimRecord /\ NoClaim.nonce = 0
      /\ NothingEmpty \in Memory /\ NothingEmpty.nonce = 0
    BY DEF OriginInit, Claims, ClaimRecord, NoClaim, NothingEmpty, Memory
<1>3. \A w \in Writers : Started(w) \in {"head", "observe", "look"} /\ Started(w) \in StepsOf(w)
    BY OriginAssumption DEF Started, StepsOf, Uploads, FillSteps, UploadSteps, DemoteSteps, ReleaseSteps
<1>4. \A w \in Writers : "done" \in StepsOf(w) /\ StepsOf(w) \subseteq OriginSteps
    BY DEF StepsOf, FillSteps, UploadSteps, DemoteSteps, ReleaseSteps, OriginSteps
<1>5. \A w \in Writers : /\ step[w] \in {"head", "observe", "look", "done"} /\ step[w] \in StepsOf(w)
                         /\ seen[w] = NoClaim
    BY <1>3, <1>4 DEF OriginInit
<1>6. OriginTyped
    <2>1. step \in [Writers -> OriginSteps]
        BY <1>4, <1>5 DEF OriginInit
    <2>2. seen \in [Writers -> ClaimRecord]
        BY <1>2 DEF OriginInit
    <2>3. \A w \in Writers : seen[w].nonce <= claim.nonce
        BY <1>2, <1>5
    <2>4. orig \in [Writers -> Original]
        BY DEF OriginInit, Original
    <2> QED
        BY <1>1, <1>2, <1>5, <2>1, <2>2, <2>3, <2>4 DEF OriginInit, OriginTyped
<1>7. \A w \in cast : WriterInv(w)
    BY <1>1, <1>5 DEF WriterInv, Relies, Stands, Uploading
<1>8. RecordSound(body, side, swept) /\ Restored /\ OperatorCareful
    BY <1>1, <1>5 DEF OriginInit, RecordSound, Restored, Landed, OperatorCareful
<1> QED
    BY <1>6, <1>7, <1>8 DEF OriginInv

LEMMA OriginInvSafe ==
    ASSUME OriginInv
    PROVE  OriginSafe
<1>1. OriginTyped /\ (\A w \in cast : WriterInv(w)) /\ RecordSound(body, side, swept) /\ Restored
    BY DEF OriginInv
<1>2. OriginTypeOK
    BY <1>1 DEF OriginTyped, OriginTypeOK, Claims, ClaimRecord
<1>3. AckedIsOurs
    BY <1>1 DEF AckedIsOurs, WriterInv, Stands
<1>4. FillsStayTyped
    BY <1>1 DEF FillsStayTyped, RecordSound
<1>5. RecordsOwned
    BY <1>1 DEF RecordsOwned, Restores, Releasing, Restored, RestoreSteps, Ownerless, Landed, Releaser, OriginTyped,
          Claims, ClaimRecord
<1> QED
    BY <1>2, <1>3, <1>4, <1>5 DEF OriginSafe

LEMMA OriginKept ==
    ASSUME OriginInv, [OriginNext]_originVars
    PROVE  OriginInv'
<1>1. ASSUME NEW w \in cast, WriterStep(w) \/ RelistFails(w) \/ Die(w)
      PROVE  OriginInv'
    <2>1. CASE ClaimCas(w) \/ ClaimCreate(w)
        BY <2>1, ClaimKeeps
    <2>2. CASE ClaimReread(w) \/ ClaimRefetch(w)
        BY <2>2, RereadKeeps
    <2>3. CASE FillHead(w) \/ FillObserve(w) \/ FillDownload(w) \/ FillRecheck(w) \/ FillPost(w)
        BY <2>3, FillKeeps
    <2>4. CASE FillType(w) \/ FillPut(w) \/ UploadStore(w) \/ UploadSidecar(w)
        BY <2>4, WritesKeep
    <2>5. CASE UploadObserve(w) \/ UploadIntent(w) \/ UploadFence(w) \/ UploadPost(w)
        BY <2>5, UploadKeeps
    <2>6. CASE DemoteObserve(w)
        BY <2>6, DemoteKeeps
    <2>7. CASE Demote(w)
        BY <2>7, DemotesKeep
    <2>8. CASE \/ AuditLook(w) \/ AuditRecount(w) \/ AuditSweep(w) \/ AuditGate(w) \/ Relist(w) \/ RelistFails(w)
               \/ Released(w) \/ OperatorLook(w) \/ OperatorFreed(w) \/ OperatorRollback(w)
        BY <2>8, ReleaserKeeps
    <2>9. CASE Release(w)
        BY <2>9, ReleaseKeeps
    <2>10. CASE Die(w)
        BY <2>10, DieKeeps
    <2>11. CASE AuditDrop(w)
        BY <2>11, DropKeeps
    <2> QED
        BY <1>1, <2>1, <2>2, <2>3, <2>4, <2>5, <2>6, <2>7, <2>8, <2>9, <2>10, <2>11 DEF WriterStep
<1> QED
    BY <1>1, NobodyKeeps DEF OriginNext

\* origin.rs and publish.rs, "each package belongs to exactly one world": for any
\* writers, roles and deaths an acknowledged private upload keeps its bytes and its
\* claim.  It keeps its sidecar, the body of a fill stands under a mirror sidecar, and
\* a record has an owner once no release is under way, but for what the code admits:
\* the audit's sweep overtook a live writer (`swept`), or a release broke off before
\* its second look (`stranded`).
THEOREM OriginSafeHolds == OriginSpec => []OriginSafe
<1>1. OriginInit => OriginInv
    BY OriginInitially
<1>2. OriginInv /\ [OriginNext]_originVars => OriginInv'
    BY OriginKept
<1>3. OriginInv => OriginSafe
    BY OriginInvSafe
<1> QED
    BY <1>1, <1>2, <1>3, PTL DEF OriginSpec

\* origin.rs: a private claim is terminal; the only step that replaces it is the
\* release of an operator: no audit, fill, upload or lost CAS takes a name out of it.
THEOREM PrivateTerminalHolds == OriginSpec => PrivateTerminal
<1>1. ASSUME OriginInv, [OriginNext]_originVars
      PROVE  [claim.state = "private" /\ claim' # claim
                 => \E w \in cast : Role[w] = "operator" /\ step[w] = "release"]_originVars
    <2> SUFFICES ASSUME claim.state = "private", claim' # claim
                 PROVE  \E w \in cast : Role[w] = "operator" /\ step[w] = "release"
        OBVIOUS
    <2>1. PICK w \in cast : ClaimCas(w) \/ ClaimCreate(w) \/ Demote(w) \/ Release(w)
        BY <1>1 DEF OriginNext, WriterStep, ClaimReread, ClaimRefetch, FillHead, FillObserve, FillDownload, FillType,
              FillRecheck, FillPut, FillPost, UploadObserve, UploadIntent, UploadFence, UploadStore, UploadSidecar,
              UploadPost, DemoteObserve, AuditLook, AuditRecount, AuditSweep, AuditGate, AuditDrop, Relist, RelistFails,
              Released, OperatorLook, OperatorFreed, OperatorRollback, Die, Backfill, Grace, Heal, originVars
    <2>2. /\ Relies(w, step[w], seen[w]) /\ step[w] \in StepsOf(w)
          /\ Role[w] \in {"fill", "private", "mirror", "demote", "audit", "operator"}
        BY <1>1, WriterFacts
    <2>3. claim = seen[w] \/ claim = NoClaim
        BY <2>1 DEF ClaimCas, ClaimCreate, Demote, Release, Sentinel, PutClaim
    <2>4. claim = seen[w]
        BY <2>3 DEF NoClaim
    <2>5. ~ClaimCas(w) /\ ~Demote(w)
        BY <2>2, <2>4 DEF ClaimCas, Demote, Relies, At
    <2>6. ~ClaimCreate(w)
        BY DEF ClaimCreate, NoClaim
    <2>7. step[w] = "release"
        BY <2>1, <2>5, <2>6 DEF Release, At
    <2>8. Role[w] = "operator"
        BY <2>2, <2>4, <2>7 DEF Relies, StepsOf, FillSteps, UploadSteps, DemoteSteps, ClaimSteps, Uploads
    <2> QED
        BY <2>7, <2>8
<1>2. OriginInit => OriginInv
    BY OriginInitially
<1>3. OriginInv /\ [OriginNext]_originVars => OriginInv'
    BY OriginKept
<1> QED
    BY <1>1, <1>2, <1>3, PTL DEF OriginSpec, PrivateTerminal

-----------------------------------------------------------------------------
(* The fill (ProxyFill): the inductive invariant.                          *)

\* A request before its fill, a fill under way, and a fill that is over.
Before == {"new", "lookup", "head", "record", "ensure", "queued"}
Behind == {"anchor", "await", "teeing"}
Working == {"start", "attempt", "body", "check", "put"}
Over == {"nothing", "error", "filled", "cancelled"}

Generations == 1..scene.generations
Entries == 0..(Cardinality(Requests) + 1)

ReqRecord == [at : Before \cup Behind \cup {"serve"} \cup Final, gen : Nat, entry : Entries, late : BOOLEAN]
FillRecord == [at : {"none"} \cup Working \cup Over, attempt : 0..DOWNLOAD_ATTEMPTS, good : BOOLEAN,
             detached : BOOLEAN, teed : BOOLEAN, done : BOOLEAN]
ChannelRecord == [attempt : Nat, open : BOOLEAN, written : 0..DeclaredSize,
                state : {"Running", "Failed", "Verified"}, dropped : BOOLEAN]
TeeRecord == [attempt : Nat, sent : 0..DeclaredSize, available : 0..DeclaredSize,
            verified : BOOLEAN, late : BOOLEAN]

FillTyped ==
    /\ scene \in Scenes /\ cached \in [Generations -> BOOLEAN] /\ current \in Generations
    /\ presence \in [gen : Generations, has : BOOLEAN] /\ refusal \in BOOLEAN
    /\ req \in [Requests -> ReqRecord] /\ fill \in [Requests -> FillRecord]
    /\ channel \in [Requests -> ChannelRecord] /\ tee \in [Requests -> TeeRecord]
    /\ inflight \in Entries /\ permits \in Nat

\* A request that has no fill yet has no channel and no tee either.
Unstarted(r) ==
    /\ req[r].at \in Before => fill[r].at = "none"
    /\ fill[r].at = "none" => fill[r] = NoFill /\ channel[r] = NoChannel /\ tee[r] = NoTee
    /\ fill[r].done <=> fill[r].at \in Over

\* The bucket a request works on, and what it saw there.
Pinned(r) ==
    /\ req[r].at \notin {"new", "gone"} \/ fill[r].at # "none" => req[r].gen \in Generations
    /\ req[r].at = "record" => cached[req[r].gen]

\* Only the leader of a detached fill tees, and its fill looked for refusals.
Teed(r) ==
    /\ fill[r].teed => fill[r].detached
    /\ req[r].at \in {"anchor", "teeing", "delivered"} => fill[r].teed
    /\ tee[r].late => ~fill[r].teed

\* What the channel says of an attempt is true of it, and stays so.
Announced(r) ==
    /\ fill[r].at \in {"start", "attempt"} => fill[r].attempt < DOWNLOAD_ATTEMPTS
    /\ fill[r].at \in {"check", "put"} => fill[r].good
    /\ fill[r].teed /\ fill[r].at \in {"body", "check", "put"} => channel[r].attempt = fill[r].attempt
    /\ channel[r].state = "Verified" =>
          /\ fill[r].good /\ fill[r].attempt = channel[r].attempt
          /\ fill[r].at \in {"put"} \cup Over

\* The tail goes out only after the attempt the tee is bound to was verified.
Followed(r) ==
    /\ tee[r].verified => channel[r].state = "Verified" /\ channel[r].attempt = tee[r].attempt
    /\ tee[r].sent > DeclaredSize - TEE_HOLDBACK => tee[r].verified

Active(r) == fill[r].at \in Working

\* Whoever fills or waits for the key holds the entry that the map holds.
OneSlot ==
    /\ \A r \in Requests : Active(r) \/ ReqAt(r, "queued") => inflight # 0 /\ req[r].entry = inflight
    /\ \A r, s \in Requests : Active(r) /\ Active(s) => r = s

\* The fills that hold a permit.
Detached == {r \in Requests : Active(r) /\ fill[r].detached}
Accounted == permits + Cardinality(Detached) = MAX_DETACHED_FILLS

Local(r) == Unstarted(r) /\ Pinned(r) /\ Teed(r) /\ Announced(r) /\ Followed(r)

FillInv ==
    /\ FillTyped /\ (\A r \in Requests : Local(r))
    /\ OneSlot /\ Accounted /\ PresenceHonest

-----------------------------------------------------------------------------
(* What a step leaves alone.                                               *)

LEMMA Shapes ==
    /\ NoFill \in FillRecord /\ NoChannel \in ChannelRecord /\ NoTee \in TeeRecord
    /\ DeclaredSize \in Nat /\ TEE_HOLDBACK \in Nat
    /\ 0 < TEE_HOLDBACK /\ TEE_HOLDBACK <= DeclaredSize
<1>1. DeclaredSize \in Nat /\ TEE_HOLDBACK \in Nat /\ 0 < TEE_HOLDBACK /\ TEE_HOLDBACK <= DeclaredSize
    BY ProxyFillAssumption
<1> QED
    BY <1>1, ProxyFillAssumption
       DEF NoFill, NoChannel, NoTee, FillRecord, ChannelRecord, TeeRecord, Working, Over

LEMMA GenerationsType ==
    ASSUME FillTyped
    PROVE  scene.generations \in Nat \ {0} /\ Generations \subseteq Nat
    BY ProxyFillAssumption DEF FillTyped, Generations

\* Nothing of a request's own changes, and no bucket loses the file.
Untouched(s) ==
    /\ req'[s] = req[s] /\ fill'[s] = fill[s]
    /\ channel'[s] = channel[s] /\ tee'[s] = tee[s]
Grows == scene' = scene /\ \A g \in Generations : cached[g] => cached'[g]

LEMMA OthersKept ==
    ASSUME NEW s \in Requests, Local(s), Untouched(s), Grows
    PROVE  Local(s)'
<1> USE DEF Untouched, Grows, Generations
<1>1. Unstarted(s)'
    BY DEF Local, Unstarted
<1>2. Pinned(s)'
    BY DEF Local, Pinned
<1>3. Teed(s)'
    BY DEF Local, Teed
<1>4. Announced(s)'
    BY DEF Local, Announced
<1>5. Followed(s)'
    BY DEF Local, Followed
<1> QED
    BY <1>1, <1>2, <1>3, <1>4, <1>5 DEF Local

\* A step that starts, ends and queues nothing keeps the slots and the permits.
LEMMA SlotsKept ==
    ASSUME OneSlot, Accounted, UNCHANGED <<inflight, permits>>,
           \A s \in Requests : /\ fill'[s].at \in Working <=> fill[s].at \in Working
                               /\ fill'[s].detached = fill[s].detached
                               /\ req'[s].at = "queued" => req[s].at = "queued"
                               /\ req'[s].entry = req[s].entry
    PROVE  OneSlot' /\ Accounted'
<1>1. OneSlot'
    BY DEF OneSlot, Active, ReqAt
<1>2. Detached' = Detached
    BY DEF Detached, Active
<1> QED
    BY <1>1, <1>2 DEF Accounted

\* A step of one request: what is left to show.
LEMMA StepKeeps ==
    ASSUME FillInv, NEW r \in Requests, FillTyped', Local(r)',
           \A s \in Requests \ {r} : Untouched(s), Grows,
           OneSlot', Accounted', PresenceHonest'
    PROVE  FillInv'
<1>1. \A s \in Requests \ {r} : Local(s)'
    BY OthersKept DEF FillInv
<1> QED
    BY <1>1 DEF FillInv

-----------------------------------------------------------------------------
(* Steps of a request that starts no fill.                                 *)

\* A request moves on, and its fill is as it was.
LEMMA RequestMoves ==
    ASSUME FillInv, NEW r \in Requests, NEW q \in ReqRecord, req' = [req EXCEPT ![r] = q],
           q.entry = req[r].entry, q.at # "queued",
           UNCHANGED <<scene, current, refusal, cached, fill, channel, tee, inflight, permits>>,
           q.at \in Before => fill[r].at = "none",
           q.at \notin {"new", "gone"} \/ fill[r].at # "none" => q.gen \in Generations,
           q.at = "record" => cached[q.gen],
           q.at \in {"anchor", "teeing", "delivered"} => fill[r].teed,
           presence' \in [gen : Generations, has : BOOLEAN],
           presence'.has => cached[presence'.gen]
    PROVE  FillInv'
<1>1. FillTyped'
    BY DEF FillInv, FillTyped, Generations
<1>2. req'[r] = q /\ \A s \in Requests \ {r} : req'[s] = req[s]
    BY DEF FillInv, FillTyped
<1>3. Local(r)'
    <2> USE <1>2 DEF FillInv, Local
    <2>1. Unstarted(r)'
        BY DEF Unstarted
    <2>2. Pinned(r)'
        BY DEF Pinned, Generations
    <2>3. Teed(r)'
        BY DEF Teed
    <2>4. Announced(r)' /\ Followed(r)'
        BY DEF Announced, Followed
    <2> QED
        BY <2>1, <2>2, <2>3, <2>4
<1>4. OneSlot' /\ Accounted'
    BY <1>2, SlotsKept DEF FillInv
<1>5. \A s \in Requests \ {r} : Untouched(s)
    BY <1>2 DEF Untouched
<1> QED
    BY <1>1, <1>3, <1>4, <1>5, StepKeeps DEF Grows, PresenceHonest

LEMMA RequestStepsKeep ==
    ASSUME FillInv, NEW r \in Requests,
           ByteGate(r) \/ Lookup(r) \/ HeadObject(r) \/ Record(r) \/ AwaitFill(r) \/ Serve(r)
    PROVE  FillInv'
<1> USE DEF Env, Unfilled, ReqAt, ReqGo
<1>1. /\ FillTyped /\ Local(r) /\ req[r] \in ReqRecord /\ current \in Generations /\ current \in Nat
      /\ presence \in [gen : Generations, has : BOOLEAN]
      /\ presence.has => cached[presence.gen]
    BY GenerationsType DEF FillInv, FillTyped, PresenceHonest
<1>2. CASE ByteGate(r)
    <2> DEFINE q == [req[r] EXCEPT !.at = IF refusal THEN "blocked" ELSE "lookup", !.gen = current]
    <2>1. req' = [req EXCEPT ![r] = q]
        BY <1>2 DEF ByteGate
    <2>2. q \in ReqRecord /\ q.entry = req[r].entry /\ q.at \in {"blocked", "lookup"} /\ q.gen = current
        BY <1>1 DEF ReqRecord, Before, Final
    <2>3. fill[r].at = "none"
        BY <1>1, <1>2 DEF ByteGate, Local, Unstarted, Before
    <2>4. UNCHANGED <<scene, current, refusal, cached, presence, fill, channel, tee, inflight, permits>>
        BY <1>2 DEF ByteGate
    <2> HIDE DEF q
    <2> QED
        BY <1>1, <2>1, <2>2, <2>3, <2>4, RequestMoves
<1>3. ASSUME NEW a \in {"serve", "head", "record", "ensure", "served", "missing"}, ReqGo(r, a),
             req[r].at \in {"lookup", "head", "record", "serve"},
             a \in {"head", "record", "ensure"} => req[r].at \in Before,
             a = "record" => cached[req[r].gen],
             UNCHANGED <<scene, current, refusal, cached, fill, channel, tee, inflight, permits>>,
             presence' \in [gen : Generations, has : BOOLEAN],
             presence'.has => cached[presence'.gen]
      PROVE  FillInv'
    <2> DEFINE q == [req[r] EXCEPT !.at = a]
    <2>1. req' = [req EXCEPT ![r] = q]
        BY <1>3
    <2>2. q \in ReqRecord /\ q.entry = req[r].entry /\ q.at = a /\ q.gen = req[r].gen
        BY <1>1 DEF ReqRecord, Before, Final
    <2>3. a \in Before => fill[r].at = "none"
        BY <1>1, <1>3 DEF Local, Unstarted, Before
    <2>4. req[r].gen \in Generations
        BY <1>1, <1>3 DEF Local, Pinned
    <2> HIDE DEF q
    <2> QED
        BY <1>3, <2>1, <2>2, <2>3, <2>4, RequestMoves
<1>5. ASSUME NEW g \in Generations
      PROVE  /\ Reconciled(g) \in [gen : Generations, has : BOOLEAN] /\ Reconciled(g).gen = g
             /\ Reconciled(g).has => cached[g]
             /\ Recorded(g) \in [gen : Generations, has : BOOLEAN] /\ Recorded(g).gen = g
    BY <1>1 DEF Reconciled, Recorded
<1>6. CASE Lookup(r)
    <2>1. req[r].gen \in Generations
        BY <1>1, <1>6 DEF Lookup, Local, Pinned
    <2>2. /\ presence' = Reconciled(req[r].gen)
          /\ UNCHANGED <<scene, current, refusal, cached, fill, channel, tee, inflight, permits>>
          /\ req[r].at = "lookup"
        BY <1>6 DEF Lookup
    <2>3. \E a \in {"serve", "head"} : ReqGo(r, a)
        BY <1>6 DEF Lookup
    <2> QED
        BY <1>3, <1>5, <2>1, <2>2, <2>3 DEF Before
<1>7. CASE HeadObject(r)
    <2>1. /\ UNCHANGED <<scene, current, refusal, cached, presence, fill, channel, tee, inflight, permits>>
          /\ req[r].at = "head"
        BY <1>7 DEF HeadObject
    <2>2. \/ cached[req[r].gen] /\ ReqGo(r, "record")
          \/ ReqGo(r, "ensure")
        BY <1>7 DEF HeadObject
    <2> QED
        BY <1>1, <1>3, <2>1, <2>2 DEF Before
<1>8. CASE Record(r)
    <2>1. req[r].gen \in Generations /\ cached[req[r].gen]
        BY <1>1, <1>8 DEF Record, Local, Pinned
    <2>2. /\ presence' = Recorded(req[r].gen) /\ ReqGo(r, "serve")
          /\ UNCHANGED <<scene, current, refusal, cached, fill, channel, tee, inflight, permits>>
          /\ req[r].at = "record"
        BY <1>8 DEF Record
    <2> QED
        BY <1>3, <1>5, <2>1, <2>2 DEF Before
<1>9. CASE Serve(r)
    <2>1. /\ UNCHANGED <<scene, current, refusal, cached, presence, fill, channel, tee, inflight, permits>>
          /\ req[r].at = "serve"
        BY <1>9 DEF Serve
    <2>2. \E a \in {"served", "missing"} : ReqGo(r, a)
        BY <1>9 DEF Serve
    <2> QED
        BY <1>1, <1>3, <2>1, <2>2
<1>10. CASE AwaitFill(r)
    <2> DEFINE q == [req[r] EXCEPT !.at = IF FillAt(r, "error") THEN "failed" ELSE "serve", !.late = refusal]
    <2>1. req' = [req EXCEPT ![r] = q]
        BY <1>10 DEF AwaitFill
    <2>2. q \in ReqRecord /\ q.entry = req[r].entry /\ q.at \in {"failed", "serve"} /\ q.gen = req[r].gen
        BY <1>1 DEF ReqRecord, Before, Final, FillTyped
    <2>3. req[r].gen \in Generations
        BY <1>1, <1>10 DEF AwaitFill, Local, Pinned
    <2>4. UNCHANGED <<scene, current, refusal, cached, presence, fill, channel, tee, inflight, permits>>
        BY <1>10 DEF AwaitFill
    <2> HIDE DEF q
    <2> QED
        BY <1>1, <2>1, <2>2, <2>3, <2>4, RequestMoves DEF Before
<1> QED
    BY <1>2, <1>6, <1>7, <1>8, <1>9, <1>10

-----------------------------------------------------------------------------
(* The tee.                                                                *)

\* A tee binds to an attempt, or sends a chunk.
LEMMA TeeMoves ==
    ASSUME FillInv, NEW r \in Requests, NEW q \in ReqRecord, NEW t \in TeeRecord,
           req' = [req EXCEPT ![r] = q], tee' = [tee EXCEPT ![r] = t],
           req[r].at \in {"anchor", "teeing"}, q.at \in {"teeing", "delivered"},
           q.entry = req[r].entry, q.gen = req[r].gen,
           UNCHANGED <<scene, current, refusal, cached, presence, fill, channel, inflight, permits>>,
           t.late = tee[r].late,
           t.verified => channel[r].state = "Verified" /\ channel[r].attempt = t.attempt,
           t.sent > DeclaredSize - TEE_HOLDBACK => t.verified
    PROVE  FillInv'
<1>1. FillTyped'
    BY DEF FillInv, FillTyped, Generations
<1>2. /\ req'[r] = q /\ tee'[r] = t
      /\ \A s \in Requests \ {r} : req'[s] = req[s] /\ tee'[s] = tee[s]
    BY DEF FillInv, FillTyped
<1>3. fill[r].teed /\ fill[r].at # "none"
    BY DEF FillInv, Local, Teed, Unstarted, NoFill
<1>4. Local(r)'
    <2> USE <1>2, <1>3 DEF FillInv, Local
    <2>1. Unstarted(r)'
        BY DEF Unstarted, Before
    <2>2. Pinned(r)'
        BY DEF Pinned, Generations
    <2>3. Teed(r)'
        BY DEF Teed
    <2>4. Announced(r)'
        BY DEF Announced
    <2>5. Followed(r)'
        BY DEF Followed
    <2> QED
        BY <2>1, <2>2, <2>3, <2>4, <2>5
<1>5. OneSlot' /\ Accounted'
    BY <1>2, SlotsKept DEF FillInv
<1>6. \A s \in Requests \ {r} : Untouched(s)
    BY <1>2 DEF Untouched
<1> QED
    BY <1>1, <1>4, <1>5, <1>6, StepKeeps DEF Grows, PresenceHonest, FillInv

LEMMA TeeStepsKeep ==
    ASSUME FillInv, NEW r \in Requests, Anchor(r) \/ TeeNext(r)
    PROVE  FillInv'
<1> USE DEF Env, Unfilled, ReqAt, ReqGo
<1>1. /\ FillTyped /\ Local(r) /\ req[r] \in ReqRecord /\ channel[r] \in ChannelRecord
      /\ fill[r] \in FillRecord /\ tee[r] \in TeeRecord /\ req[r].at \in {"anchor", "teeing"}
      /\ req[r].gen \in Generations /\ presence \in [gen : Generations, has : BOOLEAN]
      /\ presence.has => cached[presence.gen]
    BY DEF FillInv, FillTyped, PresenceHonest, Local, Pinned, Anchor, TeeNext
<1>2. UNCHANGED <<scene, current, refusal, cached, presence, fill, channel, inflight, permits>>
    BY DEF Anchor, TeeNext
<1>3. ASSUME NEW a \in {"await", "aborted"}, ReqGo(r, a), UNCHANGED tee
      PROVE  FillInv'
    <2> DEFINE q == [req[r] EXCEPT !.at = a]
    <2>1. req' = [req EXCEPT ![r] = q]
        BY <1>3
    <2>2. q \in ReqRecord /\ q.entry = req[r].entry /\ q.at = a /\ q.gen = req[r].gen
        BY <1>1 DEF ReqRecord, Behind, Final
    <2> HIDE DEF q
    <2> QED
        BY <1>1, <1>2, <1>3, <2>1, <2>2, RequestMoves DEF Before
<1>4. ASSUME NEW a \in {"teeing", "delivered"}, ReqGo(r, a), NEW t \in TeeRecord,
             tee' = [tee EXCEPT ![r] = t], t.late = tee[r].late,
             t.verified => channel[r].state = "Verified" /\ channel[r].attempt = t.attempt,
             t.sent > DeclaredSize - TEE_HOLDBACK => t.verified
      PROVE  FillInv'
    <2> DEFINE q == [req[r] EXCEPT !.at = a]
    <2>1. req' = [req EXCEPT ![r] = q]
        BY <1>4
    <2>2. q \in ReqRecord /\ q.entry = req[r].entry /\ q.at = a /\ q.gen = req[r].gen
        BY <1>1 DEF ReqRecord, Behind, Final
    <2> HIDE DEF q
    <2> QED
        BY <1>1, <1>2, <1>4, <2>1, <2>2, TeeMoves
<1>5. CASE Anchor(r)
    <2>1. CASE /\ channel[r].state = "Running" /\ ReqGo(r, "teeing")
               /\ tee' = [tee EXCEPT ![r].attempt = channel[r].attempt]
        <3> DEFINE t == [tee[r] EXCEPT !.attempt = channel[r].attempt]
        <3>1. tee' = [tee EXCEPT ![r] = t]
            BY <2>1
        <3>2. t \in TeeRecord /\ t.late = tee[r].late /\ t.sent = tee[r].sent /\ t.verified = tee[r].verified
            BY <1>1 DEF TeeRecord, ChannelRecord
        <3>3. /\ ~tee[r].verified
              /\ tee[r].sent > DeclaredSize - TEE_HOLDBACK => tee[r].verified
            BY <1>1, <2>1 DEF Local, Followed
        <3> HIDE DEF t
        <3> QED
            BY <1>4, <2>1, <3>1, <3>2, <3>3
    <2>2. CASE ReqGo(r, "await") /\ UNCHANGED tee
        BY <1>3, <2>2
    <2> QED
        BY <1>5, <2>1, <2>2 DEF Anchor
<1>6. CASE TeeNext(r)
    <2> DEFINE told == IF tee[r].verified THEN "Verified" ELSE observe(r)
               available == IF tee[r].verified THEN tee[r].available ELSE channel[r].written
               limit == IF told = "Verified" THEN DeclaredSize ELSE HeldBack(available)
               v == (told = "Verified")
               t == [tee[r] EXCEPT !.sent = tee[r].sent + 1, !.available = available, !.verified = v]
    <2>1. \/ ReqGo(r, "aborted") /\ UNCHANGED tee
          \/ /\ tee[r].sent < limit /\ tee' = [tee EXCEPT ![r] = t]
             /\ \E a \in {"teeing", "delivered"} : ReqGo(r, a)
        BY <1>6 DEF TeeNext
    <2>2. available \in 0..DeclaredSize
        BY <1>1 DEF TeeRecord, ChannelRecord
    <2>3. told = "Verified" => channel[r].state = "Verified" /\ channel[r].attempt = tee[r].attempt
        <3>1. observe(r) = "Verified" => channel[r].state = "Verified" /\ channel[r].attempt = tee[r].attempt
            BY DEF observe
        <3>2. tee[r].verified => channel[r].state = "Verified" /\ channel[r].attempt = tee[r].attempt
            BY <1>1 DEF Local, Followed
        <3> QED
            BY <3>1, <3>2
    <2>4. limit \in 0..DeclaredSize /\ (told # "Verified" => limit <= DeclaredSize - TEE_HOLDBACK)
        <3> HIDE DEF told, available
        <3> QED
            BY <2>2, Shapes DEF HeldBack
    <2> HIDE DEF told, available, limit
    <2>5. CASE tee[r].sent < limit
        <3>1. t \in TeeRecord
            <4>1. v \in BOOLEAN /\ tee[r].sent + 1 \in 0..DeclaredSize
                BY <1>1, <2>4, <2>5, Shapes DEF TeeRecord
            <4> HIDE DEF v
            <4> QED
                BY <1>1, <2>2, <4>1 DEF TeeRecord
        <3>2. t.late = tee[r].late /\ t.attempt = tee[r].attempt /\ t.sent = tee[r].sent + 1
            BY <1>1 DEF TeeRecord
        <3>3. t.verified = (told = "Verified")
            BY <1>1 DEF TeeRecord
        <3>4. t.sent > DeclaredSize - TEE_HOLDBACK => told = "Verified"
            BY <1>1, <2>4, <2>5, <3>2, Shapes DEF TeeRecord
        <3> HIDE DEF t
        <3> QED
            BY <1>3, <1>4, <2>1, <2>3, <3>1, <3>2, <3>3, <3>4
    <2> QED
        BY <1>3, <2>1, <2>5
<1> QED
    BY <1>5, <1>6

-----------------------------------------------------------------------------
(* The slot and the permits.                                               *)

\* The map hands out an entry that nobody holds, or the one it has.
LEMMA EntryFact ==
    ASSUME FillInv
    PROVE  Entry \in Entries /\ Entry # 0 /\ (inflight # 0 => Entry = inflight)
<1> DEFINE of == [r \in Requests |-> req[r].entry]
           N == Cardinality(Requests)
<1>1. CASE inflight # 0
    BY <1>1 DEF Entry, FillInv, FillTyped
<1>2. CASE inflight = 0
    <2>1. N \in Nat /\ IsFiniteSet(Requests)
        BY ProxyFillAssumption, FS_CardinalityType
    <2>2. IsFiniteSet({of[r] : r \in Requests}) /\ Cardinality({of[r] : r \in Requests}) <= N
        <3> HIDE DEF of
        <3>1. [r \in Requests |-> of[r]] \in Surjection(Requests, {of[r] : r \in Requests})
            BY DEF Surjection
        <3> QED
            BY <2>1, <3>1, FS_Surjection
    <2>3. Cardinality(1..(N + 1)) = N + 1 /\ IsFiniteSet(1..(N + 1))
        BY <2>1, FS_Interval
    <2>4. ~(1..(N + 1) \subseteq {of[r] : r \in Requests})
        <3> SUFFICES ASSUME 1..(N + 1) \subseteq {of[r] : r \in Requests} PROVE FALSE
            OBVIOUS
        <3>1. Cardinality(1..(N + 1)) <= Cardinality({of[r] : r \in Requests})
            BY <2>2, FS_Subset
        <3>2. Cardinality({of[r] : r \in Requests}) \in Nat
            BY <2>2, FS_CardinalityType
        <3> QED
            BY <2>1, <2>2, <2>3, <3>1, <3>2
    <2>5. \E e \in 1..(N + 1) : \A r \in Requests : req[r].entry # e
        BY <2>4
    <2>6. Entry \in 1..(N + 1)
        BY <1>2, <2>5 DEF Entry
    <2> QED
        BY <1>2, <2>1, <2>6 DEF Entries
<1> QED
    BY <1>1, <1>2

\* The holder of an entry is the fill under way.
LEMMA HolderFact ==
    ASSUME FillInv, NEW e
    PROVE  Locked(e) <=> \E r \in Requests : Active(r) /\ req[r].entry = e
<1>1. ASSUME NEW r \in Requests
      PROVE  fill[r].at # "none" /\ ~fill[r].done <=> Active(r)
    BY DEF FillInv, FillTyped, Local, Unstarted, FillRecord, Working, Over, Active
<1> QED
    BY <1>1 DEF Locked, Holder

\* A fill starts when no other is under way, and takes a permit if there is one.
LEMMA Spawns ==
    ASSUME FillInv, NEW r \in Requests, NEW e \in Entries, e # 0, NEW leader \in BOOLEAN,
           Spawn(r, e, leader), inflight' = e, inflight \in {0, e}, ~Locked(e),
           req[r].at \in {"ensure", "queued"},
           UNCHANGED <<scene, current, refusal, cached, presence, channel, tee>>
    PROVE  FillInv'
<1> DEFINE d == permits > 0
           td == d /\ leader
           f == [NoFill EXCEPT !.at = "start", !.detached = d, !.teed = td]
           q == [req[r] EXCEPT !.at = IF td THEN "anchor" ELSE "await", !.entry = e]
<1>1. /\ fill' = [fill EXCEPT ![r] = f] /\ req' = [req EXCEPT ![r] = q]
      /\ permits' = IF d THEN permits - 1 ELSE permits
    BY DEF Spawn
<1>2. d \in BOOLEAN /\ td \in BOOLEAN /\ (td => d) /\ permits \in Nat /\ (d <=> permits > 0)
    BY DEF FillInv, FillTyped
<1> HIDE DEF d, td
<1>3. /\ f \in FillRecord /\ f.at = "start" /\ f.detached = d /\ f.teed = td
      /\ f.done = FALSE /\ f.attempt = 0
    BY <1>2, Shapes DEF FillRecord, NoFill, Working
<1>4. req[r] \in ReqRecord /\ fill[r].at = "none" /\ req[r].gen \in Generations
    BY DEF FillInv, FillTyped, Local, Unstarted, Pinned, Before
<1>5. /\ q \in ReqRecord /\ q.entry = e /\ q.gen = req[r].gen /\ q.at \in {"anchor", "await"}
      /\ q.at = "anchor" => td
    BY <1>2, <1>4 DEF ReqRecord, Behind
<1> HIDE DEF f, q
<1>6. /\ fill'[r] = f /\ req'[r] = q
      /\ \A s \in Requests \ {r} : fill'[s] = fill[s] /\ req'[s] = req[s]
    BY <1>1 DEF FillInv, FillTyped
<1>7. FillTyped'
    BY <1>1, <1>2, <1>3, <1>5 DEF FillInv, FillTyped, Generations
<1>8. \A s \in Requests : ~Active(s)
    BY HolderFact DEF FillInv, OneSlot
<1>9. Local(r)'
    <2>1. channel[r] = NoChannel /\ tee[r] = NoTee
        BY <1>4 DEF FillInv, Local, Unstarted
    <2>2. Unstarted(r)'
        BY <1>3, <1>5, <1>6 DEF Unstarted, Before, Over
    <2>3. Pinned(r)'
        BY <1>4, <1>5, <1>6 DEF Pinned, Generations
    <2>4. Teed(r)'
        BY <1>2, <1>3, <1>5, <1>6, <2>1 DEF Teed, NoTee
    <2>5. Announced(r)'
        BY <1>3, <1>6, <2>1, ProxyFillAssumption DEF Announced, NoChannel
    <2>6. Followed(r)'
        BY <2>1, Shapes DEF Followed, NoTee
    <2> QED
        BY <2>2, <2>3, <2>4, <2>5, <2>6 DEF Local
<1>10. OneSlot'
    <2>1. \A s \in Requests \ {r} : ~Active(s)' /\ (ReqAt(s, "queued")' => req'[s].entry = inflight')
        BY <1>6, <1>8 DEF FillInv, OneSlot, Active, ReqAt
    <2>2. req'[r].entry = inflight'
        BY <1>5, <1>6
    <2> QED
        BY <2>1, <2>2 DEF OneSlot
<1>11. Accounted'
    <2>1. Detached = {}
        BY <1>8 DEF Detached
    <2>2. permits = MAX_DETACHED_FILLS
        BY <1>2, <2>1, FS_EmptySet DEF FillInv, Accounted
    <2>3. \A s \in Requests \ {r} : s \notin Detached'
        BY <1>6, <1>8 DEF Detached, Active
    <2>4. r \in Detached' <=> d
        BY <1>2, <1>3, <1>6 DEF Detached, Active, Working
    <2>5. CASE d
        <3>1. Detached' = {r}
            BY <2>3, <2>4, <2>5 DEF Detached
        <3>2. permits' = permits - 1
            BY <1>1, <2>5
        <3>3. Cardinality(Detached') = 1
            BY <3>1, FS_Singleton
        <3> QED
            BY <1>2, <2>2, <3>2, <3>3 DEF Accounted
    <2>6. CASE ~d
        <3>1. Detached' = {}
            BY <2>3, <2>4, <2>6 DEF Detached
        <3> QED
            BY <1>1, <1>2, <2>2, <2>6, <3>1, FS_EmptySet DEF Accounted
    <2> QED
        BY <2>5, <2>6
<1>12. \A s \in Requests \ {r} : Untouched(s)
    BY <1>6 DEF Untouched
<1> QED
    BY <1>7, <1>9, <1>10, <1>11, <1>12, StepKeeps DEF Grows, PresenceHonest, FillInv

\* A request enters or leaves the queue, and no fill starts.
LEMMA QueueMoves ==
    ASSUME FillInv, NEW r \in Requests, NEW q \in ReqRecord, req' = [req EXCEPT ![r] = q],
           req[r].at \in {"ensure", "queued"}, q.at \in {"serve", "queued"}, q.gen = req[r].gen,
           UNCHANGED <<scene, current, refusal, cached, presence, fill, channel, tee, permits>>,
           inflight' \in Entries, OneSlot'
    PROVE  FillInv'
<1>1. FillTyped'
    BY DEF FillInv, FillTyped, Generations
<1>2. req'[r] = q /\ \A s \in Requests \ {r} : req'[s] = req[s]
    BY DEF FillInv, FillTyped
<1>3. Local(r)'
    <2> USE <1>2 DEF FillInv, Local
    <2>1. Unstarted(r)'
        BY DEF Unstarted, Before
    <2>2. Pinned(r)'
        BY DEF Pinned, Generations
    <2>3. Teed(r)'
        BY DEF Teed
    <2>4. Announced(r)' /\ Followed(r)'
        BY DEF Announced, Followed
    <2> QED
        BY <2>1, <2>2, <2>3, <2>4
<1>4. Accounted'
    BY DEF FillInv, Accounted, Detached, Active
<1>5. \A s \in Requests \ {r} : Untouched(s)
    BY <1>2 DEF Untouched
<1> QED
    BY <1>1, <1>3, <1>4, <1>5, StepKeeps DEF Grows, PresenceHonest, FillInv

LEMMA SlotStepsKeep ==
    ASSUME FillInv, NEW r \in Requests, Ensure(r) \/ Inherit(r)
    PROVE  FillInv'
<1> USE DEF Env, Unfilled, ReqAt, ReqGo
<1>1. /\ req[r] \in ReqRecord /\ req \in [Requests -> ReqRecord] /\ inflight \in Entries
      /\ req[r].at \in {"ensure", "queued"} /\ OneSlot
    BY DEF FillInv, FillTyped, Ensure, Inherit
<1>2. UNCHANGED <<scene, current, refusal, cached, presence, channel, tee>>
    BY DEF Ensure, Inherit, Spawn
<1> DEFINE e == Entry
<1>3. e \in Entries /\ e # 0 /\ inflight \in {0, e}
    BY EntryFact
<1>4. Locked(e) => inflight = e
    BY <1>3, HolderFact DEF FillInv, OneSlot
<1>5. req[r].at = "queued" => inflight # 0 /\ req[r].entry = inflight
    BY <1>1 DEF OneSlot
<1> HIDE DEF e
<1>6. ASSUME ReqGo(r, "serve"), UNCHANGED <<fill, permits>>, inflight' \in Entries,
             inflight' = inflight \/ \A s \in Requests : ~Active(s) /\ (req[s].at = "queued" => s = r)
      PROVE  FillInv'
    <2> DEFINE q == [req[r] EXCEPT !.at = "serve"]
    <2>1. req' = [req EXCEPT ![r] = q]
        BY <1>6
    <2>2. q \in ReqRecord /\ q.entry = req[r].entry /\ q.at = "serve" /\ q.gen = req[r].gen
        BY <1>1 DEF ReqRecord
    <2> HIDE DEF q
    <2>3. req'[r] = q /\ \A s \in Requests \ {r} : req'[s] = req[s]
        BY <1>1, <2>1
    <2>4. OneSlot'
        BY <1>1, <1>6, <2>2, <2>3 DEF OneSlot, Active
    <2> QED
        BY <1>1, <1>2, <1>6, <2>1, <2>2, <2>4, QueueMoves
<1>7. CASE Ensure(r)
    <2>1. CASE ReqGo(r, "serve") /\ Unfilled /\ UNCHANGED inflight
        BY <1>1, <1>6, <2>1
    <2>2. CASE ~Locked(e) /\ inflight' = e /\ Spawn(r, e, TRUE)
        BY <1>1, <1>2, <1>3, <2>2, Spawns
    <2>3. CASE /\ Locked(e) /\ inflight' = e /\ Unfilled
               /\ req' = [req EXCEPT ![r] = [@ EXCEPT !.at = "queued", !.entry = e]]
        <3> DEFINE q == [req[r] EXCEPT !.at = "queued", !.entry = e]
        <3>1. req' = [req EXCEPT ![r] = q]
            BY <2>3
        <3>2. q \in ReqRecord /\ q.entry = e /\ q.at = "queued" /\ q.gen = req[r].gen
            BY <1>1, <1>3 DEF ReqRecord, Before
        <3> HIDE DEF q
        <3>3. req'[r] = q /\ \A s \in Requests \ {r} : req'[s] = req[s]
            BY <1>1, <3>1
        <3>4. fill[r].at = "none"
            BY <1>1 DEF FillInv, Local, Unstarted, Before
        <3>5. OneSlot'
            BY <1>1, <1>3, <1>4, <2>3, <3>2, <3>3, <3>4 DEF OneSlot, Active, Working
        <3> QED
            BY <1>1, <1>2, <1>3, <2>3, <3>1, <3>2, <3>5, QueueMoves
    <2> QED
        BY <1>7, <2>1, <2>2, <2>3 DEF Ensure, e
<1>8. CASE Inherit(r)
    <2>1. req[r].at = "queued" /\ ~Locked(inflight) /\ req[r].entry = inflight /\ inflight # 0
        BY <1>5, <1>8 DEF Inherit
    <2>2. \A s \in Requests : ~Active(s)
        BY <1>1, <2>1, HolderFact DEF OneSlot
    <2>3. CASE /\ ReqGo(r, "serve") /\ Unfilled
               /\ inflight' = (IF inflight = req[r].entry /\ Queued(req[r].entry) # {r} THEN inflight ELSE 0)
        <3>1. inflight' \in {0, inflight} /\ inflight' \in Entries
            BY <1>1, <2>3, ProxyFillAssumption, FS_CardinalityType DEF Entries
        <3>2. inflight' # inflight => Queued(inflight) = {r}
            BY <2>1, <2>3
        <3>3. Queued(inflight) = {r} => \A s \in Requests : req[s].at = "queued" => s = r
            BY <1>1 DEF Queued, OneSlot
        <3> QED
            BY <1>6, <2>2, <2>3, <3>1, <3>2, <3>3
    <2>4. CASE Spawn(r, inflight, FALSE) /\ UNCHANGED inflight
        BY <1>1, <1>2, <2>1, <2>4, Spawns
    <2> QED
        BY <1>8, <2>1, <2>3, <2>4 DEF Inherit
<1> QED
    BY <1>7, <1>8

-----------------------------------------------------------------------------
(* The fill.                                                               *)

\* A fill goes on: the records it, its channel and its tee have next, and what
\* makes them true of each other.
Moved(r, f, c, t) ==
    /\ f \in FillRecord /\ c \in ChannelRecord /\ t \in TeeRecord
    /\ fill' = [fill EXCEPT ![r] = f] /\ channel' = [channel EXCEPT ![r] = c] /\ tee' = [tee EXCEPT ![r] = t]
    /\ UNCHANGED <<scene, current, refusal, cached, presence, req, inflight, permits>>
Onward(r, f, c, t) ==
    /\ f.at \in Working /\ ~f.done /\ f.detached = fill[r].detached /\ f.teed = fill[r].teed
    /\ f.at \in {"start", "attempt"} => f.attempt < DOWNLOAD_ATTEMPTS
    /\ f.at \in {"check", "put"} => f.good
    /\ f.teed /\ f.at \in {"body", "check", "put"} => c.attempt = f.attempt
    /\ c.state = "Verified" => f.good /\ f.attempt = c.attempt /\ f.at = "put"
    /\ t.late => ~f.teed
    /\ t.sent = tee[r].sent /\ t.verified = tee[r].verified
    /\ t.verified => c.state = "Verified" /\ c.attempt = t.attempt

LEMMA FillMoves ==
    ASSUME FillInv, NEW r \in Requests, Active(r), NEW f, NEW c, NEW t,
           Moved(r, f, c, t), Onward(r, f, c, t)
    PROVE  FillInv'
<1> USE DEF Moved, Onward
<1>1. FillTyped'
    BY DEF FillInv, FillTyped, Generations
<1>2. /\ fill'[r] = f /\ channel'[r] = c /\ tee'[r] = t
      /\ \A s \in Requests \ {r} : fill'[s] = fill[s] /\ channel'[s] = channel[s] /\ tee'[s] = tee[s]
    BY DEF FillInv, FillTyped
<1>3. fill[r].at \in Working /\ fill[r].at # "none" /\ f.at # "none" /\ f.at \notin Over
    BY DEF Active, Working, Over
<1>4. Local(r)'
    <2> USE <1>2, <1>3 DEF FillInv, Local
    <2>1. Unstarted(r)'
        BY DEF Unstarted
    <2>2. Pinned(r)'
        BY DEF Pinned, Generations
    <2>3. Teed(r)'
        BY DEF Teed
    <2>4. Announced(r)'
        BY DEF Announced
    <2>5. Followed(r)'
        BY DEF Followed
    <2> QED
        BY <2>1, <2>2, <2>3, <2>4, <2>5
<1>5. OneSlot' /\ Accounted'
    BY <1>2, <1>3, SlotsKept DEF FillInv
<1>6. \A s \in Requests \ {r} : Untouched(s)
    BY <1>2 DEF Untouched
<1> QED
    BY <1>1, <1>4, <1>5, <1>6, StepKeeps DEF Grows, PresenceHonest, FillInv

\* A fill is over: the slot goes to a waiter or out of the map, the permit back.
LEMMA FillEnds ==
    ASSUME FillInv, NEW r \in Requests, Active(r), NEW o \in Over, EndFill(r, o),
           NEW q \in ReqRecord, req' = [req EXCEPT ![r] = q], q.gen = req[r].gen,
           q.entry = req[r].entry, q.at = req[r].at \/ q.at = "gone",
           UNCHANGED <<scene, current, refusal, presence, tee>>,
           cached' \in [Generations -> BOOLEAN], Grows
    PROVE  FillInv'
<1> DEFINE f == [fill[r] EXCEPT !.at = o, !.done = TRUE]
<1>1. /\ FillTyped /\ Local(r) /\ OneSlot /\ Accounted /\ fill[r] \in FillRecord
      /\ channel[r] \in ChannelRecord /\ permits \in Nat /\ inflight \in Entries
    BY DEF FillInv, FillTyped
<1>2. fill' = [fill EXCEPT ![r] = f]
    BY DEF EndFill
<1>3. /\ f \in FillRecord /\ f.at = o /\ f.done = TRUE /\ f.teed = fill[r].teed
      /\ f.detached = fill[r].detached /\ f.good = fill[r].good /\ f.attempt = fill[r].attempt
    BY <1>1 DEF FillRecord
<1> HIDE DEF f
<1>4. /\ fill'[r] = f /\ req'[r] = q
      /\ \A s \in Requests \ {r} : fill'[s] = fill[s] /\ req'[s] = req[s]
    BY <1>1, <1>2 DEF FillTyped
<1>5. /\ channel' \in [Requests -> ChannelRecord]
      /\ \A s \in Requests \ {r} : channel'[s] = channel[s]
      /\ channel'[r].attempt = channel[r].attempt
      /\ channel'[r].state = "Verified" <=> channel[r].state = "Verified"
    <2>1. CASE fill[r].teed
        <3> DEFINE c == [channel[r] EXCEPT !.dropped = TRUE,
                           !.state = IF channel[r].state = "Verified" THEN "Verified" ELSE "Failed"]
        <3>1. channel' = [channel EXCEPT ![r] = c]
            BY <2>1 DEF EndFill, Ended
        <3>2. /\ c \in ChannelRecord /\ c.attempt = channel[r].attempt
              /\ c.state = "Verified" <=> channel[r].state = "Verified"
            BY <1>1 DEF ChannelRecord
        <3> HIDE DEF c
        <3> QED
            BY <1>1, <3>1, <3>2 DEF FillTyped
    <2>2. CASE ~fill[r].teed
        BY <1>1, <2>2 DEF EndFill, Ended, FillTyped
    <2> QED
        BY <2>1, <2>2
<1>6. o # "none" /\ o \notin Working /\ fill[r].at # "none" /\ fill[r].at \notin Over
    BY DEF Over, Working, Active
<1>7. Local(r)'
    <2> USE <1>1, <1>3, <1>4, <1>5, <1>6 DEF Local
    <2>1. Unstarted(r)'
        BY DEF Unstarted, Before
    <2>2. Pinned(r)'
        BY DEF Pinned, Generations, Unstarted, Before, Grows
    <2>3. Teed(r)'
        BY DEF Teed
    <2>4. Announced(r)'
        BY DEF Announced, Over
    <2>5. Followed(r)'
        BY DEF Followed
    <2> QED
        BY <2>1, <2>2, <2>3, <2>4, <2>5
<1>8. inflight # 0 /\ req[r].entry = inflight /\ req[r].at # "queued" /\ q.at # "queued"
    BY <1>1, <1>6 DEF OneSlot, Local, Unstarted, Before
<1>9. \A s \in Requests : ~Active(s)' /\ (Active(s) => s = r)
    BY <1>1, <1>3, <1>4, <1>6 DEF OneSlot, Active
<1>10. /\ inflight' = IF Queued(inflight) # {} THEN inflight ELSE 0
       /\ inflight' \in Entries
    <2>1. inflight' = IF Queued(inflight) # {} THEN inflight ELSE 0
        BY <1>8 DEF EndFill, Pruned
    <2> QED
        BY <1>1, <2>1, ProxyFillAssumption, FS_CardinalityType DEF Entries
<1>11. OneSlot'
    <2>1. ASSUME NEW s \in Requests, ReqAt(s, "queued")'
          PROVE  inflight' # 0 /\ req'[s].entry = inflight'
        <3>1. s # r /\ req[s].at = "queued" /\ req'[s].entry = req[s].entry
            BY <1>4, <1>8, <2>1 DEF ReqAt
        <3>2. s \in Queued(inflight) /\ req[s].entry = inflight
            BY <1>1, <3>1 DEF OneSlot, ReqAt, Queued
        <3> QED
            BY <1>8, <1>10, <3>1, <3>2
    <2> QED
        BY <1>9, <2>1 DEF OneSlot
<1>12. Accounted' /\ permits' \in Nat
    <2>1. Detached' = {}
        BY <1>9 DEF Detached
    <2>2. Cardinality(Detached') = 0
        BY <2>1, FS_EmptySet
    <2>3. CASE fill[r].detached
        <3>1. Detached = {r}
            BY <1>9, <2>3 DEF Detached
        <3>2. Cardinality(Detached) = 1
            BY <3>1, FS_Singleton
        <3>3. permits' = permits + 1
            BY <2>3 DEF EndFill, Returned
        <3> QED
            BY <1>1, <2>2, <3>2, <3>3 DEF Accounted
    <2>4. CASE ~fill[r].detached
        <3>1. Detached = {}
            BY <1>9, <2>4 DEF Detached
        <3>2. Cardinality(Detached) = 0
            BY <3>1, FS_EmptySet
        <3>3. permits' = permits
            BY <2>4 DEF EndFill, Returned
        <3> QED
            BY <1>1, <2>2, <3>2, <3>3 DEF Accounted
    <2> QED
        BY <2>3, <2>4
<1>13. FillTyped'
    BY <1>1, <1>2, <1>3, <1>5, <1>10, <1>12 DEF FillTyped, Generations
<1>14. PresenceHonest'
    BY <1>1 DEF FillInv, FillTyped, PresenceHonest, Grows, Generations
<1>15. \A s \in Requests \ {r} : Untouched(s)
    BY <1>4, <1>5 DEF Untouched
<1> QED
    BY <1>7, <1>11, <1>12, <1>13, <1>14, <1>15, StepKeeps

\* A fill step that ends the fill leaves the request where it is.
LEMMA FillStops ==
    ASSUME FillInv, NEW r \in Requests, Active(r), NEW o \in Over, EndFill(r, o),
           UNCHANGED <<scene, current, refusal, presence, tee, req>>,
           cached' \in [Generations -> BOOLEAN], Grows
    PROVE  FillInv'
<1>1. req[r] \in ReqRecord /\ req' = [req EXCEPT ![r] = req[r]]
    BY DEF FillInv, FillTyped
<1> QED
    BY <1>1, FillEnds

LEMMA FillStepsKeep ==
    ASSUME FillInv, NEW r \in Requests, FillStep(r)
    PROVE  FillInv'
<1> USE DEF Env, Running, FillAt, FillGo
<1>1. /\ FillTyped /\ Local(r) /\ fill[r] \in FillRecord /\ channel[r] \in ChannelRecord
      /\ tee[r] \in TeeRecord /\ fill \in [Requests -> FillRecord] /\ cached \in [Generations -> BOOLEAN]
      /\ channel \in [Requests -> ChannelRecord] /\ tee \in [Requests -> TeeRecord] /\ refusal \in BOOLEAN
      /\ req[r] \in ReqRecord
    BY DEF FillInv, FillTyped
<1>2. Active(r) /\ ~fill[r].done
    BY <1>1 DEF FillStep, FillStart, Attempt, Chunk, EndBody, Check, Put, Active, Working, Local, Unstarted, Over
<1>3. UNCHANGED <<scene, current, refusal, presence, req>>
    BY DEF FillStep, FillStart, Attempt, Chunk, EndBody, Check, Put
<1>4. ASSUME NEW o \in Over, EndFill(r, o), UNCHANGED <<tee, cached>>
      PROVE  FillInv'
    BY <1>1, <1>2, <1>3, <1>4, FillStops DEF Grows
<1>5. /\ fill[r].at \in {"start", "attempt"} => fill[r].attempt < DOWNLOAD_ATTEMPTS
      /\ fill[r].at \in {"check", "put"} => fill[r].good
      /\ fill[r].teed /\ fill[r].at \in {"body", "check", "put"} => channel[r].attempt = fill[r].attempt
      /\ channel[r].state = "Verified" => fill[r].at = "put"
      /\ tee[r].verified => channel[r].state = "Verified" /\ channel[r].attempt = tee[r].attempt
      /\ tee[r].late => ~fill[r].teed
    BY <1>1, <1>2 DEF Local, Announced, Followed, Teed, Active, Working, Over
<1>6. /\ channel = [channel EXCEPT ![r] = channel[r]] /\ tee = [tee EXCEPT ![r] = tee[r]]
      /\ fill = [fill EXCEPT ![r] = fill[r]]
    BY <1>1
\* A fill that only moves on to another step.
<1>7. ASSUME NEW a \in Working, FillGo(r, a), UNCHANGED <<cached, tee, channel, inflight, permits>>,
             fill[r].at \in {"start", "body"},
             a = "attempt" => fill[r].attempt < DOWNLOAD_ATTEMPTS,
             a \in {"attempt", "check"}, a = "check" => fill[r].good /\ fill[r].at = "body"
      PROVE  FillInv'
    <2> DEFINE f == [fill[r] EXCEPT !.at = a]
    <2>1. fill' = [fill EXCEPT ![r] = f]
        BY <1>7
    <2>2. /\ f \in FillRecord /\ f.at = a /\ f.done = fill[r].done /\ f.teed = fill[r].teed
          /\ f.detached = fill[r].detached /\ f.good = fill[r].good /\ f.attempt = fill[r].attempt
        BY <1>1 DEF FillRecord
    <2> HIDE DEF f
    <2>3. Moved(r, f, channel[r], tee[r])
        BY <1>1, <1>3, <1>6, <1>7, <2>1, <2>2 DEF Moved
    <2>4. Onward(r, f, channel[r], tee[r])
        BY <1>2, <1>5, <1>7, <2>2 DEF Onward
    <2> QED
        BY <1>2, <2>3, <2>4, FillMoves
<1>8. CASE FillStart(r)
    <2>1. CASE \E o \in {"nothing", "error"} : EndFill(r, o)
        BY <1>4, <1>8, <2>1 DEF FillStart, Over
    <2>2. CASE FillGo(r, "attempt") /\ UNCHANGED <<channel, inflight, permits>>
        BY <1>5, <1>7, <1>8, <2>2 DEF FillStart, Working
    <2> QED
        BY <1>8, <2>1, <2>2 DEF FillStart
<1>9. CASE Attempt(r)
    <2>1. PICK good \in BOOLEAN :
              fill' = [fill EXCEPT ![r] = [@ EXCEPT !.at = "body", !.attempt = fill[r].attempt + 1, !.good = good]]
        BY <1>9 DEF Attempt
    <2> DEFINE f == [fill[r] EXCEPT !.at = "body", !.attempt = fill[r].attempt + 1, !.good = good]
               n == [attempt |-> fill[r].attempt + 1, open |-> TRUE, written |-> 0,
                     state |-> "Running", dropped |-> FALSE]
               c == IF fill[r].teed THEN n ELSE channel[r]
    <2>2. fill' = [fill EXCEPT ![r] = f]
        BY <2>1
    <2>3. /\ fill[r].attempt \in Nat /\ DOWNLOAD_ATTEMPTS \in Nat
          /\ fill[r].attempt + 1 \in 0..DOWNLOAD_ATTEMPTS /\ fill[r].attempt + 1 \in Nat
        BY <1>1, <1>5, <1>9, ProxyFillAssumption DEF Attempt, FillRecord
    <2>4. /\ f \in FillRecord /\ f.at = "body" /\ f.done = fill[r].done /\ f.teed = fill[r].teed
          /\ f.detached = fill[r].detached /\ f.attempt = fill[r].attempt + 1
        BY <1>1, <2>3 DEF FillRecord, Working
    <2>5. n \in ChannelRecord
        BY <2>3, Shapes DEF ChannelRecord
    <2>6. c \in ChannelRecord /\ c.state # "Verified" /\ (fill[r].teed => c.attempt = fill[r].attempt + 1)
        BY <1>1, <1>5, <1>9, <2>5 DEF Attempt
    <2>7. channel' = [channel EXCEPT ![r] = c] /\ UNCHANGED <<cached, tee, inflight, permits>>
        BY <1>6, <1>9 DEF Attempt, Publish
    <2>8. ~tee[r].verified /\ "body" \in Working
        BY <1>5, <1>9 DEF Attempt, Working
    <2> HIDE DEF f, n, c
    <2>9. Moved(r, f, c, tee[r])
        BY <1>1, <1>3, <1>6, <2>2, <2>4, <2>6, <2>7 DEF Moved
    <2>10. Onward(r, f, c, tee[r])
        BY <1>2, <1>5, <2>4, <2>6, <2>8 DEF Onward
    <2> QED
        BY <1>2, <2>9, <2>10, FillMoves
<1>10. CASE Chunk(r)
    <2> DEFINE c == [channel[r] EXCEPT !.written = channel[r].written + 1]
    <2>1. channel' = [channel EXCEPT ![r] = c] /\ UNCHANGED <<cached, tee, fill, inflight, permits>>
        BY <1>10 DEF Chunk
    <2>2. c \in ChannelRecord /\ c.state = channel[r].state /\ c.attempt = channel[r].attempt
        BY <1>1, <1>10, Shapes DEF ChannelRecord, Chunk
    <2>3. fill[r].at = "body" /\ "body" \in Working
        BY <1>10 DEF Chunk, Working
    <2> HIDE DEF c
    <2>4. Moved(r, fill[r], c, tee[r])
        BY <1>1, <1>3, <1>6, <2>1, <2>2 DEF Moved
    <2>5. Onward(r, fill[r], c, tee[r])
        BY <1>2, <1>5, <2>2, <2>3 DEF Onward
    <2> QED
        BY <1>2, <2>4, <2>5, FillMoves
<1>11. CASE EndBody(r)
    <2>1. CASE fill[r].good /\ FillGo(r, "check") /\ UNCHANGED <<channel, inflight, permits>>
        BY <1>7, <1>11, <2>1 DEF EndBody, Working
    <2>2. CASE /\ fill[r].attempt < DOWNLOAD_ATTEMPTS /\ Publish(r, [channel[r] EXCEPT !.state = "Failed"])
               /\ FillGo(r, "attempt") /\ UNCHANGED <<inflight, permits>>
        <3> DEFINE f == [fill[r] EXCEPT !.at = "attempt"]
                   m == [channel[r] EXCEPT !.state = "Failed"]
                   c == IF fill[r].teed THEN m ELSE channel[r]
        <3>1. fill' = [fill EXCEPT ![r] = f]
            BY <2>2
        <3>2. /\ f \in FillRecord /\ f.at = "attempt" /\ f.done = fill[r].done /\ f.teed = fill[r].teed
              /\ f.detached = fill[r].detached /\ f.attempt = fill[r].attempt
            BY <1>1 DEF FillRecord, Working
        <3>3. m \in ChannelRecord /\ m.state = "Failed"
            BY <1>1 DEF ChannelRecord
        <3>4. channel' = [channel EXCEPT ![r] = c] /\ UNCHANGED <<cached, tee>>
            BY <1>6, <1>11, <2>2 DEF EndBody, Publish
        <3>5. c \in ChannelRecord /\ c.state # "Verified" /\ ~tee[r].verified /\ "attempt" \in Working
            BY <1>1, <1>5, <1>11, <3>3 DEF EndBody, Working
        <3> HIDE DEF f, m, c
        <3>6. Moved(r, f, c, tee[r])
            BY <1>1, <1>3, <1>6, <2>2, <3>1, <3>2, <3>4, <3>5 DEF Moved
        <3>7. Onward(r, f, c, tee[r])
            BY <1>2, <1>5, <2>2, <3>2, <3>5 DEF Onward
        <3> QED
            BY <1>2, <3>6, <3>7, FillMoves
    <2>3. CASE EndFill(r, "error")
        BY <1>4, <1>11, <2>3 DEF EndBody, Over
    <2> QED
        BY <1>11, <2>1, <2>2, <2>3 DEF EndBody
<1>12. CASE Check(r)
    <2>1. CASE /\ Releasable(r) /\ FillGo(r, "put") /\ Publish(r, [channel[r] EXCEPT !.state = "Verified"])
               /\ tee' = [tee EXCEPT ![r].late = refusal] /\ UNCHANGED <<inflight, permits>>
        <3> DEFINE f == [fill[r] EXCEPT !.at = "put"]
                   m == [channel[r] EXCEPT !.state = "Verified"]
                   c == IF fill[r].teed THEN m ELSE channel[r]
                   t == [tee[r] EXCEPT !.late = refusal]
        <3>1. fill' = [fill EXCEPT ![r] = f] /\ tee' = [tee EXCEPT ![r] = t]
            BY <2>1
        <3>2. /\ f \in FillRecord /\ f.at = "put" /\ f.done = fill[r].done /\ f.teed = fill[r].teed
              /\ f.detached = fill[r].detached /\ f.attempt = fill[r].attempt /\ f.good = fill[r].good
            BY <1>1 DEF FillRecord, Working
        <3>3. m \in ChannelRecord /\ m.state = "Verified" /\ m.attempt = channel[r].attempt
            BY <1>1 DEF ChannelRecord
        <3>4. /\ t \in TeeRecord /\ t.sent = tee[r].sent /\ t.verified = tee[r].verified
              /\ t.late = refusal
            BY <1>1 DEF TeeRecord
        <3>5. channel' = [channel EXCEPT ![r] = c] /\ UNCHANGED cached
            BY <1>6, <1>12, <2>1 DEF Check, Publish
        <3>6. /\ fill[r].good /\ ~tee[r].verified /\ channel[r].state # "Verified" /\ "put" \in Working
              /\ fill[r].teed => channel[r].attempt = fill[r].attempt /\ ~refusal
            BY <1>5, <1>12, <2>1 DEF Check, Releasable, Working
        <3>7. /\ c \in ChannelRecord /\ (c.state = "Verified" => fill[r].teed)
              /\ fill[r].teed => c.attempt = channel[r].attempt
            BY <1>1, <3>3, <3>6
        <3> HIDE DEF f, m, c, t
        <3>8. Moved(r, f, c, t)
            BY <1>1, <1>3, <2>1, <3>1, <3>2, <3>4, <3>5, <3>7 DEF Moved
        <3>9. Onward(r, f, c, t)
            BY <1>2, <1>5, <3>2, <3>4, <3>6, <3>7 DEF Onward
        <3> QED
            BY <1>2, <3>8, <3>9, FillMoves
    <2>2. CASE (\E o \in {"nothing", "error"} : EndFill(r, o)) /\ UNCHANGED tee
        BY <1>4, <1>12, <2>2 DEF Check, Over
    <2> QED
        BY <1>12, <2>1, <2>2 DEF Check
<1>13. CASE Put(r)
    <2>1. PICK o \in Over : EndFill(r, o)
        BY <1>13 DEF Put, Over
    <2>2. cached' \in [Generations -> BOOLEAN] /\ Grows /\ UNCHANGED tee
        BY <1>1, <1>3, <1>13 DEF Put, Grows
    <2> QED
        BY <1>2, <1>3, <2>1, <2>2, FillStops
<1> QED
    BY <1>8, <1>9, <1>10, <1>11, <1>12, <1>13 DEF FillStep

-----------------------------------------------------------------------------
(* The environment, the initial states and the theorem.                    *)

LEMMA DisconnectKeeps ==
    ASSUME FillInv, NEW r \in Requests, Disconnect(r)
    PROVE  FillInv'
<1> DEFINE q == [req[r] EXCEPT !.at = "gone"]
<1>1. /\ FillTyped /\ Local(r) /\ req[r] \in ReqRecord /\ fill[r] \in FillRecord
      /\ cached \in [Generations -> BOOLEAN] /\ presence \in [gen : Generations, has : BOOLEAN]
      /\ PresenceHonest
    BY DEF FillInv, FillTyped
<1>2. req' = [req EXCEPT ![r] = q]
    BY DEF Disconnect, ReqGo
<1>3. q \in ReqRecord /\ q.at = "gone" /\ q.gen = req[r].gen /\ q.entry = req[r].entry
    BY <1>1 DEF ReqRecord, Final
<1> HIDE DEF q
<1>4. UNCHANGED <<scene, current, refusal, cached, presence, tee>>
    BY DEF Disconnect, Env
<1>5. CASE DiesWithRequest(r)
    <2>1. Active(r)
        BY <1>1, <1>5 DEF DiesWithRequest, Local, Unstarted, Active, FillRecord
    <2>2. EndFill(r, "cancelled") /\ "cancelled" \in Over
        BY <1>5 DEF Disconnect, Over
    <2> QED
        BY <1>1, <1>2, <1>3, <1>4, <2>1, <2>2, FillEnds DEF Grows
<1>6. CASE ~DiesWithRequest(r)
    <2>1. UNCHANGED <<fill, channel, permits, inflight>>
        BY <1>6 DEF Disconnect, Unfilled
    <2>2. fill[r].at # "none" => q.gen \in Generations
        BY <1>1, <1>3 DEF Local, Pinned
    <2>3. "gone" \notin Before
        BY DEF Before
    <2> QED
        BY <1>1, <1>2, <1>3, <1>4, <2>1, <2>2, <2>3, RequestMoves DEF PresenceHonest
<1> QED
    BY <1>5, <1>6

LEMMA EnvironmentKeeps ==
    ASSUME FillInv, Refuse \/ SwitchGeneration \/ UNCHANGED proxyVars
    PROVE  FillInv'
<1>1. UNCHANGED <<scene, cached, presence, req, fill, channel, tee, inflight, permits>>
    BY DEF Refuse, SwitchGeneration, proxyVars
<1>2. current' \in Generations /\ refusal' \in BOOLEAN
    <2>1. current \in Nat /\ current \in 1..scene.generations /\ refusal \in BOOLEAN /\ scene.generations \in Nat
        BY GenerationsType DEF FillInv, FillTyped, Generations
    <2>2. CASE Refuse \/ UNCHANGED proxyVars
        BY <2>1, <2>2 DEF Refuse, proxyVars, Generations
    <2>3. CASE SwitchGeneration
        BY <2>1, <2>3 DEF SwitchGeneration, Generations
    <2> QED
        BY <2>2, <2>3
<1>3. FillTyped'
    BY <1>1, <1>2 DEF FillInv, FillTyped, Generations
<1>4. \A s \in Requests : Local(s)'
    BY <1>1, OthersKept DEF FillInv, Untouched, Grows
<1>5. OneSlot' /\ Accounted'
    BY <1>1, SlotsKept DEF FillInv
<1>6. PresenceHonest'
    BY <1>1 DEF FillInv, PresenceHonest
<1> QED
    BY <1>3, <1>4, <1>5, <1>6 DEF FillInv

LEMMA FillInitially ==
    ASSUME ProxyInit
    PROVE  FillInv
<1>1. /\ scene.generations \in Nat \ {0} /\ 1 \in Generations /\ MAX_DETACHED_FILLS \in Nat
      /\ DOWNLOAD_ATTEMPTS \in Nat /\ 0 < DOWNLOAD_ATTEMPTS
    BY ProxyFillAssumption DEF ProxyInit, Generations
<1>2. 0 \in Entries /\ Cardinality(Requests) \in Nat
    BY ProxyFillAssumption, FS_CardinalityType DEF Entries
<1>3. \A r \in Requests : /\ req[r] \in ReqRecord /\ req[r].at \in {"new", "gone"}
                          /\ fill[r] = NoFill /\ channel[r] = NoChannel /\ tee[r] = NoTee
    BY <1>2 DEF ProxyInit, ReqRecord, Before, Final
<1>4. FillTyped
    <2>1. cached \in [Generations -> BOOLEAN]
        BY DEF ProxyInit, Generations
    <2>2. req \in [Requests -> ReqRecord]
        BY <1>3 DEF ProxyInit
    <2> QED
        BY <1>1, <1>2, <2>1, <2>2, Shapes DEF ProxyInit, FillTyped
<1>5. \A r \in Requests : Local(r)
    BY <1>1, <1>3, Shapes
       DEF Local, Unstarted, Pinned, Teed, Announced, Followed, NoFill, NoChannel, NoTee, Over, Before
<1>6. \A r \in Requests : ~Active(r) /\ ~ReqAt(r, "queued")
    BY <1>3 DEF Active, NoFill, Working, ReqAt
<1>7. OneSlot
    BY <1>6 DEF OneSlot
<1>8. Detached = {}
    BY <1>6 DEF Detached
<1>9. Accounted
    BY <1>1, <1>8, FS_EmptySet DEF Accounted, ProxyInit
<1> QED
    BY <1>4, <1>5, <1>7, <1>9 DEF FillInv, PresenceHonest, ProxyInit

LEMMA FillInvSafe ==
    ASSUME FillInv
    PROVE  FillSafe
<1>1. /\ FillTyped /\ OneSlot /\ Accounted /\ PresenceHonest /\ \A r \in Requests : Local(r)
    BY DEF FillInv
<1>2. \A r \in Requests : (fill[r].at # "none" /\ ~fill[r].done) <=> Active(r)
    BY <1>1 DEF FillTyped, FillRecord, Local, Unstarted, Active, Working, Over
<1>3. ProxyTypeOK
    <2>1. {r \in Requests : fill[r].at # "none" /\ ~fill[r].done /\ fill[r].detached} = Detached
        BY <1>2 DEF Detached
    <2>2. \A r \in Requests : fill[r].attempt \in 0..DOWNLOAD_ATTEMPTS /\ tee[r].sent \in 0..DeclaredSize
        BY <1>1 DEF FillTyped, FillRecord, TeeRecord
    <2> QED
        BY <1>1, <2>1, <2>2 DEF ProxyTypeOK, FillTyped, Entries, Generations, Accounted
<1>4. OneFillAtATime
    <2> DEFINE A == {r \in Requests : fill[r].at # "none" /\ ~fill[r].done}
    <2>1. \A r, s \in A : r = s
        BY <1>1, <1>2 DEF OneSlot
    <2>2. CASE A = {}
        BY <2>2, FS_EmptySet DEF OneFillAtATime
    <2>3. CASE A # {}
        <3>1. PICK r \in A : TRUE
            BY <2>3
        <3>2. A = {r}
            BY <2>1, <3>1
        <3>3. Cardinality(A) = 1
            BY <3>2, FS_Singleton
        <3> QED
            BY <3>3 DEF OneFillAtATime
    <2> QED
        BY <2>2, <2>3
<1>5. TeedBodyVerified
    <2> SUFFICES ASSUME NEW r \in Requests, tee[r].sent = DeclaredSize
                 PROVE  fill[r].good /\ fill[r].attempt = tee[r].attempt /\ channel[r].state = "Verified"
        BY DEF TeedBodyVerified
    <2>1. tee[r].sent > DeclaredSize - TEE_HOLDBACK
        BY Shapes
    <2>2. tee[r].verified
        BY <1>1, <2>1 DEF Local, Followed
    <2> QED
        BY <1>1, <2>2 DEF Local, Followed, Announced
<1>6. TeedPassesGate
    BY <1>1 DEF TeedPassesGate, Local, Teed, ReqAt
<1> QED
    BY <1>1, <1>3, <1>4, <1>5, <1>6 DEF FillSafe

\* proxy.rs: through failed attempts, hang-ups, refusals and switches of the
\* generation there is one fill of a file at a time and no permit is lost; a
\* teed body is complete only with verified bytes and no refusal before its
\* tail; the presence cache answers only for the bucket it asked.
THEOREM FillSafeHolds == ProxySpec => []FillSafe
<1>1. ProxyInit => FillInv
    BY FillInitially
<1>2. FillInv /\ [ProxyNext]_proxyVars => FillInv'
    <2> SUFFICES ASSUME FillInv, [ProxyNext]_proxyVars
                 PROVE  FillInv'
        OBVIOUS
    <2>1. ASSUME NEW r \in Requests, RequestStep(r) \/ FillStep(r) \/ Disconnect(r)
          PROVE  FillInv'
        BY <2>1, RequestStepsKeep, SlotStepsKeep, TeeStepsKeep, FillStepsKeep, DisconnectKeeps DEF RequestStep
    <2> QED
        BY <2>1, EnvironmentKeeps DEF ProxyNext
<1>3. FillInv => FillSafe
    BY FillInvSafe
<1> QED
    BY <1>1, <1>2, <1>3, PTL DEF ProxySpec

=============================================================================
