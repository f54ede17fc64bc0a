---------------------------- MODULE SidecarEdits ----------------------------
(***************************************************************************)
(* Metadata edits of a published file (publish.rs edit_sidecar): yank,      *)
(* unyank and the repair of an upload time.  An edit is a bounded            *)
(* compare-and-set loop over the sidecar, bracketed by an intent and a       *)
(* commit marker, checked against the record's fences before and after the   *)
(* write, and fanned out to the other buckets.  It races other edits, a      *)
(* delete, a freeze and a replication repair (supersede) of the same file,   *)
(* any of its requests may fail, and its client may go away.                 *)
(*                                                                         *)
(* The probes of one check_editable run concurrently in the code and are     *)
(* one step here.  One merge of the record into the peers (replicate_record)  *)
(* is one step too; a fan-out that misses a peer leaves a repair note, which   *)
(* the sweep pays.                                                            *)
(***************************************************************************)
EXTENDS Naturals, FiniteSets

CONSTANTS
    Editors,        \* edit requests
    Plays,          \* the situations explored: buckets, origin, edits, rival
    EditTries,      \* 8 in edit_sidecar
    MaxSlips,       \* bound: failed storage requests and departed clients
    Missed          \* not a value of anything

VARIABLES
    play,       \* the situation of this behaviour
    sidecar,    \* the stored sidecar, or Missed
    marks,      \* fences on the record
    claimed,    \* the package's origin claim
    rival,      \* progress of the delete, freeze or supersede
    edit,       \* what each edit request is doing
    dirty,      \* a commit marker the worker has not consumed
    shown,      \* the yank and date the package index shows
    carried,    \* the revisions last carried to the peers
    notes,      \* the requests whose repair note (_repl/) stands
    sweep,      \* the sweep of the notes: [phase, took]
    slips       \* faults so far

editVars == <<play, sidecar, marks, claimed, rival, edit, dirty, shown, carried, notes, sweep, slips>>

Face(sc) == IF sc = Missed THEN Missed ELSE [yanked |-> sc.yanked, time |-> sc.time]

Fences == {"deleted", "frozen", "superseding"}

(* replicate::listed over the record the edit holds, and the stored claim. *)
Listed(sc) ==
    /\ marks \cap {"deleted", "frozen"} = {}
    /\ ~(sc.origin = "mirror" /\ claimed = "private")

(* A date's repair names the sha of the file it is about. *)
Asked == "published"

(* edit_refusal, and the sha comparison of a date's repair. *)
Editable(sc, e) ==
    /\ Listed(sc)
    /\ "superseding" \notin marks
    /\ play.edits[e].kind = "time" => sc.origin = "private" /\ claimed = "private" /\ sc.sha = Asked

Wanted(sc, e) ==
    LET w == play.edits[e]
    IN  IF w.kind = "yank" THEN sc.yanked = w.to ELSE sc.time = w.to

(* The edited sidecar: whichever field the edit is about, and its revision.
   `by` is the history of the edits it still carries. *)
Edited(sc, e) ==
    IF play.edits[e].kind = "yank"
    THEN [sc EXCEPT !.yanked = play.edits[e].to, !.yankEpoch = @ + 1, !.by = @ \cup {e}]
    ELSE [sc EXCEPT !.time = play.edits[e].to, !.timeRevision = @ + 1, !.by = @ \cup {e}]

Revisions(sc) == [yank |-> sc.yankEpoch, time |-> sc.timeRevision]

Slip == slips < MaxSlips /\ slips' = slips + 1

To(e, ph) == edit' = [edit EXCEPT ![e].phase = ph]

Keep == UNCHANGED <<play, claimed, rival, marks>>

(* The request begins; with several buckets the intent must open first. *)
Open(e) ==
    /\ edit[e].phase = "new"
    /\ \/ /\ edit' = [edit EXCEPT ![e].phase = "read", ![e].intent = play.multi]
          /\ slips' = slips
       \/ /\ play.multi /\ Slip
          /\ To(e, "failed")
    /\ Keep /\ UNCHANGED <<sidecar, dirty, shown, carried, notes, sweep>>

(* One attempt reads the sidecar; out of attempts, or without one, it refuses. *)
Read(e) ==
    /\ edit[e].phase = "read"
    /\ \/ /\ edit[e].tries = EditTries \/ sidecar = Missed
          /\ To(e, "refuse") /\ slips' = slips
       \/ /\ edit[e].tries < EditTries /\ sidecar # Missed
          /\ edit' = [edit EXCEPT ![e].phase = "check", ![e].seen = sidecar,
                                  ![e].tries = @ + 1]
          /\ slips' = slips
       \/ Slip /\ To(e, "refuse")
    /\ Keep /\ UNCHANGED <<sidecar, dirty, shown, carried, notes, sweep>>

(* An edit that already stands is not written again, but with several buckets
   (and for a date) it is still fanned out: the first try may have died first. *)
Unchanged(e) == IF play.edits[e].kind = "yank" /\ ~play.multi THEN "done" ELSE "commit"

(* check_editable before the write; the single-bucket intent opens here, best
   effort. *)
OpenBestEffort(e) == TRUE

Check(e) ==
    /\ edit[e].phase = "check"
    /\ \/ /\ ~Editable(edit[e].seen, e)
          /\ To(e, "refuse") /\ slips' = slips
       \/ /\ Editable(edit[e].seen, e) /\ Wanted(edit[e].seen, e)
          /\ To(e, Unchanged(e)) /\ slips' = slips
       \/ /\ Editable(edit[e].seen, e) /\ ~Wanted(edit[e].seen, e)
          /\ \/ /\ edit' = [edit EXCEPT ![e].phase = "put", ![e].intent = OpenBestEffort(e)]
                /\ slips' = slips
             \/ ~edit[e].intent /\ Slip /\ To(e, "put")
       \/ Slip /\ To(e, "refuse")
    /\ Keep /\ UNCHANGED <<sidecar, dirty, shown, carried, notes, sweep>>

(* put_if_match succeeds only over the very object that was read. *)
BlindPut(e) == sidecar # Missed
Unraced(e) == sidecar = edit[e].seen

Put(e) ==
    LET out == Edited(edit[e].seen, e) IN
    /\ edit[e].phase = "put"
    /\ \/ /\ Unraced(e)
          /\ sidecar' = out
          /\ edit' = [edit EXCEPT ![e].phase = "recheck", ![e].seen = out,
                                  ![e].fenced = marks \cap {"deleted", "frozen"} # {}]
          /\ slips' = slips
       \/ /\ ~Unraced(e)
          /\ To(e, "read") /\ sidecar' = sidecar /\ slips' = slips
       \/ /\ Slip /\ To(e, "refuse")
          /\ sidecar' \in {sidecar} \cup (IF Unraced(e) THEN {out} ELSE {})
    /\ Keep /\ UNCHANGED <<dirty, shown, carried, notes, sweep>>

(* The fences no sidecar CAS covers are read again: a refusal is final, an
   unreadable one is not. *)
SkipRecheck(e) == TRUE
StillEditable(e) == Editable(edit[e].seen, e)

Recheck(e) ==
    /\ edit[e].phase = "recheck"
    /\ \/ /\ StillEditable(e)
          /\ edit' = [edit EXCEPT ![e].phase = "commit", ![e].cleared = TRUE]
          /\ slips' = slips
       \/ ~StillEditable(e) /\ To(e, "refuse") /\ slips' = slips
       \/ Slip /\ To(e, "commit")
    /\ Keep /\ UNCHANGED <<sidecar, dirty, shown, carried, notes, sweep>>

(* Intent::commit or commit_marker: the index is told, and the intent closed;
   a failure is only logged, and the intent outlives the request. *)
Mark(e, next) ==
    \/ /\ edit' = [edit EXCEPT ![e].phase = next, ![e].intent = FALSE]
       /\ dirty' = TRUE /\ slips' = slips
    \/ Slip /\ To(e, next) /\ dirty' = dirty

Commit(e) ==
    /\ edit[e].phase = "commit"
    /\ Mark(e, IF play.multi THEN "fanout" ELSE "done")
    /\ Keep /\ UNCHANGED <<sidecar, shown, carried, notes, sweep>>

(* A refusal still closes the intent it opened. *)
Refuse(e) ==
    /\ edit[e].phase = "refuse"
    /\ IF edit[e].intent THEN Mark(e, "failed")
       ELSE To(e, "failed") /\ UNCHANGED <<dirty, slips>>
    /\ Keep /\ UNCHANGED <<sidecar, shown, carried, notes, sweep>>

Carries == carried' = IF sidecar = Missed THEN carried ELSE Revisions(sidecar)

(* fanout_sync carries what is stored.  A peer that is down, slow or declines gets
   a note instead, and the edit is acknowledged all the same; only a note that
   cannot be written fails the request. *)
LeaveNote(e) == notes' = notes \cup {e}

Fanout(e) ==
    /\ edit[e].phase = "fanout"
    /\ \/ To(e, "done") /\ Carries /\ UNCHANGED <<notes, slips>>
       \/ Slip /\ To(e, "done") /\ LeaveNote(e) /\ UNCHANGED carried
       \/ Slip /\ To(e, "failed") /\ UNCHANGED <<carried, notes>>
    /\ Keep /\ UNCHANGED <<sidecar, dirty, shown, sweep>>

(* sweep_bucket_markers: the notes are listed, the record is merged, and the notes
   that were listed go; each has a nonce of its own. *)
SweepList ==
    /\ sweep.phase = "idle" /\ notes # {}
    /\ sweep' = [phase |-> "merge", took |-> notes]
    /\ Keep /\ UNCHANGED <<sidecar, edit, dirty, shown, carried, notes, slips>>

SweepMerge ==
    /\ sweep.phase = "merge"
    /\ \/ Carries /\ sweep' = [sweep EXCEPT !.phase = "drop"] /\ slips' = slips
       \/ Slip /\ sweep' = [phase |-> "idle", took |-> {}] /\ UNCHANGED carried
    /\ Keep /\ UNCHANGED <<sidecar, edit, dirty, shown, notes>>

Paid == notes \ sweep.took

SweepDrop ==
    /\ sweep.phase = "drop"
    /\ notes' = Paid /\ sweep' = [phase |-> "idle", took |-> {}]
    /\ Keep /\ UNCHANGED <<sidecar, edit, dirty, shown, carried, slips>>

Sweeps == SweepList \/ SweepMerge \/ SweepDrop

(* The client goes away: the request is dropped where it awaits, and the drop
   of an open intent closes it. *)
Dropped(e) ==
    /\ edit[e].phase \notin {"new", "done", "failed"}
    /\ Slip
    /\ edit' = [edit EXCEPT ![e].phase = "failed", ![e].intent = FALSE]
    /\ dirty' = (dirty \/ edit[e].intent)
    /\ Keep /\ UNCHANGED <<sidecar, shown, carried, notes, sweep>>

(* The client of a failed edit asks again. *)
Again(e) ==
    /\ edit[e].phase = "failed" /\ edit[e].asks = 0
    /\ edit' = [edit EXCEPT ![e] = [@ EXCEPT !.phase = "new", !.asks = 1, !.tries = 0]]
    /\ Keep /\ UNCHANGED <<sidecar, dirty, shown, carried, notes, sweep, slips>>

(* The rivals.  A delete or a freeze raises its fence and then moves the record
   aside; a supersede of a mirror record, or of a private one by an earlier upload
   of other bytes, makes the claim private, declares itself, installs the winner's
   sidecar over what it reads, and withdraws. *)
Begin ==
    /\ play.rival \in {"deleted", "frozen"} /\ rival = "idle"
    /\ marks' = marks \cup {play.rival} /\ rival' = "fenced"
    /\ UNCHANGED <<claimed, sidecar, dirty>>

Remove ==
    /\ rival = "fenced"
    /\ sidecar' = Missed /\ rival' = "over" /\ dirty' = TRUE
    /\ UNCHANGED <<claimed, marks>>

Claim ==
    /\ play.rival = "supersede" /\ rival = "idle"
    /\ claimed' = "private" /\ rival' = "claimed"
    /\ UNCHANGED <<marks, sidecar, dirty>>

Declare ==
    /\ rival = "claimed"
    /\ marks' = marks \cup {"superseding"} /\ rival' = "declared"
    /\ UNCHANGED <<claimed, sidecar, dirty>>

Winner == [origin |-> "private", sha |-> "winner", yanked |-> FALSE, time |-> 9, yankEpoch |-> 0,
           timeRevision |-> 0, by |-> {}]

Install ==
    /\ rival = "declared"
    /\ sidecar' = Winner /\ rival' = "installed"
    /\ UNCHANGED <<claimed, marks, dirty>>

Withdraw ==
    /\ rival = "installed"
    /\ marks' = marks \ {"superseding"} /\ rival' = "over" /\ dirty' = TRUE
    /\ UNCHANGED <<claimed, sidecar>>

Rival ==
    /\ Begin \/ Remove \/ Claim \/ Declare \/ Install \/ Withdraw
    /\ UNCHANGED <<play, edit, shown, carried, notes, sweep, slips>>

(* The worker rebuilds the package index from the sidecar once no request's
   intent defers it; an intent its owner left behind defers it only for the
   intent grace. *)
Deferred == \E e \in Editors : edit[e].intent /\ edit[e].phase \notin {"done", "failed"}

Leftover == {e \in Editors : edit[e].intent /\ edit[e].phase \in {"done", "failed"}}

Rebuild ==
    /\ dirty \/ Leftover # {}
    /\ ~Deferred
    /\ shown' = Face(sidecar) /\ dirty' = FALSE
    /\ edit' = [e \in Editors |-> IF e \in Leftover THEN [edit[e] EXCEPT !.intent = FALSE]
                                  ELSE edit[e]]
    /\ Keep /\ UNCHANGED <<sidecar, carried, notes, sweep, slips>>

EditsInit ==
    /\ play \in Plays
    /\ sidecar = [origin |-> play.origin, sha |-> Asked, yanked |-> FALSE, time |-> 0,
                  yankEpoch |-> 0, timeRevision |-> 0, by |-> {}]
    /\ marks = {}
    /\ claimed = play.origin
    /\ rival = "idle"
    /\ edit = [e \in Editors |->
                [phase |-> IF e \in DOMAIN play.edits THEN "new" ELSE "done", seen |-> Missed,
                 tries |-> 0, asks |-> 0, intent |-> FALSE, fenced |-> FALSE,
                 cleared |-> FALSE]]
    /\ dirty = FALSE
    /\ shown = Face(sidecar)
    /\ carried = [yank |-> 0, time |-> 0]
    /\ notes = {} /\ sweep = [phase |-> "idle", took |-> {}]
    /\ slips = 0

Request(e) == \/ Open(e) \/ Read(e) \/ Check(e) \/ Put(e) \/ Recheck(e) \/ Commit(e)
              \/ Refuse(e) \/ Fanout(e)

EditsNext ==
    \/ \E e \in Editors : Request(e) \/ Dropped(e) \/ Again(e)
    \/ Rival
    \/ Sweeps
    \/ Rebuild

EditsFairness ==
    /\ \A e \in Editors : WF_editVars(Request(e))
    /\ WF_editVars(Rival)
    /\ WF_editVars(Rebuild)

EditsSpec == EditsInit /\ [][EditsNext]_editVars /\ EditsFairness

-----------------------------------------------------------------------------
Phases == {"new", "read", "check", "put", "recheck", "commit", "refuse", "fanout",
           "done", "failed"}

(* Every edit a sidecar carries has advanced one of its revisions. *)
EditsTypeOK ==
    /\ play \in Plays
    /\ marks \subseteq Fences
    /\ \A e \in Editors : /\ edit[e].phase \in Phases
                          /\ edit[e].tries \in 0..EditTries
                          /\ edit[e].intent \in BOOLEAN
    /\ sidecar # Missed =>
        /\ sidecar.by \subseteq Editors
        /\ Cardinality(sidecar.by) <= sidecar.yankEpoch + sidecar.timeRevision
    /\ slips \in 0..MaxSlips

(* edit_sidecar "consume the observed sidecar with CAS": a landed change is lost
   to no other edit.  Every edit a sidecar once carried is still in its history
   unless a rival replaced the whole record, and each revision counts exactly
   the changes of its own field. *)
NoLostEdit ==
    [][sidecar # Missed /\ sidecar' # Missed /\ sidecar'.sha = sidecar.sha =>
        /\ sidecar.by \subseteq sidecar'.by
        /\ (sidecar'.yanked # sidecar.yanked) => sidecar'.yankEpoch = sidecar.yankEpoch + 1
        /\ (sidecar'.time # sidecar.time) => sidecar'.timeRevision = sidecar.timeRevision + 1
      ]_<<sidecar>>

(* "a delete or freeze that landed since the check above must not be acked - or
   fanned out - as a successful edit": an edit whose write landed over a fence is
   acknowledged only if its second check could not be read. *)
FencedNotAcked ==
    \A e \in Editors : edit[e].cleared => ~edit[e].fenced

(* An edit that passes its second check is in the sidecar at that moment, even
   when a supersede of a mirror record replaced it and withdrew between write and
   check.  A private record superseded by another private one leaves no trace that
   the second check reads: that edit is acknowledged though the record it edited is
   gone, as one that came just before the supersede is (replicate.rs
   supersede_record, publish.rs check_editable). *)
ClearedStands ==
    [][\A e \in Editors :
            (edit'[e].cleared /\ ~edit[e].cleared /\ sidecar # Missed)
                => \/ e \in sidecar.by
                   \/ edit[e].seen.origin = "private" /\ sidecar.sha # edit[e].seen.sha]_editVars

(* "Retrying an edit that already landed here must still heal replication": with
   several buckets, an acknowledged edit's revision has been carried to the peers,
   or a repair note still stands that owes it to them, whichever fan-outs failed and
   whichever notes the sweep has taken (replicate.rs fanout_sync). *)
AckedCarried ==
    \A e \in Editors :
        (play.multi /\ play.rival = "none" /\ edit[e].phase = "done") =>
            \/ notes # {}
            \/ /\ carried.yank >= edit[e].seen.yankEpoch
               /\ carried.time >= edit[e].seen.timeRevision
=============================================================================
