--------------------------- MODULE UploadHandler ---------------------------
(***************************************************************************)
(* The upload endpoint (publish.rs legacy_upload, upload.rs) and the client *)
(* of `sync --to` that retries against it (sync.rs upload_via_http): reading *)
(* the form part by part into a spool file, the checks a form has to pass,  *)
(* the queue for write memory, the answer, and what is left of the spools   *)
(* when a request ends, is dropped, or dies with its process.               *)
(*                                                                         *)
(* The storage protocol behind a form (publish_record) is one step here; it *)
(* has modules of its own.  All uploads are of one file.  Sizes are small    *)
(* units; a form is a sequence of parts, in the order the client sends them. *)
(***************************************************************************)
EXTENDS Naturals, Sequences, FiniteSets, FiniteSetsExt, SequencesExt

CONSTANTS Uploads,         \* the requests of a run
          Casts,           \* who sends what: a set of functions of Uploads
          BodyLimit, AdminBodyLimit, MaxFields, Attempts,
          Threshold, Footprint, Budget, ParseSlots,
          Deadline, StaleAge,
          MaxFaults,       \* bound: crashes, hang-ups, failures, expired tokens
          Nothing          \* no spool, no value

VARIABLES cast,    \* cast[u]: the credential, parts, size and flaw of an upload
          form,    \* form[u]: the request as the server sees it
          stored,  \* what the bucket holds of the file, or Nothing
          hold,    \* why the bucket refuses the file: "none", "fenced", "claimed"
          queue,   \* uploads waiting for write memory, first come first served
          leaked,  \* ages of the spool files a crash left behind
          lapsed,  \* uploads whose credential has expired since they were sent
          booting, \* has the process just started?
          hour,    \* is the reaper's hourly run due?
          faults

uploadVars == <<cast, form, stored, hold, queue, leaked, lapsed, booting, hour, faults>>

Fields == {"mirror", "migration", "upload_time", "yanked", "attestations", "name"}
Phases == {"idle", "body", "writing", "parsing", "parsed", "queue", "store", "late",
           "answered", "done"}

(* A request that holds nothing. *)
Fresh == [phase |-> "idle", admin |-> FALSE, limit |-> 0, todo |-> <<>>, read |-> 0,
          fields |-> [f \in Fields |-> Nothing], spool |-> Nothing, writing |-> Nothing,
          tries |-> 0, answer |-> Nothing, told |-> Nothing]

Set(u, rec) == form' = [form EXCEPT ![u] = rec]

(* A request that ends drops its spools; the answer goes to the client. *)
Ended(u, answer) == [Fresh EXCEPT !.phase = "answered", !.answer = answer,
                                  !.tries = form[u].tries, !.admin = form[u].admin]

Given(u, field) == form[u].fields[field] # Nothing
IsTrue(u, field) == form[u].fields[field] = "true"
Mirror(u) == IsTrue(u, "mirror")
Migration(u) == IsTrue(u, "migration")

IsAdmin(u) == cast[u].cred = "admin" /\ u \notin lapsed
IsUploader(u) == cast[u].cred \in {"admin", "uploader"} /\ u \notin lapsed

-----------------------------------------------------------------------------
(* Sent: rights and declared length are judged before the body is read. *)
Send(u, declared) ==
    /\ form[u].phase = "idle" /\ form[u].tries < Attempts /\ form[u].told = Nothing
    /\ LET limit == IF IsAdmin(u) THEN AdminBodyLimit ELSE BodyLimit
           sent == [form[u] EXCEPT !.tries = @ + 1, !.admin = IsAdmin(u)]
       IN  Set(u, IF ~IsUploader(u) \/ (declared /\ cast[u].size > limit)
                  THEN [sent EXCEPT !.phase = "answered", !.answer = "refused"]
                  ELSE [sent EXCEPT !.phase = "body", !.limit = limit,
                                    !.todo = cast[u].parts])
    /\ UNCHANGED <<cast, stored, hold, queue, leaked, lapsed, booting, hour, faults>>

(* The next part is the file: a second one replaces the first once it is whole. *)
ReadContent(u) ==
    /\ form[u].phase = "body" /\ form[u].todo # <<>>
    /\ Head(form[u].todo).field = "content"
    /\ Set(u, [form[u] EXCEPT !.phase = "writing", !.writing = 0])
    /\ UNCHANGED <<cast, stored, hold, queue, leaked, lapsed, booting, hour, faults>>

Finish(u) ==
    /\ form[u].phase = "writing"
    /\ LET read == form[u].read + cast[u].size IN
       Set(u, IF read > form[u].limit THEN Ended(u, "refused")
              ELSE [form[u] EXCEPT !.phase = "body", !.todo = Tail(@), !.read = read,
                                   !.spool = form[u].writing, !.writing = Nothing])
    /\ UNCHANGED <<cast, stored, hold, queue, leaked, lapsed, booting, hour, faults>>

(* Any other part is a metadata field: empty and undecodable ones are ignored,
   a repeated one replaces its value, and the parts are bounded. *)
Named(u) == {f \in Fields : Given(u, f)}
ReadField(u) ==
    /\ form[u].phase = "body" /\ form[u].todo # <<>>
    /\ LET part == Head(form[u].todo)
           kept == part.value \notin {"empty", "binary"}
       IN  /\ part.field # "content"
           /\ Set(u, IF part.value = "huge"
                        \/ (kept /\ ~Given(u, part.field) /\ Cardinality(Named(u)) >= MaxFields)
                     THEN Ended(u, "refused")
                     ELSE [form[u] EXCEPT !.todo = Tail(@),
                              !.fields[part.field] = IF kept THEN part.value ELSE @])
    /\ UNCHANGED <<cast, stored, hold, queue, leaked, lapsed, booting, hour, faults>>

-----------------------------------------------------------------------------
(* The whole form is in: filename and project, then the wheel's directory. *)
Misnamed(u) ==
    \/ form[u].spool = Nothing
    \/ cast[u].flaw = "filename"
    \/ cast[u].flaw = "name" /\ ~Mirror(u)

Parsing == {u \in Uploads : form[u].phase = "parsing"}
Parse(u) ==
    /\ form[u].phase = "body" /\ form[u].todo = <<>>
    /\ \/ Misnamed(u) /\ Set(u, Ended(u, "refused"))
       \/ ~Misnamed(u) /\ Cardinality(Parsing) < ParseSlots
          /\ Set(u, [form[u] EXCEPT !.phase = "parsing"])
    /\ UNCHANGED <<cast, stored, hold, queue, leaked, lapsed, booting, hour, faults>>

Parsed(u) ==
    /\ form[u].phase = "parsing"
    /\ Set(u, [form[u] EXCEPT !.phase = "parsed"])
    /\ UNCHANGED <<cast, stored, hold, queue, leaked, lapsed, booting, hour, faults>>

(* What only an admin may claim.  The credential was judged before the body was
   read; a migration asks for it again. *)
MirrorOnly(u) == Mirror(u) /\ ~form[u].admin
Unprivileged(u) ==
    \/ Migration(u) /\ (~IsAdmin(u) \/ Mirror(u))
    \/ Mirror(u) /\ ~form[u].admin
    \/ ~Mirror(u) /\ ((~Migration(u) /\ Given(u, "upload_time")) \/ Given(u, "yanked"))

Unacceptable(u) ==
    \/ cast[u].flaw \in {"digest", "version"}
    \/ ~Mirror(u) /\ (Given(u, "attestations") \/ cast[u].flaw = "legacy")
    \/ ~Mirror(u) /\ ~Migration(u) /\ cast[u].flaw = "wheel"
    \/ cast[u].flaw = "time" /\ Given(u, "upload_time")

Judge(u) ==
    /\ form[u].phase = "parsed"
    /\ IF Unprivileged(u) \/ Unacceptable(u)
       THEN Set(u, Ended(u, "refused")) /\ UNCHANGED queue
       ELSE /\ Set(u, [form[u] EXCEPT !.phase = "queue"])
            /\ queue' = Append(queue, u)
    /\ UNCHANGED <<cast, stored, hold, leaked, lapsed, booting, hour, faults>>

-----------------------------------------------------------------------------
(* A write holds its footprint in memory: the body, or the multipart window. *)
artifact_write_weight(size) ==
    Max({1, IF size <= Threshold THEN size ELSE Footprint})

Held == MapThenSumSet(LAMBDA u : artifact_write_weight(cast[u].size),
                      {u \in Uploads : form[u].phase = "store"})

Acquire(u) ==
    /\ queue # <<>> /\ Head(queue) = u
    /\ Held + artifact_write_weight(cast[u].size) <= Budget
    /\ queue' = Tail(queue)
    /\ Set(u, [form[u] EXCEPT !.phase = "store"])
    /\ UNCHANGED <<cast, stored, hold, leaked, lapsed, booting, hour, faults>>

(* publish_record: stored and acked, stored but its replication gap not
   recorded, left as bytes without a sidecar (the sidecar's put or the fence's
   HEAD failed behind the create), refused, or failed before the bytes stood. *)
Record(u) == [mirror |-> Mirror(u), migration |-> Migration(u), by |-> form[u].admin,
              backdated |-> Given(u, "upload_time"),
              yanked |-> Mirror(u) /\ IsTrue(u, "yanked"), bare |-> FALSE]
Bytes(u) == [mirror |-> FALSE, migration |-> FALSE, by |-> form[u].admin,
             backdated |-> FALSE, yanked |-> FALSE, bare |-> TRUE]

StoreFile(u) ==
    /\ form[u].phase = "store"
    /\ \/ /\ stored = Nothing /\ hold = "none"
          /\ stored' = Record(u)
          /\ \/ Set(u, [form[u] EXCEPT !.phase = "late"]) /\ UNCHANGED faults
             \/ faults < MaxFaults /\ faults' = faults + 1 /\ Set(u, Ended(u, "unavailable"))
       \/ /\ stored = Nothing /\ hold = "none" /\ faults < MaxFaults
          /\ stored' = Bytes(u) /\ faults' = faults + 1 /\ Set(u, Ended(u, "unavailable"))
       \/ /\ stored # Nothing
          /\ Set(u, Ended(u, "exists")) /\ UNCHANGED <<stored, faults>>
       \/ /\ stored = Nothing /\ hold # "none"
          /\ Set(u, Ended(u, hold)) /\ UNCHANGED <<stored, faults>>
       \/ /\ faults < MaxFaults /\ faults' = faults + 1
          /\ Set(u, Ended(u, "unavailable")) /\ UNCHANGED stored
    /\ UNCHANGED <<cast, hold, queue, leaked, lapsed, booting, hour>>

(* The next rebuild describes bytes that stand without a sidecar. *)
Backfill ==
    /\ stored # Nothing /\ stored.bare
    /\ stored' = [stored EXCEPT !.bare = FALSE]
    /\ UNCHANGED <<cast, form, hold, queue, leaked, lapsed, booting, hour, faults>>

(* wait_for_index_visibility: the index shows the file, or the wait gives up. *)
Visible(u) ==
    /\ form[u].phase = "late"
    /\ Set(u, Ended(u, "ok"))
    /\ UNCHANGED <<cast, stored, hold, queue, leaked, lapsed, booting, hour, faults>>

-----------------------------------------------------------------------------
(* The client.  `sync` retries what may pass and tells two conflicts apart. *)
upload_conflict(answer) ==
    CASE answer = "exists" -> "present"
      [] answer = "fenced" -> "skipped"
      [] OTHER             -> Nothing

Told(u, answer) ==
    CASE answer = "ok" -> "landed"
      [] answer \in {"exists", "fenced", "claimed"} ->
            IF upload_conflict(answer) = Nothing THEN "failed" ELSE upload_conflict(answer)
      [] answer = "refused" -> "failed"
      [] OTHER -> IF form[u].tries = Attempts THEN "failed" ELSE Nothing

Hear(u) ==
    /\ form[u].phase = "answered"
    /\ Set(u, [Fresh EXCEPT !.phase = IF Told(u, form[u].answer) = Nothing THEN "idle" ELSE "done",
                            !.tries = form[u].tries, !.told = Told(u, form[u].answer)])
    /\ UNCHANGED <<cast, stored, hold, queue, leaked, lapsed, booting, hour, faults>>

(* The connection breaks, or the request runs out of time: the handler is
   dropped where it stands, its spools and permits with it. *)
Underway(u) == form[u].phase \notin {"idle", "answered", "done"}
HangUp(u) ==
    /\ Underway(u) /\ faults < MaxFaults /\ faults' = faults + 1
    /\ Set(u, Ended(u, "lost"))
    /\ queue' = SelectSeq(queue, LAMBDA v : v # u)
    /\ UNCHANGED <<cast, stored, hold, leaked, lapsed, booting, hour>>

(* A token may expire or be revoked while its request is underway. *)
Lapse(u) ==
    /\ u \notin lapsed /\ faults < MaxFaults /\ faults' = faults + 1
    /\ lapsed' = lapsed \cup {u}
    /\ UNCHANGED <<cast, form, stored, hold, queue, leaked, booting, hour>>

(* The process dies: every request is cut off and its spools stay behind. *)
Kept(u) == {form[u].spool, form[u].writing} \ {Nothing}
Crash ==
    /\ faults < MaxFaults /\ faults' = faults + 1
    /\ leaked' = leaked \cup UNION {Kept(u) : u \in {v \in Uploads : Underway(v)}}
    /\ form' = [u \in Uploads |-> IF Underway(u) THEN Ended(u, "lost") ELSE form[u]]
    /\ queue' = <<>> /\ booting' = TRUE /\ hour' = FALSE
    /\ UNCHANGED <<cast, stored, hold, lapsed>>

(* The reaper takes old spools, whoever owns them: at boot, and every hour. *)
AnyAge(age) == TRUE
Reapable(age) == age > StaleAge
ReapDue == booting \/ hour
Reap ==
    /\ ReapDue
    /\ booting' = FALSE /\ hour' = FALSE
    /\ leaked' = {age \in leaked : ~Reapable(age)}
    /\ form' = [u \in Uploads |-> [form[u] EXCEPT
                    !.spool = IF @ # Nothing /\ Reapable(@) THEN Nothing ELSE @,
                    !.writing = IF @ # Nothing /\ Reapable(@) THEN Nothing ELSE @]]
    /\ UNCHANGED <<cast, stored, hold, queue, lapsed, faults>>

(* Time passes.  A request is cut off at its deadline (an hour, app.rs), so no spool of
   a live one ages past it: what keeps the reaper (a day, upload.rs) away from them. *)
Older(age) == IF age = Nothing THEN Nothing ELSE IF age > StaleAge THEN age ELSE age + 1
Pass ==
    /\ ~ReapDue
    /\ \A u \in Uploads : \A age \in Kept(u) : age < Deadline
    /\ hour' = TRUE
    /\ leaked' = {Older(age) : age \in leaked}
    /\ form' = [u \in Uploads |-> [form[u] EXCEPT !.spool = Older(@), !.writing = Older(@)]]
    /\ UNCHANGED <<cast, stored, hold, queue, lapsed, booting, faults>>

UploadInit ==
    /\ cast \in Casts
    /\ form = [u \in Uploads |-> Fresh]
    /\ stored = Nothing /\ hold \in {"none", "fenced", "claimed"}
    /\ queue = <<>> /\ leaked = {} /\ lapsed = {}
    /\ booting = TRUE /\ hour = FALSE /\ faults = 0

Handle(u) ==
    \/ ReadContent(u) \/ Finish(u) \/ ReadField(u) \/ Parse(u) \/ Parsed(u)
    \/ Judge(u) \/ Acquire(u) \/ StoreFile(u) \/ Visible(u)

UploadNext ==
    \/ \E u \in Uploads : \/ \E declared \in BOOLEAN : Send(u, declared)
                          \/ Handle(u) \/ Hear(u) \/ HangUp(u) \/ Lapse(u)
    \/ Backfill \/ Crash \/ Reap \/ Pass

(* The handler runs while its client is there, and the reaper's timer fires. *)
UploadSpec ==
    /\ UploadInit /\ [][UploadNext]_uploadVars
    /\ \A u \in Uploads : WF_uploadVars(Handle(u))
    /\ WF_uploadVars(Reap) /\ WF_uploadVars(Pass)

-----------------------------------------------------------------------------
UploadTypeOK ==
    /\ \A u \in Uploads :
        /\ form[u].phase \in Phases
        /\ Kept(u) # {} => Underway(u)
        /\ Given(u, "name") => Underway(u)
        \* The reaper never takes the file from under a request (Deadline < StaleAge).
        /\ form[u].phase \in {"parsing", "parsed", "queue", "store", "late"} =>
                form[u].spool # Nothing
    /\ Held <= Budget /\ Cardinality(Parsing) <= ParseSlots
    /\ ToSet(queue) = {u \in Uploads : form[u].phase = "queue"}
    /\ leaked \subseteq 0..(StaleAge + 1)

(* "Backdating is an admin privilege - never reachable with plain uploader rights,
   and never reinterpreted as a normal upload": however the parts of a form are
   ordered and repeated, a record that is a mirror's, carries a date of its own or
   is born yanked came in with the admin credential. *)
PrivilegedByAdmin ==
    stored # Nothing => (stored.mirror \/ stored.migration \/ stored.backdated \/ stored.yanked
                            => stored.by)

(* The client's account is true: what it counts as landed has its record, what it
   counts as already present stands at least as bytes, and what it skips was fenced,
   whichever attempts were lost, answered with an error after the write stood, or
   crossed another client's upload. *)
ClientHonest ==
    \A u \in Uploads : /\ form[u].told = "landed" => stored # Nothing /\ ~stored.bare
                       /\ form[u].told = "present" => stored # Nothing
                       /\ form[u].told = "skipped" => hold = "fenced"
=============================================================================
