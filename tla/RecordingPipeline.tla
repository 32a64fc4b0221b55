-------------------------- MODULE RecordingPipeline --------------------------
(***************************************************************************)
(* The recording pipeline of app/scheduler/cron.py: leased workers (the    *)
(* scheduled scan and the requests that resume a recording) carry a        *)
(* recording from found to completed one committed step at a time, calling *)
(* Synology, Notion and Yandex Disk between the commits; recruiters answer *)
(* questions and route recordings meanwhile; the non-interview handler     *)
(* transfers without the lease (app/services/non_interview.py).            *)
(*                                                                         *)
(* A process reads the row once and keeps that copy (expire_on_commit is   *)
(* off), so the model keeps mem[p] apart from row[rec[p]].  A SELECT FOR   *)
(* UPDATE holds lock[r] until the next commit.  Both storage providers are *)
(* modelled; autonomous_routing_enabled is off (RoutingJobs has it on).    *)
(***************************************************************************)
EXTENDS Naturals, FiniteSets

CONSTANTS
  Recordings,     \* recordings of one recruiter; they share one generated filename
  Destinations,   \* Synology folders, or storage keys (so: one file in each)
  Workers,        \* concurrent leased runs of the pipeline
  Scanners,       \* the workers inside a scan: one per backend instance (_SCAN_LOCKS)
  Handlers,       \* concurrent route-non-interview requests
  None,           \* null
  SlowRuns,       \* TRUE: a run may outlive its six-hour lease
  MaxFaults       \* bound on crashes, raised exceptions and transient errors

ASSUME DisjointAssumption == Workers \cap Handlers = {} /\ Scanners \subseteq Workers
ASSUME NoneAssumption     == None \notin Workers \cup Handlers \cup Destinations \cup Recordings
ASSUME SlowRunsAssumption == SlowRuns \in BOOLEAN
ASSUME FaultsAssumption   == MaxFaults \in Nat

VARIABLES
  row,        \* row[r]: the committed row of recording r
  lock,       \* lock[r]: the process whose open transaction locks the row
  pc,         \* pc[p]: what process p does next
  rec,        \* rec[p]: the recording p works on
  mem,        \* mem[p]: p's in-memory copy of the row
  fresh,      \* processes on the first-run path (not a resumed one)
  owner,      \* owner[d]: recording named by the owner marker of the file in d
  file,       \* file[d]: the stored file in d
  card,       \* card[r]: destination the link on r's Notion card leads to
  marked,     \* recordings whose Disk source carries the processed mark
  late,       \* recordings whose summary-email deadline has passed
  provider,   \* storage_provider
  mutation,   \* yandex_source_mutation_enabled
  faults      \* faults so far

db       == <<row, lock>>
local    == <<pc, rec, mem, fresh>>
external == <<owner, file, card, marked>>
settings == <<provider, mutation>>
vars == <<row, lock, pc, rec, mem, fresh, owner, file, card, marked, late, provider,
          mutation, faults>>

Lifecycle == INSTANCE RecordingLifecycle WITH status <- [r \in Recordings |-> row[r].status]

Processes == Workers \cup Handlers
Places    == Destinations \cup {None}

TransferResumable ==
  { "calendar_event_found", "candidate_matched", "transfer_started", "uploaded",
    "link_created", "notion_updated", "awaiting_summary_email" }

Resumable == TransferResumable \cup {"found"}

(* Mutant of FirstStep: an interrupted upload is taken for a finished one.  *)
FirstStepSkipsUpload ==
  [ calendar_event_found |-> "lookup",  candidate_matched |-> "resolve",
    transfer_started     |-> "commit_upload", uploaded    |-> "share",
    link_created         |-> "card",    notion_updated    |-> "await",
    awaiting_summary_email |-> "search" ]

(* The step a run starts with, by the status it loads.                     *)
FirstStep ==
  [ calendar_event_found |-> "lookup",  candidate_matched |-> "resolve",
    transfer_started     |-> "claim_storage", uploaded    |-> "share",
    link_created         |-> "card",    notion_updated    |-> "await",
    awaiting_summary_email |-> "search" ]

Steps ==
  { "idle", "claimed", "calendar", "lookup", "resolve", "route", "begin",
    "claim_storage", "upload", "uploading", "commit_upload", "share", "card",
    "commit_card", "await", "search", "mark", "commit_mark", "complete",
    "release", "release_fail", "fail_found" }

(* The choices a manual-review question offers: calendar events, Notion    *)
(* cards, or nothing the pipeline can resume from.                         *)
Asks == {"nothing", "event", "card"}

Copies ==
  [ status : Lifecycle!Statuses, route : {"interview", "non_interview"},
    dest : Places, path : Places, link : Places ]

Rows ==
  [ status   : Lifecycle!Statuses,
    route    : {"interview", "non_interview"},   \* route_type
    page     : BOOLEAN,                          \* notion_page_id is known
    ask      : Asks,                             \* manual_review_reason and candidates
    dest     : Places,                           \* storage_destination_id or storage_key
    path     : Places,                           \* synology_file_path
    link     : Places,                           \* synology_share_url
    artifact : Places,                           \* the active storage artifact
    lease    : Workers \cup {None},              \* processing_lease_token
    expired  : BOOLEAN ]                         \* processing_lease_expires_at <= now

TypeOK ==
  /\ row \in [Recordings -> Rows]
  /\ lock \in [Recordings -> Processes \cup {None}]
  /\ pc \in [Processes -> Steps]
  /\ rec \in [Processes -> Recordings \cup {None}]
  /\ \A p \in Processes : pc[p] # "idle" => rec[p] # None
  /\ mem \in [Processes -> Copies]
  /\ fresh \in SUBSET Workers
  /\ owner \in [Destinations -> Recordings \cup {None}]
  /\ file \in [Destinations -> {"absent", "partial", "complete"}]
  /\ card \in [Recordings -> Places]
  /\ marked \in SUBSET Recordings
  /\ late \in SUBSET Recordings
  /\ provider \in {"synology", "minio"}
  /\ mutation \in BOOLEAN
  /\ faults \in 0..MaxFaults

NewRow ==
  [ status |-> "found", route |-> "interview", page |-> FALSE, ask |-> "nothing",
    dest |-> None, path |-> None, link |-> None, artifact |-> None,
    lease |-> None, expired |-> FALSE ]

CopyOf(x) ==
  [ status |-> x.status, route |-> x.route, dest |-> x.dest, path |-> x.path, link |-> x.link ]

Init ==
  /\ row = [r \in Recordings |-> NewRow]
  /\ lock = [r \in Recordings |-> None]
  /\ pc = [p \in Processes |-> "idle"]
  /\ rec = [p \in Processes |-> None]
  /\ mem = [p \in Processes |-> CopyOf(NewRow)]
  /\ fresh = {}
  /\ owner = [d \in Destinations |-> None]
  /\ file = [d \in Destinations |-> "absent"]
  /\ card = [r \in Recordings |-> None]
  /\ marked = {}
  /\ late = {}
  /\ provider \in {"synology", "minio"}
  /\ mutation \in BOOLEAN
  /\ faults = 0
-----------------------------------------------------------------------------
(* Building blocks of the steps.                                           *)

Goto(p, step) == pc' = [pc EXCEPT ![p] = step]

Unlock(r) == lock' = [lock EXCEPT ![r] = None]

(* An UPDATE of r by p waits while another transaction holds the row.      *)
Writable(r, p) == lock[r] \in {None, p}

(* transition_to checks the copy p holds, never the row itself.            *)
Allowed(p, s) == s \in Lifecycle!Transitions[mem[p].status]

(* p ends its open transaction and gives the row back, status unchanged.   *)
Leave(p) ==
  /\ Writable(rec[p], p)
  /\ Unlock(rec[p])
  /\ Goto(p, "release")
  /\ UNCHANGED <<row, rec, mem, fresh>>

(* StatusService.advance to a status that ends the run, and its commit.    *)
Settle(p, s, ask) ==
  /\ Allowed(p, s)
  /\ Writable(rec[p], p)
  /\ row' = [row EXCEPT ![rec[p]] = [@ EXCEPT !.status = s, !.ask = ask]]
  /\ Unlock(rec[p])
  /\ Goto(p, "release")
  /\ UNCHANGED <<rec, mem, fresh>>

(* A handler has no error handling: the exception ends the request.        *)
Raised(p) ==
  /\ Goto(p, "idle")
  /\ rec' = [rec EXCEPT ![p] = None]
  /\ mem' = [mem EXCEPT ![p] = CopyOf(NewRow)]
  /\ UNCHANGED <<row, lock, fresh>>

(* StatusService.advance to s inside the run, its commit, and the step     *)
(* after it.  x is the row and y the copy without the new status.          *)
Commit(p, s, x, y, step) ==
  /\ Allowed(p, s)
  /\ Writable(rec[p], p)
  /\ row' = [row EXCEPT ![rec[p]] = [x EXCEPT !.status = s]]
  /\ mem' = [mem EXCEPT ![p] = [y EXCEPT !.status = s]]
  /\ Unlock(rec[p])
  /\ Goto(p, step)
  /\ UNCHANGED <<rec, fresh>>

Fault == faults < MaxFaults /\ faults' = faults + 1
-----------------------------------------------------------------------------
(* Claiming, loading and releasing a recording.                            *)

(* Mutant of Claim: the lease is not looked at.                            *)
ClaimIgnoresLease(w, r) ==
  /\ pc[w] = "idle"
  /\ row[r].status \in TransferResumable \/ (row[r].status = "found" /\ w \in Scanners)
  /\ lock[r] = None
  /\ row' = [row EXCEPT ![r] = [@ EXCEPT !.lease = w, !.expired = FALSE]]
  /\ Goto(w, "claimed")
  /\ rec' = [rec EXCEPT ![w] = r]
  /\ UNCHANGED <<lock, mem, fresh, external, late, settings, faults>>

(* UPDATE ... WHERE status resumable AND (no lease OR expired), committed  *)
(* on its own before anything is read.  Only a scan runs found recordings. *)
Claim(w, r) ==
  /\ pc[w] = "idle"
  /\ row[r].status \in TransferResumable \/ (row[r].status = "found" /\ w \in Scanners)
  /\ row[r].lease = None \/ row[r].expired
  /\ lock[r] = None
  /\ row' = [row EXCEPT ![r] = [@ EXCEPT !.lease = w, !.expired = FALSE]]
  /\ Goto(w, "claimed")
  /\ rec' = [rec EXCEPT ![w] = r]
  /\ UNCHANGED <<lock, mem, fresh, external, late, settings, faults>>

(* The found run reads the row without a lock.                             *)
LoadFound(w) ==
  /\ pc[w] = "claimed"
  /\ row[rec[w]].status = "found"
  /\ mem' = [mem EXCEPT ![w] = CopyOf(row[rec[w]])]
  /\ Goto(w, "calendar")
  /\ UNCHANGED <<db, rec, fresh, external, late, settings, faults>>

(* SELECT ... FOR UPDATE, and the step the loaded status calls for.        *)
LoadLocked(w) ==
  LET r == rec[w] IN
  /\ pc[w] = "claimed"
  /\ row[r].status \in TransferResumable
  /\ lock[r] = None
  /\ lock' = [lock EXCEPT ![r] = w]
  /\ mem' = [mem EXCEPT ![w] = CopyOf(row[r])]
  /\ fresh' = IF row[r].status \in {"calendar_event_found", "candidate_matched"}
                THEN fresh \cup {w} ELSE fresh \ {w}
  /\ Goto(w, FirstStep[row[r].status])
  /\ UNCHANGED <<row, rec, external, late, settings, faults>>

(* Another writer moved the recording on between the claim and the read.   *)
LoadGone(w) ==
  /\ pc[w] = "claimed"
  /\ row[rec[w]].status \notin Resumable
  /\ Leave(w)
  /\ UNCHANGED <<external, late, settings, faults>>

(* The finally block: the lease is cleared only if the token is still ours. *)
Release(w) ==
  LET r == rec[w] IN
  /\ pc[w] \in {"release", "release_fail"}
  /\ lock[r] = None
  /\ row' = IF row[r].lease = w
              THEN [row EXCEPT ![r] = [@ EXCEPT !.lease = None, !.expired = FALSE]]
              ELSE row
  /\ mem' = [mem EXCEPT ![w] = CopyOf(NewRow)]
  /\ fresh' = fresh \ {w}
  /\ IF pc[w] = "release"
       THEN Goto(w, "idle") /\ rec' = [rec EXCEPT ![w] = None]
       ELSE Goto(w, "fail_found") /\ UNCHANGED rec
  /\ UNCHANGED <<lock, external, late, settings, faults>>

(* Six hours pass.  Without SlowRuns the run that took the lease is over.  *)
ExpireLease(r) ==
  /\ row[r].lease # None /\ ~row[r].expired
  /\ SlowRuns \/ pc[row[r].lease] = "idle" \/ rec[row[r].lease] # r
  /\ row' = [row EXCEPT ![r] = [@ EXCEPT !.expired = TRUE]]
  /\ UNCHANGED <<lock, local, external, late, settings, faults>>

(* The process dies: its transaction rolls back, its lease stays behind.   *)
Crash(p) ==
  /\ pc[p] # "idle"
  /\ Fault
  /\ lock' = [r \in Recordings |-> IF lock[r] = p THEN None ELSE lock[r]]
  /\ Goto(p, "idle")
  /\ rec' = [rec EXCEPT ![p] = None]
  /\ mem' = [mem EXCEPT ![p] = CopyOf(NewRow)]
  /\ fresh' = fresh \ {p}
  /\ UNCHANGED <<row, external, late, settings>>
-----------------------------------------------------------------------------
(* The run of a found recording: one calendar lookup.                      *)

(* _apply_match_result, or failed when the matching signals are invalid.   *)
Calendar(w) ==
  /\ pc[w] = "calendar"
  /\ \/ Settle(w, "calendar_event_found", "nothing")
     \/ \E ask \in {"nothing", "event"} : Settle(w, "manual_review", ask)
     \/ Settle(w, "failed", "nothing")
  /\ UNCHANGED <<external, late, settings, faults>>

(* An incomplete calendar snapshot: the recording stays found.             *)
CalendarUnavailable(w) ==
  /\ pc[w] = "calendar"
  /\ Fault
  /\ Goto(w, "release")
  /\ UNCHANGED <<db, rec, mem, fresh, external, late, settings>>

(* CalDAVAuthError, KeyError, ValueError: release, then _fail_recording.   *)
CalendarRejected(w) ==
  /\ pc[w] = "calendar"
  /\ Goto(w, "release_fail")
  /\ UNCHANGED <<db, rec, mem, fresh, external, late, settings, faults>>

FailFound(w) ==
  LET r == rec[w] IN
  /\ pc[w] = "fail_found"
  /\ lock[r] = None
  /\ row' = IF row[r].status = "found"
              THEN [row EXCEPT ![r] = [@ EXCEPT !.status = "failed"]]
              ELSE row
  /\ Goto(w, "idle")
  /\ rec' = [rec EXCEPT ![w] = None]
  /\ UNCHANGED <<lock, mem, fresh, external, late, settings, faults>>
-----------------------------------------------------------------------------
(* The first run: candidate, destination, transfer_started.                *)

(* Under MinIO the storage key follows from the candidate, and storage_key *)
(* is unique among recordings; under Synology a recruiter picks a folder.  *)
Identities(r) ==
  IF provider = "synology"
    THEN {row[r].dest}
    ELSE {d \in Destinations : /\ row[r].dest \in {None, d}
                               /\ \A q \in Recordings \ {r} : row[q].dest # d}

LookupMatched(w) ==
  LET r == rec[w] IN
  /\ pc[w] = "lookup"
  /\ \E d \in Identities(r) :
       Commit(w, "candidate_matched", [row[r] EXCEPT !.page = TRUE, !.dest = d],
              [mem[w] EXCEPT !.dest = d], "route")
  /\ UNCHANGED <<external, late, settings, faults>>

(* No single card, an unsafe Spot, a stale identity or a key collision.    *)
LookupUnresolved(w) ==
  /\ pc[w] = "lookup"
  /\ \/ \E ask \in {"nothing", "card"} : Settle(w, "manual_review", ask)
     \/ Settle(w, "failed", "nothing")
  /\ UNCHANGED <<external, late, settings, faults>>

(* Notion was not reached: the recording stays resumable.                  *)
LookupDeferred(w) ==
  /\ pc[w] = "lookup"
  /\ Fault
  /\ Leave(w)
  /\ UNCHANGED <<external, late, settings>>

(* A candidate resolved earlier: its identity is recomputed and committed. *)
Resolve(w) ==
  /\ pc[w] = "resolve"
  /\ row[rec[w]].page
  /\ \E d \in Identities(rec[w]) :
       /\ row' = [row EXCEPT ![rec[w]] = [@ EXCEPT !.dest = d]]
       /\ mem' = [mem EXCEPT ![w] = [@ EXCEPT !.dest = d]]
  /\ Unlock(rec[w])
  /\ Goto(w, "route")
  /\ UNCHANGED <<rec, fresh, external, late, settings, faults>>

ResolveRejected(w) ==
  /\ pc[w] = "resolve"
  /\ Settle(w, IF row[rec[w]].page THEN "manual_review" ELSE "failed", "nothing")
  /\ UNCHANGED <<external, late, settings, faults>>

(* The lock is gone; the destination is the one read before.               *)
Route(w) ==
  /\ pc[w] = "route"
  /\ IF mem[w].dest = None
       THEN Settle(w, "manual_review", "nothing")
       ELSE Commit(w, "transfer_started", row[rec[w]], mem[w], "claim_storage")
  /\ UNCHANGED <<external, late, settings, faults>>
-----------------------------------------------------------------------------
(* TransferService.transfer.  SynologyBackend claims the owner marker and  *)
(* then sends the file, neither with overwrite; MinIOBackend completes a   *)
(* multipart upload only if the key is still free.                         *)

(* StorageCollisionError: manual review, except in the handler.            *)
Collide(p) ==
  IF p \in Handlers THEN Raised(p) ELSE Settle(p, "manual_review", "nothing")

(* Mutant of StorageReused: any complete file is taken for ours.           *)
StorageReusedUnproven(p) ==
  LET d == mem[p].dest IN
  /\ pc[p] \in {"claim_storage", "upload"}
  /\ d # None
  /\ file[d] = "complete"
  /\ Goto(p, "commit_upload")
  /\ UNCHANGED <<db, rec, mem, fresh, external, late, settings, faults>>

(* The marker is ours and the stored file is complete: nothing is sent.    *)
StorageReused(p) ==
  LET d == mem[p].dest IN
  /\ pc[p] \in {"claim_storage", "upload"}
  /\ d # None
  /\ owner[d] = rec[p] /\ file[d] = "complete"
  /\ Goto(p, "commit_upload")
  /\ UNCHANGED <<db, rec, mem, fresh, external, late, settings, faults>>

(* Mutant of StorageClaimed: the marker is written with overwrite.         *)
StorageClaimedByForce(p) ==
  LET d == mem[p].dest IN
  /\ pc[p] = "claim_storage"
  /\ d # None
  /\ file[d] = "absent"
  /\ owner' = IF provider = "synology" THEN [owner EXCEPT ![d] = rec[p]] ELSE owner
  /\ Goto(p, "upload")
  /\ UNCHANGED <<db, rec, mem, fresh, file, card, marked, late, settings, faults>>

StorageClaimed(p) ==
  LET d == mem[p].dest IN
  /\ pc[p] = "claim_storage"
  /\ d # None
  /\ owner[d] \in {None, rec[p]} /\ file[d] = "absent"
  /\ owner' = IF provider = "synology" THEN [owner EXCEPT ![d] = rec[p]] ELSE owner
  /\ Goto(p, "upload")
  /\ UNCHANGED <<db, rec, mem, fresh, file, card, marked, late, settings, faults>>

StorageCollision(p) ==
  LET d == mem[p].dest IN
  /\ pc[p] \in {"claim_storage", "upload"}
  /\ d # None
  /\ owner[d] \notin {None, rec[p]} \/ file[d] = "partial"
  /\ Collide(p)
  /\ UNCHANGED <<external, late, settings, faults>>

UploadBegins(p) ==
  LET d == mem[p].dest IN
  /\ pc[p] = "upload"
  /\ provider = "synology"
  /\ file[d] = "absent"
  /\ file' = [file EXCEPT ![d] = "partial"]
  /\ Goto(p, "uploading")
  /\ UNCHANGED <<db, rec, mem, fresh, owner, card, marked, late, settings, faults>>

UploadEnds(p) ==
  /\ pc[p] = "uploading"
  /\ file' = [file EXCEPT ![mem[p].dest] = "complete"]
  /\ Goto(p, "commit_upload")
  /\ UNCHANGED <<db, rec, mem, fresh, owner, card, marked, late, settings, faults>>

(* complete_multipart_upload with IfNoneMatch.                             *)
PutObject(p) ==
  LET d == mem[p].dest IN
  /\ pc[p] = "upload"
  /\ provider = "minio"
  /\ file[d] = "absent"
  /\ file' = [file EXCEPT ![d] = "complete"]
  /\ owner' = [owner EXCEPT ![d] = rec[p]]
  /\ Goto(p, "commit_upload")
  /\ UNCHANGED <<db, rec, mem, fresh, card, marked, late, settings, faults>>

(* The upload breaks: a partial file is a collision, no file a failure.    *)
UploadBreaks(p) ==
  /\ pc[p] = "uploading"
  /\ Fault
  /\ \E left \in {"absent", "partial"} :
       /\ file' = [file EXCEPT ![mem[p].dest] = left]
       /\ IF left = "partial" \/ p \in Handlers
            THEN Collide(p)
            ELSE Settle(p, "failed", "nothing")
  /\ UNCHANGED <<owner, card, marked, late, settings>>

CommitUpload(p) ==
  LET r == rec[p]
      d == mem[p].dest
  IN
  /\ pc[p] = "commit_upload"
  /\ Commit(p, "uploaded", [row[r] EXCEPT !.path = d], [mem[p] EXCEPT !.path = d], "share")
  /\ UNCHANGED <<external, late, settings, faults>>

(* In a handler whose copy is no longer transfer_started the commit raises. *)
CommitRefused(h) ==
  /\ pc[h] = "commit_upload"
  /\ ~Allowed(h, "uploaded")
  /\ Raised(h)
  /\ UNCHANGED <<external, late, settings, faults>>
-----------------------------------------------------------------------------
(* Share link, Notion card, summary email, Disk mark.                      *)

(* create_share_link reuses the public link of the stored path; the link,  *)
(* durability and (Synology) the active artifact are committed together.   *)
(* An active artifact that already exists is left as it is.                *)
Share(w) ==
  LET r == rec[w]
      d == mem[w].path
      kept == IF row[r].artifact = None /\ provider = "synology" THEN d ELSE row[r].artifact
  IN
  /\ pc[w] = "share"
  /\ w \in Workers
  /\ Commit(w, "link_created", [row[r] EXCEPT !.link = d, !.artifact = kept],
            [mem[w] EXCEPT !.link = d], "card")
  /\ UNCHANGED <<external, late, settings, faults>>

(* Mutant of CardDue: the route is not looked at.                          *)
CardAlwaysDue(w) == TRUE

(* Only a resumed run looks at the route: a first run always writes.       *)
CardDue(w) == w \in fresh \/ mem[w].route = "interview"

(* update_page_interview.                                                  *)
WriteCard(w) ==
  /\ pc[w] = "card"
  /\ CardDue(w)
  /\ card' = [card EXCEPT ![rec[w]] = mem[w].link]
  /\ Goto(w, "commit_card")
  /\ UNCHANGED <<db, rec, mem, fresh, owner, file, marked, late, settings, faults>>

(* A stored non-interview recording has no card to write.                  *)
SkipCard(w) ==
  /\ pc[w] = "card"
  /\ ~CardDue(w)
  /\ Settle(w, "completed", "nothing")
  /\ UNCHANGED <<external, late, settings, faults>>

(* Mutant of CardDeferred: the run goes on without the card.               *)
CardForgotten(w) ==
  /\ pc[w] = "card"
  /\ CardDue(w)
  /\ Fault
  /\ Goto(w, "mark")
  /\ UNCHANGED <<db, rec, mem, fresh, external, late, settings>>

(* _defer_transient_notion_update: the status stays link_created.          *)
CardDeferred(w) ==
  /\ pc[w] = "card"
  /\ CardDue(w)
  /\ Fault
  /\ Leave(w)
  /\ UNCHANGED <<external, late, settings>>

CommitCard(w) ==
  /\ pc[w] = "commit_card"
  /\ Commit(w, "notion_updated", row[rec[w]], mem[w],
            IF w \in fresh THEN "mark" ELSE "await")
  /\ UNCHANGED <<external, late, settings, faults>>

(* Only a resumed run looks for the summary email.                         *)
Await(w) ==
  /\ pc[w] = "await"
  /\ Commit(w, "awaiting_summary_email", row[rec[w]], mem[w], "search")
  /\ late' = late \ {rec[w]}
  /\ UNCHANGED <<external, settings, faults>>

DeadlinePasses(r) ==
  /\ row[r].status = "awaiting_summary_email"
  /\ r \notin late
  /\ late' = late \cup {r}
  /\ UNCHANGED <<db, local, external, settings, faults>>

(* Found, ambiguous, unavailable or past the deadline: go on.              *)
SearchEnds(w) ==
  /\ pc[w] = "search"
  /\ Writable(rec[w], w)
  /\ Unlock(rec[w])
  /\ Goto(w, "mark")
  /\ UNCHANGED <<row, rec, mem, fresh, external, late, settings, faults>>

(* Mutant of SearchWaits: no deadline.                                     *)
SearchWaitsForEver(w) ==
  /\ pc[w] = "search"
  /\ Leave(w)
  /\ UNCHANGED <<external, late, settings, faults>>

SearchWaits(w) ==
  /\ pc[w] = "search"
  /\ rec[w] \notin late
  /\ Leave(w)
  /\ UNCHANGED <<external, late, settings, faults>>

CompleteUnmarked(w) ==
  /\ pc[w] = "mark"
  /\ ~mutation
  /\ Settle(w, "completed", "nothing")
  /\ UNCHANGED <<external, late, settings, faults>>

MarkSource(w) ==
  /\ pc[w] = "mark"
  /\ mutation
  /\ marked' = marked \cup {rec[w]}
  /\ Goto(w, "commit_mark")
  /\ UNCHANGED <<db, rec, mem, fresh, owner, file, card, late, settings, faults>>

CommitMark(w) ==
  /\ pc[w] = "commit_mark"
  /\ Commit(w, "source_marked", row[rec[w]], mem[w], "complete")
  /\ UNCHANGED <<external, late, settings, faults>>

(* _complete_marked_source: a second commit.                               *)
Complete(w) ==
  /\ pc[w] = "complete"
  /\ Settle(w, "completed", "nothing")
  /\ UNCHANGED <<external, late, settings, faults>>

(* A permanent error of the step at hand, a required field missing on      *)
(* recovery included.  The refused Notion or Disk write may have landed.   *)
StepFails(w) ==
  LET r == rec[w] IN
  /\ w \in Workers
  /\ pc[w] \in {"claim_storage", "share", "card", "mark"}
     \/ (pc[w] = "upload" /\ provider = "minio")
  /\ pc[w] = "card" => CardDue(w)
  /\ pc[w] = "mark" => mutation
  /\ Settle(w, "failed", "nothing")
  /\ card' \in { card, IF pc[w] = "card" THEN [card EXCEPT ![r] = mem[w].link] ELSE card }
  /\ marked' \in { marked, IF pc[w] = "mark" THEN marked \cup {r} ELSE marked }
  /\ UNCHANGED <<owner, file, late, settings, faults>>
-----------------------------------------------------------------------------
(* Recruiter decisions.                                                    *)

(* Mutant of Answer: the answer itself is stored as the status.            *)
AnswerAsStatus(r) ==
  /\ row[r].status = "manual_review"
  /\ lock[r] = None
  /\ row' = [row EXCEPT ![r] = [@ EXCEPT !.status = "discard", !.ask = "nothing"]]
  /\ UNCHANGED <<lock, local, external, late, settings, faults>>

(* Mutant of Answer: a question left open is discarded after a route.      *)
AnswerUnchecked(r) ==
  /\ lock[r] = None
  /\ row' = [row EXCEPT ![r] = [@ EXCEPT !.status = "ignored", !.ask = "nothing"]]
  /\ UNCHANGED <<lock, local, external, late, settings, faults>>

(* ReviewService.mutate on the open question.                              *)
Answer(r) ==
  /\ row[r].status = "manual_review"
  /\ lock[r] = None
  /\ \/ /\ row[r].ask = "event"
        /\ row' = [row EXCEPT ![r] = [@ EXCEPT !.status = "calendar_event_found", !.ask = "nothing"]]
     \/ /\ row[r].ask = "card"
        /\ row' = [row EXCEPT ![r] = [@ EXCEPT !.status = "candidate_matched", !.page = TRUE,
                                               !.ask = "nothing"]]
     \/ row' = [row EXCEPT ![r] = [@ EXCEPT !.status = "ignored", !.ask = "nothing"]]
  /\ UNCHANGED <<lock, local, external, late, settings, faults>>

(* reset_for_retry forgets the stored file and its link, not the artifact. *)
Reset(x) == IF x.status = "failed" THEN [x EXCEPT !.path = None, !.link = None] ELSE x

(* Mutant of RouteInterview: no check of the status.                       *)
RouteInterviewAnyStatus(r, d) ==
  /\ provider = "synology"
  /\ row[r].route = "interview"
  /\ row[r].page
  /\ lock[r] = None
  /\ row' = [row EXCEPT ![r] = [Reset(@) EXCEPT !.status = "transfer_started",
                                                !.dest = d, !.ask = "nothing"]]
  /\ UNCHANGED <<lock, local, external, late, settings, faults>>

RouteInterview(r, d) ==
  /\ provider = "synology"
  /\ row[r].status \in {"candidate_matched", "manual_review", "failed"}
  /\ row[r].route = "interview"
  /\ row[r].page
  /\ lock[r] = None
  /\ row' = [row EXCEPT ![r] = [Reset(@) EXCEPT !.status = "transfer_started",
                                                !.dest = d, !.ask = "nothing"]]
  /\ UNCHANGED <<lock, local, external, late, settings, faults>>

(* NonInterviewService.route, its first transaction.  Here the folder is   *)
(* also written as the storage key, which no other recording may hold.     *)
RouteNonInterview(h, r, d) ==
  /\ provider = "synology"
  /\ pc[h] = "idle"
  /\ \/ row[r].status = "manual_review"
     \/ row[r].status = "failed" /\ row[r].route = "non_interview"
  /\ \A q \in Recordings \ {r} : row[q].route = "non_interview" => row[q].dest # d
  /\ lock[r] = None
  /\ row' = [row EXCEPT ![r] = [Reset(@) EXCEPT !.status = "transfer_started", !.dest = d,
                                                !.route = "non_interview", !.ask = "nothing"]]
  /\ Goto(h, "begin")
  /\ rec' = [rec EXCEPT ![h] = r]
  /\ UNCHANGED <<lock, mem, fresh, external, late, settings, faults>>

(* Its second session reads the row again, without a lock or the lease.    *)
Begin(h) ==
  /\ pc[h] = "begin"
  /\ mem' = [mem EXCEPT ![h] = CopyOf(row[rec[h]])]
  /\ Goto(h, "claim_storage")
  /\ UNCHANGED <<db, rec, fresh, external, late, settings, faults>>

(* Link and completion in one commit.                                      *)
ShareAndComplete(h) ==
  LET r == rec[h] IN
  /\ pc[h] = "share"
  /\ h \in Handlers
  /\ Writable(r, h)
  /\ row' = [row EXCEPT ![r] = [@ EXCEPT !.status = "completed", !.link = mem[h].path]]
  /\ Goto(h, "idle")
  /\ rec' = [rec EXCEPT ![h] = None]
  /\ mem' = [mem EXCEPT ![h] = CopyOf(NewRow)]
  /\ UNCHANGED <<lock, fresh, external, late, settings, faults>>

(* Any failure of the transfer or the link leaves the handler by exception. *)
HandlerRaises(h) ==
  /\ pc[h] \in {"claim_storage", "share"}
  /\ h \in Handlers
  /\ Raised(h)
  /\ UNCHANGED <<external, late, settings, faults>>
-----------------------------------------------------------------------------
StorageStep(p) ==
  \/ StorageReused(p) \/ StorageClaimed(p) \/ StorageCollision(p)
  \/ UploadBegins(p) \/ UploadEnds(p) \/ UploadBreaks(p) \/ PutObject(p) \/ CommitUpload(p)

RunStep(w) ==
  \/ LoadFound(w) \/ LoadLocked(w) \/ LoadGone(w) \/ Release(w)
  \/ Calendar(w) \/ CalendarUnavailable(w) \/ CalendarRejected(w) \/ FailFound(w)
  \/ LookupMatched(w) \/ LookupUnresolved(w) \/ LookupDeferred(w)
  \/ Resolve(w) \/ ResolveRejected(w) \/ Route(w)
  \/ StorageStep(w) \/ Share(w)
  \/ WriteCard(w) \/ SkipCard(w) \/ CardDeferred(w) \/ CommitCard(w)
  \/ Await(w) \/ SearchEnds(w) \/ SearchWaits(w)
  \/ CompleteUnmarked(w) \/ MarkSource(w) \/ CommitMark(w) \/ Complete(w)
  \/ StepFails(w)

HandlerStep(h) ==
  \/ Begin(h) \/ StorageStep(h) \/ CommitRefused(h) \/ ShareAndComplete(h) \/ HandlerRaises(h)

Decision(r) ==
  \/ Answer(r)
  \/ \E d \in Destinations : RouteInterview(r, d)
  \/ \E h \in Handlers, d \in Destinations : RouteNonInterview(h, r, d)

Next ==
  \/ \E w \in Workers : RunStep(w)
  \/ \E w \in Workers, r \in Recordings : Claim(w, r)
  \/ \E h \in Handlers : HandlerStep(h)
  \/ \E p \in Processes : Crash(p)
  \/ \E r \in Recordings : ExpireLease(r) \/ DeadlinePasses(r) \/ Decision(r)

Spec == Init /\ [][Next]_vars

(* Scans are scheduled or requested again and again, a live process goes   *)
(* on to its next step, and time passes; nobody has to answer anything.    *)
Fairness ==
  /\ \A w \in Workers : WF_vars(RunStep(w))
  /\ \A r \in Recordings : SF_vars(\E w \in Workers : Claim(w, r))
  /\ \A h \in Handlers : WF_vars(HandlerStep(h))
  /\ \A r \in Recordings : WF_vars(ExpireLease(r)) /\ WF_vars(DeadlinePasses(r))

FairSpec == Spec /\ Fairness
-----------------------------------------------------------------------------
(* Properties.                                                             *)

Stored   == { "uploaded", "link_created", "notion_updated", "awaiting_summary_email",
              "source_marked", "completed" }
Linked   == Stored \ {"uploaded"}
Carded   == Linked \ {"link_created"}

(* A status past an external step is never committed before that step has  *)
(* taken effect: the file at the recorded path is complete and ours, the   *)
(* recorded link leads to that path, the Notion card of an interview holds *)
(* that link, and a source reported as marked carries the mark - whatever  *)
(* crashes, retries and recruiter routes came before.                      *)
StatusIsEarned ==
  \A r \in Recordings :
    LET x == row[r] IN
    /\ x.status \in Stored =>
         x.path # None /\ file[x.path] = "complete" /\ owner[x.path] = r
    /\ x.status \in Linked => x.link = x.path
    /\ x.status \in Carded /\ x.route = "interview" => card[r] = x.link
    /\ x.status = "source_marked" => r \in marked

(* Past the claim, at most one run works on a recording.                   *)
OneRunPerRecording ==
  \A v, w \in Workers :
    /\ v # w /\ rec[v] = rec[w] /\ rec[v] # None
    => pc[v] = "fail_found" \/ pc[w] = "fail_found"

(* Status changes follow the transition table, whoever commits them.       *)
ImplementsLifecycle == Lifecycle!Spec

(* A complete file is never replaced, and nobody takes over its marker.    *)
NoOverwrite ==
  [][\A d \in Destinations :
       /\ file[d] = "complete" => file'[d] = "complete"
       /\ owner[d] # None => owner'[d] = owner[d]]_vars

(* The Disk source is marked only when the recording is stored, linked and *)
(* its card already shows the link.                                        *)
MarkAfterCard ==
  [][\A r \in marked' \ marked :
       row[r].status \in Carded /\ row[r].link # None /\ card[r] = row[r].link]_vars

(* A recording the scheduler resumes does not stay resumable for ever.     *)
RunsSettle ==
  \A r \in Recordings : row[r].status \in Resumable ~> row[r].status \notin Resumable

(* However long a run takes, and with requests that hold no lease: a path  *)
(* on the row, and the link on a Notion card, lead to a complete file that *)
(* carries this recording's own marker.                                    *)
RecordedFileIsOurs ==
  \A r \in Recordings :
    /\ row[r].path # None => file[row[r].path] = "complete" /\ owner[row[r].path] = r
    /\ card[r] # None => file[card[r]] = "complete" /\ owner[card[r]] = r

(* Nothing is written to the Notion card of a non-interview recording.     *)
CardsAreForInterviews ==
  [][\A r \in Recordings : card'[r] # card[r] => row[r].route = "interview"]_vars

(* The recorded file lies in the folder chosen for the recording.          *)
FileInChosenFolder ==
  \A r \in Recordings : row[r].status \in Stored => row[r].path = row[r].dest

(* The active artifact, which rerouting relies on, is the recorded file.   *)
ArtifactIsTheFile ==
  \A r \in Recordings :
    row[r].status \in Linked /\ provider = "synology" => row[r].artifact = row[r].path

(* A marked recording is completed.                                        *)
MarkedCompletes ==
  \A r \in Recordings : row[r].status = "source_marked" ~> row[r].status = "completed"

(* Nothing leaves completed.                                               *)
CompletedIsFinal ==
  [][\A r \in Recordings : row[r].status = "completed" => row'[r].status = "completed"]_vars
=============================================================================
