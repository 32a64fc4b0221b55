# Recording Agent: verification project

Recording Agent takes interview recordings from Yandex Disk, matches each with a
calendar event and a Notion card, copies the file to storage (Synology, or MinIO in
development), writes a share link on the card and marks the source. A FastAPI process
runs it: scheduled and requested scans, recruiter requests that come through a chat
agent, an isolated routing worker, and PostgreSQL between them. Most of what can go
wrong lies between two commits, with an external call in the middle and another
process on the same row. That is what this project models.

## Inventory

| Part | Source (under `src/app`) | State | Operations | What is hard | What makes it correct |
|---|---|---|---|---|---|
| Pipeline | `scheduler/cron.py`, `services/transfer.py`, `services/status.py` | recording row: status, destination, path, link, lease; per run a copy of the row | claim, load, calendar, candidate, route, transfer, link, card, email, mark, complete, release | crash between effect and commit; stale copies; lease expiry; deferral | a status is backed by what happened outside; one run per recording; no recording stays resumable for ever |
| Status machine | `db/models/recording.py` | `status` | `transition_to`, `reset_for_retry` | it checks the copy in memory, not the row | every committed change is an edge of the table |
| Storage | `tools/synology.py`, `services/storage.py` | file and owner marker in each folder; object and metadata in MinIO | check, claim, upload, recover | two recordings with one filename; partial file; a late run | no overwrite; a recorded file is complete and ours |
| Non-interview handler | `services/non_interview.py` | row | route, transfer, complete | works without lease or lock | its recording never reaches a Notion card |
| Manual review questions | `services/reviews.py`, `services/question_queue.py`, `routers/tools.py` | question: status, version; replay rows | enqueue, answer, reject, replay, reconcile, close, suppress | copies read before the row lock; requests that die; double questions | a retry of an answer changes nothing; every answer is closed and every review asked |
| Digest and outbox | `services/question_queue.py`, `scheduler/cron.py` | digest of a day, delivery count, outbox message: status, attempts, claim | claim, scan, build, queue, deliver, retry, give up, sweep | claims that expire, a post before its commit, five attempts, suppression | a question is shown at most twice, and counted only if a summary built from it was posted |
| Routing jobs | `services/routing_jobs.py`, `routers/routing_jobs.py`, `scheduler/cron.py` | job: status, nonce, lease, snapshot | create or reuse, dispatch, activate, resolve, defer | redispatch; stale recording version; the recruiter beside the worker | one open job for a recording; it is decided once, and in the end |
| Reroute, reassignment | `services/reroute.py`, `services/notion_reassignment.py` | operation phase, artifact, NAS, card | move, link, write card, commit | crash in each phase; retry with the same key | row, artifact, file and card agree when it is over |
| Cleanup | `services/cleanup.py` | preview, file results | preview, confirm, resume, move to trash | crash inside an item; two previews; a resumed confirmation beside a running one | a file is trashed once, on record, and only when asked for |
| Intents | `services/intents.py`, `routers/tools.py` | replay rows | claim, take over, complete, release | take-over of an expired claim | one recorded answer for a key, and it agrees with what was committed |
| Token manager | `services/yandex_token_manager.py`, `tools/disk.py` | token row, in-process lock | use, refresh after a 401, grant | concurrent refresh of a rotating token | a good token is not refreshed |
| Calendars | `tools/calendar.py`, `routers/calendars.py`, `src/tools/setup/configure_recruiter.py` | recruiter row, calendar rows | discover, select, set default, configure, preflight, activate, snapshot | nothing is locked while CalDAV is asked; overlapping discoveries | an active recruiter has one default; scans recover when calendars come back |
| Notion data sources | `tools/notion.py` | LRU cache, in-flight discoveries | resolve, discover, share, evict, invalidate | a shared discovery that is older than the invalidation | searches do not fail for ever after a replacement |
| Matching | `services/matching.py`, `services/candidate.py` | none (decides) | pool, score, decide, choose the card | ties, duplicates, thresholds met exactly | nothing ambiguous is decided without asking |
| Naming | `services/filename.py` | none | parse, build | – | – |
| Routers, configuration, other clients | `routers/*`, `config.py`, `tools/*` | none of their own | HTTP | – | their outcomes are choices in the models |

The parts meet in the recording row. A scan and the requests that resume a recording
share `_resume_transfer_recording` and its lease; recruiter requests write the row
under `SELECT ... FOR UPDATE` but without the lease; the non-interview handler uses
neither after its first commit. Sessions are made with `expire_on_commit=False`, so a
run decides on the copy it read first. The scans of one process are kept apart by an
in-memory lock per recruiter, the requests are not.

Questions, jobs, intents and messages are rows of their own beside it. They meet the
pipeline in two fields: the status, and the version that every question, job and request
names and that whoever decides about the recording increments. Of these, some lock the
recording, some only their own row, and `apply_partial` locks it after having read it; so
the interesting interleavings are those between a read and the commit that relies on it.

## Modules

| Module | What it is |
|---|---|
| `RecordingLifecycle` | the transition table as an abstract specification of the status column |
| `RecordingPipeline` | scan, resumed runs, storage, recruiter decisions, non-interview handler |
| `MCPipeline` | the pipeline instances for TLC (values in the `pipeline*.cfg` files) |
| `RecordingPipelineProofs` | type correctness of the pipeline; one run per recording, if runs end within their lease |
| `StorageProofs` | recorded files are ours; nothing is overwritten |
| `ProgressProofs` | statuses are earned, folders and cards right, marks last, for interviews and for recordings stored without a lease; the pipeline implements `RecordingLifecycle` |
| `Relocation` | the abstract relocation: the file is carried away one folder at a time and the row follows |
| `Reroute` | reroute requests with their NAS tasks, reassignment of the card |
| `MCReroute` | its instances (values in `reroute*.cfg`, `reassign.cfg`) |
| `RerouteProofs` | type correctness, no file lost, one request at a time |
| `RelocationProofs` | moves on record, the switch after the proof, others untouched; `Reroute` implements `Relocation`; the link on some card |
| `Common` | the null of every column, shared by the modules below |
| `ReviewQueue` | manual review questions: asked, answered, replayed, reconciled, closed |
| `Outbox` | notification outbox: claim, delivery, retry |
| `DailyDigest` | the digest of a day with its questions, composed with `Outbox` |
| `MCQuestions` | `ReviewQueue` and `DailyDigest` for TLC (`questions.cfg`, `digest_cut.cfg`) |
| `QuestionProofs` | types, nobody asked thrice, counts need posts, repeated answers apply once |
| `RoutingJobs` | autonomous routing jobs |
| `Cleanup`, `CleanupProofs` | source cleanup; types, every move traced, deleted files gone |
| `Intents` | idempotency keys |
| `Tokens` | Yandex tokens |
| `Calendars` | discovery, selection, set-up and snapshot of calendars |
| `NotionSources` | cache and discovery of Notion data sources |
| `Matching` | the decision on the event and on the card of a recording |
| `MCServices` | the seven services for TLC, each on its own instance (`services.cfg`, `routing_overwritten.cfg`) |
| `ServiceProofs` | their types; responses match commits, no needless grant, one open job and final decisions, one default calendar, unambiguous matches |

### RecordingPipeline and the code

`row[r]` is the committed row, `mem[p]` the copy process `p` holds, `lock[r]` the open
transaction that has the row `FOR UPDATE`, `pc[p]` the next thing `p` does. A worker is
one call of `_resume_found_recording` or `_resume_transfer_recording`, whoever makes it;
the workers in `Scanners` are inside a scan and may also start found recordings. A
handler is one `NonInterviewService.route`. Each step between two commits or external
effects is an action, in the code's order:

- `Claim` is the conditional `UPDATE` that takes the lease, `LoadFound`/`LoadLocked`/
  `LoadGone` the read after it, `Release` the `finally` block; `ExpireLease` lets six
  hours pass, `Crash` kills the process.
- `Calendar*`, `FailFound`: the run of a found recording. `Lookup*`, `Resolve*`,
  `Route`: candidate, storage identity, destination. After the candidate commit the
  row is unlocked, and `Route` decides on the copy.
- `StorageReused`, `StorageClaimed`, `StorageCollision`, `UploadBegins`, `UploadEnds`,
  `UploadBreaks`: `SynologyBackend.upload`, marker first, file second, nothing with
  overwrite. `PutObject`: the conditional completion in MinIO. `CommitUpload`, and in
  the handler `CommitRefused`, follow.
- `Share`, `WriteCard`, `CommitCard`, `Await`, `SearchEnds`, `SearchWaits`,
  `MarkSource`, `CommitMark`, `Complete`: the rest of a run. A first run
  (`w \in fresh`) writes the card whatever the route and goes to the mark without
  waiting for an email; a resumed one does not, as in the two code paths.
- `StepFails` ends a step with `failed`; the refused Notion or Disk write may have
  landed. `CardDeferred`, `LookupDeferred`, `CalendarUnavailable` leave the recording
  resumable.
- `Answer`, `RouteInterview`, `RouteNonInterview`: recruiter decisions, each one
  transaction, made for the version the recruiter sees.

Abstractions: a destination stands for a folder and, the recordings sharing one
generated filename, for the one file in it; so two recordings collide exactly when they
meet in a folder. Matching, filenames, versions and messages are outcomes, not data.
The share link is named by the path it leads to (`create_share_link` reuses the public
link of a path). The Notion card of a recording holds the last link written to it.
Links, artifacts and marks are external effects of their own step, separate from the
commit that records them.

### Reroute and the code

One durable, completed recording. `row` is its committed row, `op[k]` the reroute operation
of idempotency key `k`, `proposal[q]` a reassignment proposal, `mem[p]` the copies request
`p` read when it began; `file`, `marker`, `links`, `card` are the NAS and Notion.

- `Begin` is the `FOR UPDATE` part of `reroute` up to the commit of the lease; `FirstStep`
  resumes at the phase of an existing operation. `Checkpoint`, `Probe`, `Inspect` precede
  the move; `MoveFile`, `MoveMarker`, `ProveMove`, `NotMoved` are `copy_move_verified`
  with its polling; `Find`, `Create`, `CommitLink` the link; `WriteCard`, `ReadCard` the
  Notion card; `Finish` and `Conflict` the last transaction. `Reject`, `Fail` and `GiveUp`
  are the two exception handlers: a failure the code knows stores `failed`, any other
  exception keeps the phase; both clear the lease whoever holds it.
- `FinishTask` is the NAS: a `CopyMove` task goes on when its request is dead, refuses an
  existing target and, with `remove_src`, leaves nothing behind. A request polls, so it
  may see a task failed, finished or forgotten. `ClaimOther`, `StoreOther` are the uploads
  of another recording with the same filename into the shared folders.
- `Propose`, `ExpireProposal`, `BeginConfirm` ... `CommitPage` are
  `NotionReassignmentService`: both locks are held to the commit of `target_written` and
  not after it. `EditCard` is a person who empties the field on a card.

A folder stands for the path of the file in it and a link for the path it leads to. DSM is
external: tasks on a source another task has moved away fail with it, and a task on an
absent source is refused at once.

### ReviewQueue and the code

`talk[r]` is what questions depend on in the row of recording `r` (status, version, whether
its result was announced). Its statuses are coarser than the code's: `found` stands for
`calendar_event_found` too, `storing` for all from `transfer_started` to
`awaiting_summary_email`, `marked` for `source_marked_processed`, `review` for manual review;
`Settled` is `SETTLED_RECORDING_STATUSES`, so not `failed`. `question[i]` a `ManualReview` row, `replays` the completed
replays of answers, `notices` the dedupe keys of queued messages. `step[p]`, `asked[p]`,
`copy[p]` and `plan[p]` belong to a request, or to the scan of the recruiter.

- `LoadQuestion` is the `session.get` and the unlocked read of the recording in
  `apply_partial`; `AnswerReplayed`, `AnswerRejected`, `AnswerAccepted` are `mutate` from
  its row lock to its commit. Because the second `SELECT ... FOR UPDATE` meets the same
  identity map and does not refresh it, the checks use `copy[p]` and the version is counted
  from there. A commit writes the attributes the code assigns, not the whole copy.
- `LookAtProcessing`, `Reconcile`: `reconcile_processing`, cut where `enqueue_review` waits
  for Mattermost. What it will ask, and for which version, is from the reading before the
  wait (`Asking`): a question may be born with a version that has passed. `StartScan` to `EndScan`: the same at the end of a scan, then a question
  for every recording in review. `DigestCloses`: what `build_digest` does to questions.
- `Announce` is `queue_terminal_notifications`; `RouteInterview`, `SubmitSummary`,
  `EscalateEmail`, `WorkerDefers`, `PipelineGoes`, `PipelineDecides`, `PipelineCompletes` are
  the rest of the system: the last three are what runs of the pipeline do to a recording, the
  last of all the second commit after the mark.

### Outbox, DailyDigest and the code

`outbox[k]` is the row with dedupe key `k` (`held`: its `next_attempt_at` or its claim is in
the future), `posts` the messages Mattermost has, `batch` what the running drain claimed.
`ClaimOutbox` is `claim_outbox` with its commit; `Deliver`, `DeliveryFails` and `DrainStops`
are `deliver_claimed`, where the post may have been made before the failure. Mattermost is
external: it finds the post of a `pending_post_id` again.

`digest[d]` is the `QuestionDigest` of day `d`, `review[i]` a question with its delivery
count, `bound[d]` the questions the summary was built from, `listed[d]` those of them in the
text that is sent, and `daily` what the daily job does next. `build_digest` takes up to fifty
questions and binds each to the digest; `queue_notification` then cuts the text at 4000
characters. Which questions have a place and which the text still shows depends on the other
questions of the recruiter, so `BuildDigest` chooses both sets. `ClaimDigest` is `_claim_daily_digest`, `ScanEnds` the scan between claim and
summary, `BuildDigest` and `DigestSkipped` `build_digest`, `DeliverSummary` the binding of a
delivered summary to its questions, `DailyFails` is `_mark_daily_digest_failed`, which also
overwrites a digest that was sent.

### RoutingJobs and the code

`track[r]` is the recording, `job[j]` a `RoutingJob` (`live`: its lease is in the future),
`scanning` the recording a scan asks Synology about, `work[w]` the decision of a worker's
request that is not committed yet. `MatchTrack`, `CreateOrReuse`, `DiscoveryRejected` and
`DiscoveryFails` are the branch of the scan, on the copy of its last commit. `Dispatch` is
`dispatch_next` (a nonce that is not the last one changes nothing, so only the request with
the last nonce is modelled), `Activate` and `Decide` `_lease_owned_job` with the checks of
`activate`, `resolve` and `defer`, and `CommitDecision` their commit after Synology (for
`resolve`) or the database answered: it writes what was counted from the unlocked read of the
recording. `JobsDecide` says who may hold a waiting job up, `RouteStands` what that unlocked
read may do to a route.

### Cleanup and the code

`vault[f]` is the recording, `onDisk` the Disk, `preview[v]` and `fileResult[v][f]` the two
tables, `sweep[p]` a running `confirm`. `Consume` takes the capability, `ConfirmAgain` takes
up a confirmation that died; only the second keeps the lock of the preview, up to its first
commit. `LookAtFile`, `InsertResult`, `MoveToTrash`, `RecordOutcome` are `_process_item`,
cut at its commits and at the move. A move reported as failed may have been made.

### Intents and the code

`intent[k]` is the `IntentReplay` row of a key, `sent[s]` a request, `revision` the version of
the one recording, and `effects[k]` counts (as history) the commits of rows key `k` asked
for. `ClaimIntent` is `claim_intent`; `Completed` with `Owns` is `complete_intent`. The three
operations differ in what they commit when: `submit_summary` with its completion,
`route_interview` before it, `trigger_scan` nothing of its own.

### Tokens and the code

`token` is the `YandexToken` row, `caller[c]` a request of the Disk client with the token it
was sent with, `refused` what Yandex answers 401 to. `LockToken` is `refresh_access_token` up
to the check under both locks, `GrantToken` and `GrantFails` the grant with its commit.
`granted` and `spoiled` are history.

### Calendars and the code

`calendar[c]` is a `RecruiterCalendar` row, `recruiter` the `RecruiterConfig`, `listed` what
CalDAV lists. A discovery is cut into the request, the load of the rows (`LoadCalendars`
with what it changes in the session) and the commit (`CommitDiscovery`, which writes the
changed attributes only and fails on `uq_recruiter_calendar_default` or a second row).
`Preflight*`, `StartActivate`, `ActivateCommits` are the operator's commands, with the
stale recruiter of `preflight_recruiter` (`\E url`). `FindEvents` is `_calendar_snapshot`.

### NotionSources and the code

One coroutine runs between two awaits: `ResolveSource` is `_resolve_source` up to its first
await, `SourceAwaited` what follows the discovery, `SearchRetries` the 404 branch of
`search_pages` with the second resolution. `source` is the data source that exists, `sources`
the LRU cache, `inflight` the running discoveries in order.

### Matching and the code

`snapshot` is the answer of CalDAV in its order; `Pool` removes the events that do not fit and
the duplicates of calendar, uid and occurrence; `Score` is `_score_event` in hundredths,
`EventReason` the decision of `score`. `CardsAnswered` is `find_and_match`: the cards with the
attendee's address first, the number of choices, one Spot at most. Parsing is left out; an
event carries the outcomes of the comparisons.

## Runs

| Run | Instance | Shows |
|---|---|---|
| `pipeline` | 1 recording, 2 folders, scan + request, 2 faults, fairness | `StatusIsEarned`, `OneRunPerRecording`, `FileInChosenFolder`, `MarkAfterCard`, the refinement `ImplementsLifecycle`, the liveness property `RunsSettle` |
| `pipeline_shared` | 2 recordings, 1 folder, 1 worker, 1 handler, leases may expire under a run | `RecordedFileIsOurs`, `NoOverwrite`, `CardsAreForInterviews` |
| `pipeline_marked` | as `pipeline`, smaller | violates `MarkedCompletes` |
| `pipeline_artifact` | 1 recording, 2 folders | violates `ArtifactIsTheFile` |
| `pipeline_final` | 1 worker, 1 handler | violates `CompletedIsFinal` |
| `reroute` | 3 folders (2 shared with another recording), 2 keys, 2 requests, 2 faults, 1 card edit, fairness | `MoveIsOnRecord`, `NothingLost`, `OneRequestAtATime`, `SwitchAfterProof`, `OthersUntouched`, the refinement `ImplementsRelocation`, the liveness property `RequestsEnd` |
| `reassign` | 3 cards, 2 proposals, 1 confirmation at a time, 3 faults | `LinkOnSomeCard` |
| `reroute_back` | 2 folders, 2 keys, no fault | violates `MovedIsRecorded` |
| `questions` | three instances: one request beside scans and everything else; two requests on one question; 3 days of digests with 2 delivery faults; fairness | `RetriesApplyOnce`, `AskedAtMostTwice`, `CountedByPosts`, and liveness: `AnswersEnd`, `ReviewIsAsked`, `ResultIsAnnounced`, `DigestRecovers`, `MessagesSettle` |
| `services` | eight instances, one service at a time | `OneOpenJob`, `JobsDecide`; `MovesAreTraced`, `DeletedIsGone`, `ConfirmationEnds`; `ResponseMatchesCommits`; `NoNeedlessGrant`; `ActiveHasDefault`, `ScanRecovers`; `SearchesRecover`; `AutomaticIsUnambiguous` |
| `digest_cut` | as `questions` | violates `SuppressedWasRepeated` |
| `routing_overwritten` | as `services` | violates `RouteStands` |

The bounds. Two workers are enough for every race for a lease: the third would meet the
same row. Two folders tell the folder chosen from the one before; one folder with two
recordings forces the collision. `MaxFaults` bounds crashes, broken uploads and
transient errors together; two allow a fault in the recovery from a fault. Everything
else is unbounded: recordings may fail and be routed again for ever. A run may end
with nothing left to do (`completed`, `ignored`, an unanswered question), so deadlock
is not checked.

`pipeline` holds under two assumptions the code does not enforce, and both are visible
in the configuration. A run ends within its six-hour lease (`SlowRuns = FALSE`): a run
that outlives it commits its copy over whatever the next one did. And one process scans
(`Scanners` has one element): the in-memory scan lock is per process, and with a second
process `FailFound`, which runs after the lease is released, may race another run.
`pipeline_shared` drops the first assumption, because ownership in storage must not
depend on it.

For reroutes, two requests meet every race for the lease, two keys give a retry under the
same key and a second operation after or between the attempts of the first, and the third
folder is the one neither operation names. Two faults let an attempt fail and its retry
fail in another place. `MaxEdits = 1` makes the card read back differ from the one written.

`reroute` assumes that a request ends within its ten-minute lease (`SlowRequests = FALSE`).
Without it `ImplementsRelocation` fails: a stalled request starts its move after the lease
has passed to another (and two requests may both find no link and create one). `NothingLost`
and `SwitchAfterProof` do not depend on it, and their theorems do not assume it.

`reassign` has one confirmation at a time and no reroute. With both together, or with two
confirmations of one proposal and a proposal back, `LinkOnSomeCard` fails: the commit of
`target_written` gives the row lock back, so a source card may be cleared on which somebody
else has written the link meanwhile. It is listed as a hazard, and not as a finding, because no
document claims the contrary. Three further effects seen in the runs are allowed by the
properties on purpose: an operation that fails after its link exists is finished by the
next attempt without writing the card; a move whose marker cannot follow leaves the
operation failed and the file at the target, on record; and two proposals made for the same
version may both be confirmed when the second begins after the first has given its locks
back.

`questions` and `services` each put several small instances into one run: an initial choice
(`about`, `active`) says which component moves, and the others stay as they began, so that
the state spaces add up and do not multiply. A property about one of them holds trivially
in the other behaviours and is earned in its own.

- *reviews*: one recording, two questions, and two versions of others, because every
  sequence that reaches a second question for one recording passes them: asked, answered or
  closed, asked again. Of decisions outside the questions one may follow another only when
  the second is a worker's (`OneDecision`). *crowd* adds the second request on one question,
  which is what replays and stale copies need.
- *digest*: one question, three days: shown, repeated, and a third day on which a third
  showing would be seen. Summaries without a place for the question are left out
  (`HasPlace`), as they are like days without one; those in which it has a place behind the
  cut are in. `MaxAttempts = 2` (5 in the code) has one retry and one
  message given up; two faults let both happen.
- *jobs*: two recordings with a job each, two workers: a second request while the first holds
  the row, and a job that waits behind an older one. The recruiter handles one of the
  recordings, whose job becomes stale by that; the other is left to the workers. *cleanup*: one file, two previews of it, two confirmations, one of
  which dies. *intents*: one key of each operation and two requests, one the take-over of the
  other. *tokens*: two requests, three grants.
- *setup*: two calendars and all commands, but no scans and selections, and CalDAV only adds.
  *calendars*: the scans and selections, with changes of CalDAV and discoveries of the
  endpoint once the recruiter is active.
- *sources*: two databases and a cache for one, so that they evict each other; two requests;
  one replacement of the data source. *matching*: two calendars, one monitored; two
  meetings; up to two events and two cards; cards after snapshots of one event only, because
  they do not depend on the others.

**Fairness.** `RunStep(w)` and `HandlerStep(h)` are weakly fair: a live coroutine goes on,
every external call has a timeout. `Claim` is strongly fair for each recording: scans
are scheduled daily and requested by recruiters, each selects every found and resumable
recording of the recruiter without a limit, and a recording that stays resumable is
offered again and again, though not continuously (a run may hold its lease). Leases and
email deadlines run out with time. Nobody has to answer a question, route a recording or
crash. Liveness is only claimed where faults stop (`MaxFaults`): a Notion that is down
for ever keeps a recording resumable for ever, by design.

In `Reroute`, `RequestStep(p)` and `ConfirmStep(c)` are strongly fair because a step may wait
for a row lock that is taken and given back, and PostgreSQL queues those who wait; the
tasks of the NAS and the expiry of leases are weakly fair. That a client sends a reroute
again that is not completed is an assumption about the client, needed only to make
`reroute_back` a real counterexample: not even an endlessly patient client gets the file
recorded.

In `ReviewQueue`, scans come to their end again and again (`[]<><<EndScan>>`): they are
scheduled daily, and each reconciles. A recording that was found or is being stored is
carried on (`CarriedOn`, which `RunsSettle` shows of the pipeline). A matched one may wait for
a worker that no job brings, and one left at `source_marked_processed` is carried on by
nobody (finding 1), so nothing is assumed of these, and `AnswersEnd` says that an accepted
answer stays open for ever only there. Nobody has to answer, and a request may die anywhere.
In `DailyDigest` the daily job and the drain are jobs of the scheduler (every minute, every
ten seconds), backoffs and claims run out. In `RoutingJobs` the dispatcher polls, so while any
job can be leased one is, the oldest; that is weak fairness of dispatching, and none for a
single job. Workers that are started again and again activate a job, decide and commit.
`JobsDecide` therefore has an exception: a job may wait for ever behind older ones that are
stale for ever. In `Cleanup`, a recruiter who got no answer
confirms again. In `Calendars`, a scan that is repeated gets an answer from CalDAV in the
end. `NotionSources` needs no fairness: `SearchesRecover` says that failures of that kind stop.

## Findings

1. `pipeline_marked`: `source_marked_processed` and `completed` are two commits, and no
   scan selects the first status. A process that stops in between leaves the recording
   there, without its result message and outside the cleanup.
2. `pipeline_artifact`: a recording that fails after its link was committed and is then
   routed to another folder keeps the active storage artifact of the first folder,
   because `_ensure_active_storage_artifact` only fills an empty place.
3. `pipeline_final`: the non-interview handler shares a `transfer_started` recording
   with any scan. Both finish the transfer from copies of the row; the slower one writes
   its status over `completed`.
4. `reroute_back`: `recording_storage_artifacts.file_path` is unique and keeps inactive
   rows, so a recording rerouted back to a folder it once was in is moved, linked and
   written to its card, and the last transaction then fails at every attempt.
5. `digest_cut`: a summary is bound to up to fifty questions and then cut at 4000 characters.
   The questions behind the cut are counted with the others when it is delivered, and after
   the second count suppressed; the documents promise that a question is repeated before that.
6. `routing_overwritten`: `resolve` of a worker checks job and recording on an unlocked reading,
   waits for Synology and then writes folder, status and version over the route a recruiter
   has committed meanwhile.

### Limits met while modelling

These are effects seen in the models that no document of the repository denies. The
properties allow them, and say so in their comments where they come close.

- *Stale copies of an answer.* An answer that loaded its rows before another one was
  committed is applied on top of it: a question may be answered twice under different keys,
  and a recording that was settled meanwhile is set back to running.
  `RetriesApplyOnce` is about one key.
- *Questions.* Nothing makes the pending question of a recording unique; an approval or email
  question cannot be answered any more once the version moved, nor can a question inserted
  for a version that passed while Mattermost was asked, and either stays pending until it is
  closed or suppressed. A suppressed question leaves its recording in review: the next scan
  asks anew, with a count of zero, and `AskedAtMostTwice` is about one question, not about
  one recording. Further: a summary that failed five
  times leaves its digest pending and its questions uncounted; a failure after the digest was
  sent marks it failed, and the rest of the day scans again whenever the claim is stale.
- *Reassignment.* Nothing rejects a proposal whose target is the card the recording has; its
  confirmation writes the link there and then clears it as the source. `LinkOnSomeCard`
  exempts such a proposal.
- *Jobs.* A job whose recording moved on is never closed: it is dispatched again for ever,
  `create_or_reuse` returns it for a recording that needs a new one, and a few of these hold
  up newer jobs. A deferral, or a scan that finds no folders, writes manual review over a
  decision made meanwhile, and the recruiter is asked once more.
- *Cleanup.* A row left `processing` by a crash blocks later previews of its file, and a
  failed result whose file is in the trash is never corrected. A resumed confirmation may
  complete its preview while a running one still moves a file.
- *Intents.* `submit_summary` writes a version it read without a lock, so the version can go
  back. A rejected request leaves its key pending until the claim runs out, and so does a
  `route_interview` that committed its route and could not resume the transfer: its retries
  are answered 409, first for the claim and then for the version.
- *Calendars.* The preflight may write back an older calendar URL. Overlapping discoveries can
  mark each other's calendars unavailable until the next one.
- *Notion.* A reassignment proposal never invalidates a stale cached source.
- *Matching.* Only the first ten cards are looked at: an address that is unique among
  them may not be unique beyond. Without a booking link all other signals together
  reach the threshold exactly.

## Proofs

All theorems are for arbitrary sets of recordings, folders, requests, processes, days and
calendars, and for any bounds on faults, versions and attempts. They assume the named
`ASSUME`s of the modules and nothing else unless it is stated: `None` is not an element of
the sets it stands beside (`NoneIsNoDay`, `NoneIsNoRow`, `NoneIsNoCalendar`,
`NoneIsNoMatch`, `NoneIsNoSearch` and their like: a null column is not a value), sets of
processes or keys are disjoint, bounds are natural numbers, and the requests that share the
discoveries of `NotionSources` are finitely many. Every safety property of a passing run,
invariant or action property, has its theorem; each inductive invariant was checked by
TLC before it was proved.

Some theorems take a hypothesis. Each says of the environment what the code relies on and
does not enforce, and none can be dropped: without it TLC finds a counterexample on a small
instance, given in the last column.

| Hypothesis | In the system | Theorems | Without it |
|---|---|---|---|
| `SlowRuns = FALSE` | a run ends within its six-hour lease | `OneRun`, all of `ProgressProofs` | a late run commits its copy over what the next one did |
| `OneRequest`: at most one element in `Handlers` | one route-non-interview request at a time (they take no lease) | `StatusesAreEarned`, `FilesInChosenFolders` | the second request chooses another folder, the first records the file in the one before |
| `Handlers = {}` | no such request at all | `PipelineImplementsLifecycle` | finding 3: the request writes its status over `completed` |
| one element in `Scanners` | one process scans | `PipelineImplementsLifecycle` | `FailFound` of one process fails a row another run works on |
| `SlowRequests = FALSE` | a reroute ends within its ten-minute lease | `OneReroute`, `MovesAreOnRecord`, `OthersAreUntouched`, `RerouteImplementsRelocation` | a stalled request goes on with its move beside a second one |
| `Confirmers = {}` | no reassignment beside the reroutes | `RerouteImplementsRelocation` | a confirmation counts the version from its copy and sets it back |
| one confirmer, `Requests = {}`, `MaxEdits = 0` | confirmations follow one another, no reroute and nobody else changes link or card | `LinkIsOnSomeCard` | a card is cleared after somebody else wrote it |

**Pipeline.**

- `TypeCorrect`: `Spec => []TypeOK`. `TypeOK` is inductive; each action has its step,
  the shared `Commit` and `Settle` have lemmas of their own.
- `RecordedFilesAreOurs` (`[]RecordedFileIsOurs`) and `NothingOverwritten`
  (`NoOverwrite`). `RecordedFileIsOurs` is not inductive: a run that is about to commit a
  path, or holds a copy of one, will use it later. `StorageInv` adds what every process
  may still do: `RowsInv` says that any path on a row or card leads to a complete file
  with this recording's marker, `ProcessInv` the same for the paths and links in every
  copy and for the destination of a process about to commit its upload, `UploadsInv` that
  a process between marker and file owns the marker. Because a marker, once set, never
  changes and a complete file stays complete, these facts survive the steps of all other
  processes, stale copies and expired leases included. This is why these two theorems
  need neither the lease nor the status.
- `OneRun`: if `SlowRuns = FALSE`, `Spec => []OneRunPerRecording`. `LeaseInv` says that a
  process past its claim, unless it has released the lease, is the one the row names as
  holder, and that the lease has not expired under it.
- `InterviewsAreEarned` (`[]InterviewIsEarned`), `CardsOnlyForInterviews`
  (`CardsAreForInterviews`) and `MarksComeLast` (`MarkAfterCard`), beside any number of
  scanning processes and of requests that work without a lease on other recordings. A status
  in the row says what happened outside, but what a run commits comes from its copy.
  `ProgressInv` therefore says three things: each step has a status its copy must have and
  knows what the steps before it did (`WorkerInv`); the copy of a run agrees with the row in
  all that it will write, as long as the lease keeps others off; and the row of an interview
  is earned, a recording before its transfer has no folder (`RowInv`). Recruiter decisions
  change a row without the lease, but only rows no run is working on. For the marks,
  `StoredOnly` adds that a recording routed as a non-interview is at most stored: a run that
  picks up the transfer the request has begun never comes to a card or a mark.
- `StatusesAreEarned` (`[]StatusIsEarned`) and `FilesInChosenFolders`
  (`[]FileInChosenFolder`) are about all recordings, those stored without a lease
  included. There a run and the request may both transfer one file, and the lease
  orders nothing; what keeps the row right is that both were told the same folder.
  `NonInterviewInv` says so: what is stored is stored as chosen (`StoredAsChosen`), every run
  and the request hold the chosen folder in their copies, and whoever is past its upload
  has the file there and on the row (`StoringRun`, `StoringRequest`). So it does not matter
  who commits last, and the theorems ask for one request at a time only because a second one
  chooses anew. Each move of a process is described once (`StoringMove`: it stops, loads,
  sends, records, links or ends) and the invariants are shown for these moves.
- `PipelineImplementsLifecycle` (`ImplementsLifecycle`): with the agreement of copy and row
  the check of `transition_to` against the copy is one against the row. `ScanInv` adds that
  found recordings are in the hands of the scanner, because `FailFound` writes after it gave
  the lease back.

**Reroute.**

- `RerouteTypeCorrect`: `Spec => []TypeOK` for `Reroute`, from the `ASSUME`s of `Reroute`
  alone, so with requests that outlive their lease and any number of faults. `TypeOK` is not
  inductive: a task needs a target folder, and `WriteCard` a link. `IInv` adds what the
  phase of an operation says of its columns (`OpInv`), that stored operations only gain
  columns (`Grows`), so that the older copy a request holds still fits, and what each step
  of a request says of that copy (`HeldInv`). `Core` and `Rest` split `IInv` into what the
  shared building blocks touch and what they leave.
- `NothingIsLost` (`[]NothingLost`), under the same assumptions: only `FinishTask` and the
  uploads of other recordings change the NAS (`StorageStays`), and each keeps the one place
  of file and marker (`CarriedKeepsOne`, `OtherKeepsOne`).
- `OneReroute`: if `SlowRequests = FALSE`, `Spec => []OneRequestAtATime`. `HoldsLease` says
  that a running request is the one the row names and its lease is not over; therefore the
  lease it clears at its end is its own.
- `MovesAreOnRecord` (`[]MoveIsOnRecord`) and `OthersAreUntouched` (`OthersUntouched`). The
  tasks of the NAS outlive their requests, so `MoveInv` is about tasks first: each starts in
  the folder the row names, a task for the file has its target on record, a task for the
  marker comes after the file. Hence there is one kind of task at a time, and where file and
  marker have arrived there is none. What an operation once proved (`Proved`) stays true, or
  its target is in the history of the paths, where the unique column lets no transaction
  switch to it.
- `SwitchesAreProved` (`SwitchAfterProof`), for requests that may outlive their lease: several
  may move the file at once, and what one of them proved may be undone before it commits.
  `SwitchInv` makes the unique history the argument. Every source a stale copy or a task
  names has been the row's path, so it is in the history (`SourcesInv`); no task can
  leave a folder that is not in it. What has arrived in a new folder therefore stays, the
  phase of an operation and the step of a request can be trusted about it (`ArrivalsInv`),
  and a folder from which the file may have been carried on is one the last transaction
  refuses.
- `RerouteImplementsRelocation` (`ImplementsRelocation`): `StepRelocates` maps the end of a
  task to a move and `Finish` to the row that follows; `CopiesInv`, that without
  reassignments the version in a request's copy is the row's, gives the next version.
- `LinkIsOnSomeCard` (`[]LinkOnSomeCard`), about reassignments: `CardInv` says that a
  confirmation about to clear the source has read the link back from the target, and that
  nobody has written there since.

**Questions.**

- `NobodyIsAskedThrice` (`[]AskedAtMostTwice`), `CountsNeedPosts` (`[]CountedByPosts`) and
  `DigestTypeCorrect`. The count of a question is written when its summary is delivered, the
  limit checked when a summary is built. `DigestInv` bridges them: at most one summary is on
  its way, the open questions it was built from are bound to it, and its text shows none but
  these (`BindingInv`), so that what was
  delivered and what is on its way are together at most two days, and the count of an open
  question is the number of delivered summaries it was bound to (`CountInv`), whether the text
  showed it or not; a message that may still be sent has
  attempts left, and a sent one was posted (`OutboxInv`).
- `RepeatsApplyOnce` (`RetriesApplyOnce`) and `ReviewTypeCorrect`. The type of versions is not
  inductive: requests count from stale copies without a bound. `ReviewInv` numbers the
  questions as they are asked and bounds versions by that number, those a scan or a request
  has read for a question it is about to insert included (`AsksOK`), because a question is
  answered for the version it was asked with.
- `QuestionsTypeCorrect` joins both for the composed instances (`[]QuestionsTypeOK`).

**Services.**

- `JobsTypeCorrect`, `AtMostOneJob` (`[]OneOpenJob`) and `DecisionsAreFinal`. `JobsInv` adds
  that a request that waits holds an active job no other request holds (`WorkInv`), and
  how far versions grow past the bound (`VersionInv`): the commit of a decision has no bound
  in its guard, and is in range because a waiting recording can only have been matched.
- `CleanupTypeCorrect`, `EveryMoveIsTraced` (`[]MovesAreTraced`) and `DeletedFilesAreGone`
  (`[]DeletedIsGone`). Two previews may race for a file; what keeps the second from
  recording the same deletion is that the file is no longer there. So `CleanupInv` follows a
  file from the move to the record: `RowsInv`, the row of an item in a move says `processing`
  and no other confirmation of the preview moves it; `TrashInv`, a confirmation that has
  moved a file and not recorded it is the only one, the file is gone and no row says
  moved; `ResultInv`, at most one row does, exactly when `deleted_from_disk_at` is set;
  `TracedInv`, the trace itself; `SweepInv`, what a confirmation knows of its preview.
- `IntentsTypeCorrect` and `ResponsesMatch` (`[]ResponseMatchesCommits`). `RoutedInv` adds that
  a request about to complete a route key has committed the route; a summary's commit and
  completion are one step of the owner, so a key that changed hands is counted once.
- `TokensTypeCorrect` and `NoGrantIsNeedless` (`[]NoNeedlessGrant`). `GoodIsStored` says that a
  token nothing happened to is the last one and the stored one; `CallersInv` that whoever
  holds the lock over a grant has seen a stored token that was no good, `OneHolder` that
  nobody else does.
- `ActiveRecruitersHaveDefaults` (`[]ActiveHasDefault`). `DefaultInv` says that there is at
  most one default (the unique index) and one already between the check of an activation and
  its commit, `SetupInv` which discovery belongs to which command: so no overlapping
  discovery or selection takes the default away under it.
- `AutomaticMatchesAreUnambiguous` (`[]AutomaticIsUnambiguous`): scores are bounded by the
  signals that matched, so whatever reaches the threshold had the signals the property names,
  and the choice of the first of equal events changes neither calendar nor meeting.
- `SourcesTypeCorrect`: a task in `_inflight` exists, is awaited and is alone with its key
  (`InflightInv`), a request that waits waits for a task that exists (`SearchInv`); a new task
  finds a free number because each request names at most one.
- `ServicesTypeCorrect` (`[]ServicesTypeOK`) joins the invariants of all seven services.

Model-checked only: the liveness properties (`RunsSettle`, `RequestsEnd`, those of
`questions` and `services`), which are out of the prover's reach together with fairness and
ENABLED; `SearchesRecover`, which says that something stops; and the six properties the
findings refute, which are not theorems.

## Not modelled

Request validation, configuration, message texts, parsing and building of filenames,
parsing of Notion pages, request building and pagination of the clients, discovery of Disk
files, the validation of folders against live Synology metadata (a destination of the model is
a valid one), the chat agent's client script, migrations and deployment. The repair scripts and
toggles an operator runs by hand are left out, and so are parts without a caller:
`delete_expired` of the source retention (the tests assert that no job runs it), `issue_review`
and `deliver_terminal`. The mailbox search of a summary email appears as its outcomes.

A clean exception that no handler expects (a database error, a configuration
`PermissionError`) is a fault that releases the lease and leaves the row. Synology, Notion,
Mattermost, CalDAV and Yandex are modelled from how the code uses them: a write that is
reported as failed may have happened.

## Plan

1. `RecordingPipeline`, `RecordingLifecycle` and their proofs (done).
2. `Reroute`, `Relocation` and the first proofs about them (done).
3. `ReviewQueue`, `Outbox`, `DailyDigest` (done).
4. `RoutingJobs`, `Cleanup`, `Intents`, `Tokens` with proofs (done); `Calendars`,
   `NotionSources`, `Matching` (done).
5. Proofs of every safety property and both refinements, under the weakest hypotheses found
   (done). Left: what holds of a status when runs outlive their lease, as a theorem of its
   own, and the composition of the questions with the pipeline's row.
