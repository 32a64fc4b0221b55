---------------------------- MODULE ReviewQueue ----------------------------
(***************************************************************************)
(* The questions a recruiter is asked and answers: reviews.py and          *)
(* question_queue.py of app/services, the answering, routing and summary   *)
(* endpoints of app/routers/tools.py, and the end of a scan in             *)
(* app/scheduler/cron.py.  The pipeline that carries a recording on is     *)
(* RecordingPipeline, the workers that route it RoutingJobs, the daily     *)
(* summaries are DailyDigest; here they only do to recordings and          *)
(* questions what they may.                                                *)
(*                                                                         *)
(* A request loads a question and its recording without a lock, and then   *)
(* again FOR UPDATE: the second SELECT waits for other transactions, but   *)
(* the identity map keeps the attributes loaded first, so copy[p] is what  *)
(* the answer is checked against.                                          *)
(***************************************************************************)
EXTENDS Naturals, FiniteSets, Common

CONSTANTS
  Interviews,       \* recordings of one recruiter
  Answers,          \* concurrent answer requests
  Scan,             \* the process that scans (one per recruiter: _SCAN_LOCKS)
  ReplayKeys,       \* idempotency keys
  MaxQuestions,     \* bound on questions ever asked
  MaxTalkVersion    \* bound on the versions that routes and summaries reach

ASSUME ScanAssumption  == Scan \notin Answers
ASSUME BoundAssumption == {MaxQuestions, MaxTalkVersion} \subseteq Nat

VARIABLES
  talk,       \* talk[r]: status, version and terminal_notified_at of recording r
  question,   \* question[i]: the ManualReview row i, or None
  notices,    \* dedupe keys of the messages queued in the outbox
  replays,    \* completed IntentReplay rows of answers
  step,       \* step[p]: what process p does next
  asked,      \* asked[p]: the answer request p carries
  copy,       \* copy[p]: the rows request p loaded
  plan        \* plan[p]: what p's reconcile or enqueue has decided on

rows       == <<talk, question>>
requests   == <<step, asked, copy, plan>>
reviewVars == <<rows, notices, replays, requests>>

QuestionIds == 1..MaxQuestions
Procs       == Answers \cup {Scan}
Versions    == 0..(MaxTalkVersion + MaxQuestions)

(* "route" stands for every question about a recording in manual review;   *)
(* approval and email are DISCARD_ONLY_QUESTION_TYPES, asked beside the    *)
(* status of the recording.                                                *)
DiscardOnly == {"approval", "email"}
Pending     == {i \in QuestionIds : question[i] # None /\ question[i].status = "pending"}
Free        == {i \in QuestionIds : question[i] = None}

(* found stands for calendar_event_found too, storing for what lies        *)
(* between transfer_started and awaiting_summary_email, marked for         *)
(* source_marked_processed, review for manual review.                      *)
UnderWay   == {"found", "matched", "storing", "marked"}
Settled    == {"completed", "ignored"}     \* SETTLED_RECORDING_STATUSES
TalkStatus == {"review", "failed"} \cup UnderWay \cup Settled

Questions ==
  [ talk    : Interviews,
    kind    : {"route"} \cup DiscardOnly,
    status  : {"pending", "processing", "completed", "failed", "suppressed"},
    version : Versions ]     \* recording_version

Talks ==
  [ status   : TalkStatus,
    version  : Versions,
    notified : BOOLEAN ]

Asks    == [ question : QuestionIds, action : {"resolve", "ignore"}, key : ReplayKeys ]

ASSUME NoneIsNoRow == None \notin Questions \cup Asks

NoPlan  == [ closes |-> {}, asks |-> {}, notes |-> {} ]
NewTalk == [ status |-> "found", version |-> 0, notified |-> FALSE ]

NewQuestion(r, kind, v) ==
  [ talk |-> r, kind |-> kind, status |-> "pending", version |-> v ]

ReviewTypeOK ==
  /\ talk \in [Interviews -> Talks]
  /\ question \in [QuestionIds -> Questions \cup {None}]
  /\ step \in [Procs -> {"idle", "loaded", "answered", "reconcile", "asking", "enqueue"}]
  /\ asked \in [Answers -> Asks \cup {None}]
  /\ replays \subseteq Asks
  /\ \A p \in Answers : step[p] = "loaded" => asked[p] # None /\ question[asked[p].question] # None
  /\ \A p \in Procs : plan[p].asks \subseteq Interviews \X Versions

ReviewInit ==
  /\ talk = [r \in Interviews |-> NewTalk]
  /\ question = [i \in QuestionIds |-> None]
  /\ notices = {}
  /\ replays = {}
  /\ step = [p \in Procs |-> "idle"]
  /\ asked = [p \in Answers |-> None]
  /\ copy = [p \in Answers |-> None]
  /\ plan = [p \in Procs |-> NoPlan]

ToStep(p, s) == step' = [step EXCEPT ![p] = s]
-----------------------------------------------------------------------------
(* Answering: apply_partial with one answer, then the rest of the request. *)

(* session.get of the question, and the unlocked SELECT with its recording. *)
(* (A request with an older capability changes nothing.)                   *)
LoadQuestion(p) ==
  /\ step[p] = "idle"
  /\ \E ask \in Asks :
       LET q == question[ask.question] IN
       /\ q # None
       /\ asked' = [asked EXCEPT ![p] = ask]
       /\ copy' = [copy EXCEPT ![p] =
            [ kind |-> q.kind, version |-> q.version, pending |-> q.status = "pending",
              talk |-> q.talk, talkStatus |-> talk[q.talk].status,
              talkVersion |-> talk[q.talk].version ]]
  /\ ToStep(p, "loaded")
  /\ UNCHANGED <<rows, notices, replays, plan>>

(* _validate_binding and transition_to, against the copy.                  *)
Answerable(c) ==
  /\ c.pending
  /\ c.talkVersion = c.version
  /\ c.kind \in DiscardOnly \/ c.talkStatus = "review"

(* Mutant of StatusAfter: the answer is written in the status.             *)
StatusAfterAnswer(action) == {action}

(* A choice names the event, the card or the folder.                       *)
StatusAfter(action) == IF action = "ignore" THEN {"ignored"} ELSE {"found", "matched", "storing"}

(* The answer is dealt with; the request goes on to reconcile.             *)
Processed(p) ==
  /\ ToStep(p, "answered")
  /\ asked' = [asked EXCEPT ![p] = None]
  /\ copy' = [copy EXCEPT ![p] = None]

(* The key was used before: the recorded result is returned.               *)
AnswerReplayed(p) ==
  /\ step[p] = "loaded" /\ asked[p] \in replays
  /\ Processed(p)
  /\ UNCHANGED <<rows, notices, replays, plan>>

(* Rejected: not as it was when it was asked, or its capability expired;   *)
(* an expired question is suppressed, and the batch commits that.          *)
AnswerRejected(p) ==
  /\ step[p] = "loaded" /\ asked[p] \notin replays
  /\ \/ ~Answerable(copy[p]) /\ UNCHANGED question
     \/ /\ copy[p].pending
        /\ question' = [question EXCEPT ![asked[p].question].status = "suppressed"]
  /\ Processed(p)
  /\ UNCHANGED <<talk, notices, replays, plan>>

(* Mutant of Unanswered: the replay is not looked for under the row lock.  *)
UnansweredUnchecked(p) == step[p] = "loaded" /\ Answerable(copy[p])

Unanswered(p) == step[p] = "loaded" /\ asked[p] \notin replays /\ Answerable(copy[p])

(* mutate: recording, question, replay and the acknowledgement, committed  *)
(* together.  It writes the attributes it assigns: the status, a version   *)
(* counted from the copy, and the status of the question.                  *)
AnswerAccepted(p) ==
  LET i == asked[p].question
      c == copy[p] IN
  /\ Unanswered(p)
  /\ \E s \in StatusAfter(asked[p].action) :
       talk' = [talk EXCEPT ![c.talk].version = c.talkVersion + 1,
                 ![c.talk].status = IF c.kind \in DiscardOnly THEN @ ELSE s]
  /\ question' = [question EXCEPT ![i].status = "processing"]
  /\ replays' = replays \cup {asked[p]}
  /\ notices' = notices \cup {<<"start", i, c.talkVersion + 1>>}
  /\ Processed(p)
  /\ UNCHANGED <<plan>>

(* The request dies: what it committed stays.                              *)
RequestStops(p) ==
  /\ step[p] # "idle"
  /\ ToStep(p, "idle")
  /\ asked' = [asked EXCEPT ![p] = None]
  /\ copy' = [copy EXCEPT ![p] = None]
  /\ plan' = [plan EXCEPT ![p] = NoPlan]
  /\ UNCHANGED <<rows, notices, replays>>
-----------------------------------------------------------------------------
(* reconcile_processing: what became of the accepted answers.              *)

Processing(i) == question[i] # None /\ question[i].status = "processing"

(* Mutant of Closable: an answer that led to another question stays open.  *)
ClosableIfSettled(i) ==
  Processing(i) /\ talk[question[i].talk].status \in Settled \cup {"failed"}

Closable(i) ==
  Processing(i) /\ talk[question[i].talk].status \in Settled \cup {"failed", "review"}

Outcome(s) == IF s = "failed" THEN "failed" ELSE "completed"

(* Mutant of Unasked: one question for a recording is enough for ever.     *)
UnaskedEver(R) ==
  {r \in R : talk[r].status = "review" /\ \A i \in QuestionIds \ Free : question[i].talk # r}

(* enqueue_review asks only about a recording without a pending question.  *)
Unasked(R) ==
  {r \in R : talk[r].status = "review" /\ \A i \in Pending : question[i].talk # r}

(* What it will ask, with the versions of the copies it holds.             *)
Asking(R) == {<<r, talk[r].version>> : r \in Unasked(R)}

(* The questions and their recordings are read; enqueue_review then waits  *)
(* for Mattermost before it inserts.                                       *)
LookAtProcessing(p) ==
  LET ids  == {i \in QuestionIds : Closable(i)}
      told == {i \in ids : talk[question[i].talk].status \in {"ignored", "review"}} IN
  /\ step[p] = "answered"
  /\ plan' = [plan EXCEPT ![p] =
       [ closes |-> {<<i, Outcome(talk[question[i].talk].status)>> : i \in ids},
         notes  |-> {<<"closed", i, question[i].version>> : i \in told},
         asks   |-> Asking({question[i].talk : i \in told}) ]]
  /\ ToStep(p, "reconcile")
  /\ UNCHANGED <<rows, notices, replays, asked, copy>>

(* The questions become q plus a new one for each of A, a recording and    *)
(* the version it had when it was read, at the lowest free numbers; past   *)
(* the bound on questions nothing is asked.                                *)
Insert(q, A) ==
  \/ /\ Cardinality(A) > Cardinality(Free)
     /\ question' = q
  \/ \E f \in [A -> Free] :
       LET new == {f[a] : a \in A} IN
       /\ Cardinality(new) = Cardinality(A)
       /\ \A i \in new, j \in Free \ new : i < j
       /\ question' = [i \in QuestionIds |->
            IF i \in new
              THEN LET a == CHOOSE x \in A : f[x] = i IN NewQuestion(a[1], "route", a[2])
              ELSE q[i]]

(* mark_terminal for each, the new questions, the messages: one commit.    *)
Reconcile(p) ==
  LET closed(i) == {s \in {"completed", "failed"} : <<i, s>> \in plan[p].closes} IN
  /\ step[p] = "reconcile"
  /\ Insert([i \in QuestionIds |-> IF closed(i) = {} THEN question[i]
               ELSE [question[i] EXCEPT !.status = CHOOSE s \in closed(i) : TRUE]],
            plan[p].asks)
  /\ notices' = notices \cup plan[p].notes
  /\ plan' = [plan EXCEPT ![p] = NoPlan]
  /\ ToStep(p, IF p = Scan THEN "asking" ELSE "idle")
  /\ UNCHANGED <<talk, replays, asked, copy>>
-----------------------------------------------------------------------------
(* The end of a scan: reconcile, then ask about what waits for an answer.  *)

StartScan ==
  /\ step[Scan] = "idle"
  /\ ToStep(Scan, "answered")
  /\ UNCHANGED <<rows, notices, replays, asked, copy, plan>>

LookAtReviews ==
  /\ step[Scan] = "asking"
  /\ plan' = [plan EXCEPT ![Scan] = [NoPlan EXCEPT !.asks = Asking(Interviews)]]
  /\ ToStep(Scan, "enqueue")
  /\ UNCHANGED <<rows, notices, replays, asked, copy>>

EndScan ==
  /\ step[Scan] = "enqueue"
  /\ Insert(question, plan[Scan].asks)
  /\ plan' = [plan EXCEPT ![Scan] = NoPlan]
  /\ ToStep(Scan, "idle")
  /\ UNCHANGED <<talk, notices, replays, asked, copy>>

(* The scan raises, or the backend stops.                                  *)
ScanStops ==
  /\ step[Scan] # "idle"
  /\ ToStep(Scan, "idle")
  /\ plan' = [plan EXCEPT ![Scan] = NoPlan]
  /\ UNCHANGED <<rows, notices, replays, asked, copy>>

(* build_digest on its questions: those of settled recordings are closed,  *)
(* some of the others suppressed, because they were asked twice before.    *)
DigestCloses ==
  /\ \E suppressed \in SUBSET Pending :
       question' = [i \in QuestionIds |->
         IF i \notin Pending THEN question[i]
         ELSE IF question[i].kind = "route" /\ talk[question[i].talk].status \in Settled
           THEN [question[i] EXCEPT !.status = "completed"]
         ELSE IF i \in suppressed THEN [question[i] EXCEPT !.status = "suppressed"]
         ELSE question[i]]
  /\ UNCHANGED <<talk, notices, replays, requests>>

(* Mutant of Unannounced: what was announced once is never announced again. *)
UnannouncedEver(r) ==
  /\ talk[r].status \in {"completed", "failed"}
  /\ \A s \in {"completed", "failed"}, v \in Versions : <<"terminal", s, r, v>> \notin notices

Unannounced(r) == talk[r].status \in {"completed", "failed"} /\ ~talk[r].notified

(* queue_terminal_notifications: an ended recording is announced once.     *)
Announce(r) ==
  /\ Unannounced(r)
  /\ talk' = [talk EXCEPT ![r].notified = TRUE]
  /\ notices' = notices \cup {<<"terminal", talk[r].status, r, talk[r].version>>}
  /\ UNCHANGED <<question, replays, requests>>
-----------------------------------------------------------------------------
(* The rest of the system.                                                 *)

(* route-interview: every open question of the recording is answered by it *)
(* (reset_for_retry forgets that a failure was announced).                 *)
RouteInterview(r) ==
  /\ talk[r].status \in {"matched", "review", "failed"} /\ talk[r].version < MaxTalkVersion
  /\ talk' = [talk EXCEPT ![r] =
       [ status |-> "storing", version |-> @.version + 1,
         notified |-> @.notified /\ @.status # "failed" ]]
  /\ question' = [i \in QuestionIds |->
       IF i \in Pending /\ question[i].talk = r THEN [question[i] EXCEPT !.status = "completed"]
       ELSE question[i]]
  /\ UNCHANGED <<notices, replays, requests>>

(* A scan or a resuming request goes on with the recording: asks for a     *)
(* decision, stores it, ends with it.                                      *)
PipelineGoes(r) ==
  /\ \/ talk[r].status \in {"found", "matched", "storing"}
        /\ talk' = [talk EXCEPT ![r].status = "failed"]
     \/ talk[r].status \in {"found", "matched", "storing"} /\ Free # {}
        /\ talk' = [talk EXCEPT ![r].status = "review"]
     \/ talk[r].status = "matched"
        /\ talk' = [talk EXCEPT ![r].status = "storing"]
     \/ talk[r].status = "storing"
        /\ \E s \in {"completed", "marked"} : talk' = [talk EXCEPT ![r].status = s]
  /\ UNCHANGED <<question, notices, replays, requests>>

(* The candidate is found, or a worker chooses the folder.                 *)
PipelineDecides(r) ==
  /\ talk[r].status \in {"found", "matched"} /\ talk[r].version < MaxTalkVersion
  /\ talk' = [talk EXCEPT ![r].version = @ + 1,
               ![r].status = IF @ = "found" THEN "matched" ELSE "storing"]
  /\ UNCHANGED <<question, notices, replays, requests>>

(* The second commit after the mark, which no other run makes up for.      *)
PipelineCompletes(r) ==
  /\ talk[r].status = "marked"
  /\ talk' = [talk EXCEPT ![r].status = "completed"]
  /\ UNCHANGED <<question, notices, replays, requests>>

AskBeside(r, kind, v) ==
  \E i \in Free : /\ \A j \in Free : i <= j
                  /\ question' = [question EXCEPT ![i] = NewQuestion(r, kind, v)]

(* A worker defers to the recruiter: status and question in one commit.    *)
WorkerDefers(r) ==
  LET v == talk[r].version + 1 IN
  /\ talk[r].status = "matched" /\ talk[r].version < MaxTalkVersion
  /\ talk' = [talk EXCEPT ![r].version = v, ![r].status = "review"]
  /\ \/ (\A i \in Pending : question[i].talk # r) /\ AskBeside(r, "route", v)
     \/ (\E i \in Pending : question[i].talk = r) /\ UNCHANGED question
  /\ UNCHANGED <<notices, replays, requests>>

(* submit_summary: the assessment wants approval.                          *)
SubmitSummary(r) ==
  /\ talk[r].status # "failed" /\ talk[r].version < MaxTalkVersion
  /\ talk' = [talk EXCEPT ![r].version = @ + 1]
  /\ AskBeside(r, "approval", talk[r].version + 1)
  /\ UNCHANGED <<notices, replays, requests>>

(* _escalate_ambiguous_summary_email, in one commit with the status that   *)
(* waits for the email.                                                    *)
EscalateEmail(r) ==
  /\ talk[r].status = "storing"
  /\ \A i \in Pending : question[i].talk = r => question[i].kind # "email"
  /\ AskBeside(r, "email", talk[r].version)
  /\ UNCHANGED <<talk, notices, replays, requests>>
-----------------------------------------------------------------------------
AnswerStep(p) ==
  \/ LoadQuestion(p) \/ AnswerReplayed(p) \/ AnswerRejected(p) \/ AnswerAccepted(p)
  \/ RequestStops(p)

ReconcileStep(p) == LookAtProcessing(p) \/ Reconcile(p)

ScanStep == StartScan \/ ReconcileStep(Scan) \/ LookAtReviews \/ EndScan

Elsewhere(r) ==
  \/ Announce(r) \/ RouteInterview(r)
  \/ PipelineGoes(r) \/ PipelineDecides(r) \/ PipelineCompletes(r)
  \/ WorkerDefers(r) \/ SubmitSummary(r) \/ EscalateEmail(r)

ReviewNext ==
  \/ \E p \in Answers : AnswerStep(p) \/ ReconcileStep(p)
  \/ ScanStep \/ ScanStops \/ DigestCloses
  \/ \E r \in Interviews : Elsewhere(r)

(* Scans run every day, and again and again one of them comes to its end;  *)
(* the drain sweeps every ten seconds, and the scan carries a recording on *)
(* that was found or is being stored (RecordingPipeline!RunsSettle).  A    *)
(* request may stop anywhere; a matched recording may wait for a worker    *)
(* that no job brings (RoutingJobs!JobsDecide), and a marked one is not    *)
(* carried on by any later scan (RecordingPipeline!MarkedCompletes).       *)
CarriedOn(r) ==
  talk[r].status \in {"found", "storing"} /\ (PipelineGoes(r) \/ PipelineDecides(r))

ReviewFairness ==
  /\ []<><<EndScan>>_reviewVars
  /\ \A r \in Interviews : WF_reviewVars(Announce(r)) /\ WF_reviewVars(CarriedOn(r))

ReviewSpec == ReviewInit /\ [][ReviewNext]_reviewVars /\ ReviewFairness
-----------------------------------------------------------------------------
(* Properties.                                                             *)

(* A request with a key that was accepted before changes nothing, even if  *)
(* it loaded the question before the first one committed.                  *)
RetriesApplyOnce ==
  [][\A p \in Answers :
       (step[p] = "loaded" /\ asked[p] \in replays /\ step'[p] = "answered")
         => UNCHANGED rows]_reviewVars

(* An accepted answer is closed in the end, if not by its own request then *)
(* by a scan (reconcile_processing), unless its recording waits for ever   *)
(* for a worker, or at source_marked_processed after a crash: of these     *)
(* reconcile_processing takes no notice.                                   *)
AnswersEnd ==
  \A i \in QuestionIds :
    \/ []<>(~Processing(i))
    \/ <>[](Processing(i) /\ talk[question[i].talk].status \in {"matched", "marked"})

(* The result of a retry is announced although the failure before it was:  *)
(* reset_for_retry and the version in the dedupe key see to that.          *)
ResultIsAnnounced ==
  \A r \in Interviews :
    (talk[r].status = "completed" /\ ~talk[r].notified)
      ~> (talk[r].status # "completed" \/ \E v \in Versions : <<"terminal", "completed", r, v>> \in notices)

(* Whatever sends a recording to manual review, the recruiter gets asked:  *)
(* a scan leaves no recording in review without a pending question.        *)
ReviewIsAsked ==
  \A r \in Interviews :
    talk[r].status = "review"
      ~> (\/ talk[r].status # "review" \/ Free = {}
          \/ \E i \in Pending : question[i].talk = r)
=============================================================================
