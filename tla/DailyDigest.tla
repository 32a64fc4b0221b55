---------------------------- MODULE DailyDigest ----------------------------
(***************************************************************************)
(* The daily job of app/scheduler/cron.py: it claims the digest of the     *)
(* day, scans, and has question_queue.py build one summary of the open     *)
(* questions, which the outbox delivers.  A question is in at most two     *)
(* delivered summaries; after them the next digest suppresses it.  The     *)
(* summary is cut to the length of a message after its questions are       *)
(* bound to it, so one that is counted may not have been shown.  Who asks  *)
(* and answers the questions is ReviewQueue; here a question is asked,     *)
(* answered, or left open when its recording settles some other way.       *)
(***************************************************************************)
EXTENDS Outbox, FiniteSets

CONSTANTS
  DigestQuestions,   \* questions of one recruiter
  MaxDays            \* bound on days with a digest

ASSUME DaysAssumption == MaxDays \in Nat \ {0}

VARIABLES
  review,     \* review[i]: the ManualReview row of question i
  digest,     \* digest[d]: status of the QuestionDigest row of day d
  bound,      \* bound[d]: the questions the summary of day d was built from
  listed,     \* listed[d]: those of them in the text that is sent
  today,      \* the recruiter's local date
  stale,      \* the claim on today's digest is older than SUMMARY_CLAIM_TTL
  daily       \* what the daily job does next

digestVars == <<review, digest, bound, listed, today, stale, daily, outboxVars>>

Days       == 1..MaxDays

ASSUME NoneIsNoDay == None \notin Days

Summary(d) == <<"summary", d>>
Unsettled  == {"pending", "sending"}

(* A route question is about a recording in manual review; the others (the *)
(* DISCARD_ONLY_QUESTION_TYPES) are asked about settled recordings.        *)
DigestRows ==
  [ kind    : {"route", "discard"},
    status  : {"absent", "pending", "answered", "completed", "suppressed"},
    settled : BOOLEAN,              \* its recording is completed or ignored
    count   : 0..MaxDays,           \* automatic_delivery_count
    digest  : Days \cup {None} ]    \* digest_id

DigestTypeOK ==
  /\ OutboxTypeOK
  /\ review \in [DigestQuestions -> DigestRows]
  /\ digest \in [Days -> {"none", "pending", "sent", "failed"}]
  /\ {bound, listed} \subseteq [Days -> SUBSET DigestQuestions]
  /\ today \in Days
  /\ stale \in BOOLEAN
  /\ daily \in {"idle", "scanning", "build"}
  /\ Queued \subseteq {Summary(d) : d \in Days}

DigestInit ==
  /\ OutboxInit
  /\ \E kind \in [DigestQuestions -> {"route", "discard"}] :
       review = [i \in DigestQuestions |->
         [ kind |-> kind[i], status |-> "absent", settled |-> kind[i] = "discard",
           count |-> 0, digest |-> None ]]
  /\ digest = [d \in Days |-> "none"]
  /\ bound = [d \in Days |-> {}]
  /\ listed = [d \in Days |-> {}]
  /\ today = 1
  /\ stale = FALSE
  /\ daily = "idle"

Open == {i \in DigestQuestions : review[i].status = "pending"}
-----------------------------------------------------------------------------
(* The daily job.                                                          *)

(* Mutant of ClaimDigest: the claim of a job that died is never given up.  *)
ClaimDigestOnce ==
  /\ daily = "idle"
  /\ digest[today] \in {"none", "failed"}
  /\ digest' = [digest EXCEPT ![today] = "pending"]
  /\ stale' = FALSE
  /\ daily' = "scanning"
  /\ UNCHANGED <<review, bound, listed, today, outboxVars>>

(* _claim_daily_digest: once a day, again after a failure or a stale claim. *)
ClaimDigest ==
  /\ daily = "idle"
  /\ digest[today] \in {"none", "failed"} \/ (digest[today] = "pending" /\ stale)
  /\ digest' = [digest EXCEPT ![today] = "pending"]
  /\ stale' = FALSE
  /\ daily' = "scanning"
  /\ UNCHANGED <<review, bound, listed, today, outboxVars>>

ClaimGoesStale ==
  /\ daily = "idle" /\ digest[today] = "pending" /\ ~stale
  /\ stale' = TRUE
  /\ UNCHANGED <<review, digest, bound, listed, today, daily, outboxVars>>

ScanEnds ==
  /\ daily = "scanning"
  /\ daily' = "build"
  /\ UNCHANGED <<review, digest, bound, listed, today, stale, outboxVars>>

(* The scan was aborted, or something raised: _mark_daily_digest_failed.   *)
DailyFails ==
  /\ daily # "idle"
  /\ OutboxFault
  /\ digest' = [digest EXCEPT ![today] = "failed"]
  /\ daily' = "idle"
  /\ UNCHANGED <<review, bound, listed, today, stale, outbox, posts, batch>>

(* The backend stops: the digest stays claimed.                            *)
DailyStops ==
  /\ daily # "idle"
  /\ OutboxFault
  /\ daily' = "idle"
  /\ UNCHANGED <<review, digest, bound, listed, today, stale, outbox, posts, batch>>

NextDay ==
  /\ today < MaxDays /\ daily = "idle"
  /\ today' = today + 1
  /\ stale' = FALSE
  /\ UNCHANGED <<review, digest, bound, listed, daily, outboxVars>>
-----------------------------------------------------------------------------
(* build_digest.                                                           *)

Outstanding ==
  \E d \in Days \ {today} : Summary(d) \in Queued /\ outbox[Summary(d)].status \in Unsettled

(* Its recording settled some other way: the question is closed, unless it *)
(* is one of those that are asked about settled recordings.                *)
ClosedBySettling(i) == review[i].kind = "route" /\ review[i].settled

(* Mutant of Exhausted: one reminder more than the recruiter was promised. *)
ExhaustedLate(i) == review[i].count >= 3

Exhausted(i) == review[i].count >= 2

(* Mutant of Bound: a question counts as shown when its summary is built.  *)
BoundAndCounted(i) == [review[i] EXCEPT !.digest = today, !.count = @ + 1]

Bound(i) == [review[i] EXCEPT !.digest = today]

(* Another day's summary is still out, or today's was built before.        *)
DigestSkipped ==
  /\ daily = "build"
  /\ Outstanding \/ digest[today] # "pending" \/ Summary(today) \in Queued
  /\ daily' = "idle"
  /\ UNCHANGED <<review, digest, bound, listed, today, stale, outboxVars>>

(* Closes, suppresses, binds the rest to the digest with a new capability  *)
(* and queues the summary; with nothing to show (or daily_digest_enabled   *)
(* off) the digest is done.  Fifty of the recruiter's questions have a     *)
(* place in it, and its text ends at 4000 characters: which of the         *)
(* questions here have a place, and which are seen, depends on the others. *)
BuildDigest ==
  /\ daily = "build"
  /\ ~Outstanding /\ digest[today] = "pending" /\ Summary(today) \notin Queued
  /\ \E shows \in BOOLEAN :
       LET fit == {i \in Open : ~ClosedBySettling(i) /\ ~Exhausted(i)} IN
       \E placed \in IF shows THEN SUBSET fit ELSE {{}} : \E seen \in SUBSET placed :
       /\ review' = [i \in DigestQuestions |->
            IF i \notin Open THEN review[i]
            ELSE IF ClosedBySettling(i) THEN [review[i] EXCEPT !.status = "completed"]
            ELSE IF Exhausted(i) THEN [review[i] EXCEPT !.status = "suppressed"]
            ELSE IF i \in placed THEN Bound(i)
            ELSE review[i]]
       /\ bound' = [bound EXCEPT ![today] = placed]
       /\ listed' = [listed EXCEPT ![today] = seen]
       /\ outbox' = IF shows THEN Queue(outbox, {Summary(today)}) ELSE outbox
       /\ digest' = IF shows THEN digest ELSE [digest EXCEPT ![today] = "sent"]
  /\ daily' = "idle"
  /\ UNCHANGED <<today, stale, posts, batch, outboxFaults>>

Counted(i, d) == i \in Open /\ review[i].digest = d

(* deliver_claimed: a delivered summary counts for the questions bound to  *)
(* it that are still pending, shown or not, and its digest is done.        *)
DeliverSummary(d) ==
  /\ Deliver(Summary(d))
  /\ review' = [i \in DigestQuestions |->
       IF Counted(i, d) THEN [review[i] EXCEPT !.count = @ + 1] ELSE review[i]]
  /\ digest' = [digest EXCEPT ![d] = "sent"]
  /\ UNCHANGED <<bound, listed, today, stale, daily>>
-----------------------------------------------------------------------------
(* The rest of the system.                                                 *)

AskQuestion(i) ==
  /\ review[i].status = "absent"
  /\ review' = [review EXCEPT ![i].status = "pending"]
  /\ UNCHANGED <<digest, bound, listed, today, stale, daily, outboxVars>>

(* An answer is accepted, or rejected because the capability has expired.  *)
AnswerQuestion(i) ==
  /\ review[i].status = "pending"
  /\ \E s \in {"answered", "suppressed"} : review' = [review EXCEPT ![i].status = s]
  /\ UNCHANGED <<digest, bound, listed, today, stale, daily, outboxVars>>

RecordingSettles(i) ==
  /\ review[i].status = "pending" /\ ~review[i].settled
  /\ review' = [review EXCEPT ![i].settled = TRUE]
  /\ UNCHANGED <<digest, bound, listed, today, stale, daily, outboxVars>>

Aside == UNCHANGED <<review, digest, bound, listed, today, stale, daily>>

DailyStep == ClaimDigest \/ ScanEnds \/ DigestSkipped \/ BuildDigest
DrainStep == (Aside /\ ClaimOutbox) \/ \E d \in Days : DeliverSummary(d)
HoldStep  == Aside /\ \E k \in Queued : HoldEnds(k)

DigestNext ==
  \/ DailyStep \/ DrainStep \/ HoldStep \/ ClaimGoesStale
  \/ DailyFails \/ DailyStops \/ NextDay
  \/ Aside /\ (DrainStops \/ \E k \in Queued : DeliveryFails(k))
  \/ \E i \in DigestQuestions : AskQuestion(i) \/ AnswerQuestion(i) \/ RecordingSettles(i)

(* The two jobs run every minute and every ten seconds, one at a time;     *)
(* backoffs, claims and the claim on a digest run out with time.           *)
DigestFairness ==
  /\ WF_digestVars(DailyStep) /\ WF_digestVars(DrainStep)
  /\ WF_digestVars(HoldStep) /\ WF_digestVars(ClaimGoesStale)

DigestSpec == DigestInit /\ [][DigestNext]_digestVars /\ DigestFairness
-----------------------------------------------------------------------------
(* Properties.                                                             *)

Delivered(i) ==
  {d \in Days : i \in listed[d] /\ Summary(d) \in Queued /\ outbox[Summary(d)].status = "sent"}

(* A question is shown in its first summary and repeated in one more, no   *)
(* matter which sends failed, which drain died, and on which days a job    *)
(* failed or ran again.                                                    *)
AskedAtMostTwice == \A i \in DigestQuestions : Cardinality(Delivered(i)) <= 2

(* No question is counted more often than Mattermost has posts of          *)
(* summaries built from it, whichever sends failed or were repeated: a     *)
(* reminder that did not go out does not use up one of the two.            *)
CountedByPosts ==
  \A i \in DigestQuestions :
    review[i].count <= Cardinality({d \in Days : i \in bound[d] /\ Summary(d) \in posts})

(* What the documents promise: a question is repeated once before it is    *)
(* suppressed.  A text that was cut is counted all the same.               *)
SuppressedWasRepeated ==
  \A i \in DigestQuestions :
    (review[i].status = "suppressed" /\ Exhausted(i)) => Cardinality(Delivered(i)) = 2

(* A job that dies or fails between its claim and its summary costs a      *)
(* delay, not the day: the digest of the day is done, or its summary sent  *)
(* or given up; or the day passes, and the same is true of the next.       *)
DigestRecovers ==
  digest[today] = "pending" ~>
    \/ digest[today] = "sent"
    \/ Summary(today) \in Queued /\ outbox[Summary(today)].status \in {"sent", "failed"}

(* A queued message is sent in the end, or has failed as often as allowed, *)
(* whichever drain claimed it and died.                                    *)
MessagesSettle == <>[](\A k \in Queued : outbox[k].status \in {"sent", "failed"})
=============================================================================
