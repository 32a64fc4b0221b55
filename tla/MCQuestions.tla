---------------------------- MODULE MCQuestions ----------------------------
(***************************************************************************)
(* ReviewQueue and DailyDigest for TLC.  A behaviour is about one of       *)
(*   "reviews": one request, and all else that happens to recordings,      *)
(*   "crowd"  : two requests that answer the question of one scan, while   *)
(*              the recruiter may route the recording,                     *)
(*   "digest" : the summaries of DailyDigest that ask something.           *)
(***************************************************************************)
EXTENDS ReviewQueue, DailyDigest

CONSTANT FirstAnswer     \* the one request of "reviews"

VARIABLE about

questionVars == <<about, reviewVars, digestVars>>

OneRequest == \A p \in Answers \ {FirstAnswer} : UNCHANGED step[p]

(* In "reviews" only a worker's decision follows an earlier one.           *)
OneDecision ==
  \A r \in Interviews :
    PipelineDecides(r) \/ RouteInterview(r) \/ SubmitSummary(r) => talk[r].version = 0

CrowdNext ==
  \/ \E p \in Answers : AnswerStep(p)
  \/ Free = QuestionIds /\ StartScan
  \/ ReconcileStep(Scan) \/ LookAtReviews \/ EndScan
  \/ \E r \in Interviews :
       \/ RouteInterview(r) \/ PipelineDecides(r)
       \/ PipelineGoes(r) /\ (talk'[r].status = "review" => Free = QuestionIds)

(* A summary in which the question has no place is like a day without one. *)
HasPlace == \A d \in Days : Summary(d) \in DOMAIN outbox' => bound'[d] # {}

QuestionsInit ==
  /\ about \in {"reviews", "crowd", "digest"}
  /\ ReviewInit /\ DigestInit
  /\ about = "digest" \/ \A i \in DigestQuestions : review[i].kind = "route"

QuestionsNext ==
  /\ UNCHANGED about
  /\ \/ about = "reviews" /\ UNCHANGED digestVars /\ ReviewNext /\ OneRequest /\ OneDecision
     \/ about = "crowd"   /\ UNCHANGED digestVars /\ CrowdNext
     \/ about = "digest"  /\ UNCHANGED reviewVars /\ DigestNext /\ HasPlace

QuestionsSpec ==
  /\ QuestionsInit /\ [][QuestionsNext]_questionVars
  /\ \/ about = "reviews" /\ ReviewFairness
     \/ about = "digest"  /\ DigestFairness
     \/ about = "crowd"

QuestionsTypeOK == ReviewTypeOK /\ DigestTypeOK

(* The liveness of ReviewQueue, where its fairness holds.                  *)
AnswersEndByScan     == about = "reviews" => AnswersEnd
ReviewIsAskedByScan  == about = "reviews" => ReviewIsAsked
AnnouncedBySweep     == about = "reviews" => ResultIsAnnounced
=============================================================================
