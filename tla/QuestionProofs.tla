--------------------------- MODULE QuestionProofs ---------------------------
(***************************************************************************)
(* Proofs about the questions to the recruiters, for any number of them:   *)
(* types; that no question is in more than two delivered summaries, and    *)
(* none counted more often than summaries built from it were posted        *)
(* (DailyDigest, for any number of days and faults); that a request that is repeated changes nothing    *)
(* (ReviewQueue, for any number of requests).                              *)
(***************************************************************************)
EXTENDS MCQuestions, FiniteSetTheorems, TLAPS

(* The outbox.  A message that may still be sent has attempts left.        *)
OutboxInv ==
  /\ outbox \in [Queued -> Messages]
  /\ Queued \subseteq {Summary(d) : d \in Days}
  /\ batch \subseteq {k \in Queued : outbox[k].status = "sending"}
  /\ posts \subseteq Queued
  /\ outboxFaults \in 0..MaxOutboxFaults
  /\ \A k \in Queued : /\ outbox[k].status \in Unsettled => outbox[k].attempts < MaxAttempts
                       /\ outbox[k].status = "sent" => k \in posts

(* The count is bounded by what CountInv says of it.                       *)
OpenRows ==
  [ kind    : {"route", "discard"},
    status  : {"absent", "pending", "answered", "completed", "suppressed"},
    settled : BOOLEAN, count : Nat, digest : Days \cup {None} ]

DailyOK ==
  /\ review \in [DigestQuestions -> OpenRows]
  /\ digest \in [Days -> {"none", "pending", "sent", "failed"}]
  /\ {bound, listed} \subseteq [Days -> SUBSET DigestQuestions]
  /\ today \in Days /\ stale \in BOOLEAN
  /\ daily \in {"idle", "scanning", "build"}

Out(d)  == Summary(d) \in Queued /\ outbox[Summary(d)].status \in Unsettled
Sent(d) == Summary(d) \in Queued /\ outbox[Summary(d)].status = "sent"

(* One summary at a time is out, and its open questions are bound to it;   *)
(* a text shows only questions its summary was built from.                 *)
BindingInv ==
  /\ \A d, e \in Days : Out(d) /\ Out(e) => d = e
  /\ \A d \in Days : Summary(d) \notin Queued => bound[d] = {}
  /\ \A i \in Open : \A d \in Days : i \in bound[d] /\ Out(d) => review[i].digest = d
  /\ \A i \in DigestQuestions :
       /\ review[i].digest # None => i \in bound[review[i].digest]
       /\ review[i].status = "absent" => \A d \in Days : i \notin bound[d]
  /\ \A d \in Days : listed[d] \subseteq bound[d]

(* The days whose delivered summary was built from question i, and with    *)
(* them the day whose summary is still out.                                *)
Reported(i) == {d \in Days : i \in bound[d] /\ Sent(d)}
Placed(i)   == {d \in Days : i \in bound[d] /\ (Out(d) \/ Sent(d))}

(* What is counted was delivered, and of an open question all is counted.  *)
CountInv ==
  \A i \in DigestQuestions :
    /\ review[i].count <= Cardinality(Reported(i))
    /\ i \in Open => Cardinality(Reported(i)) <= review[i].count
    /\ Cardinality(Placed(i)) <= 2

DigestInv == OutboxInv /\ DailyOK /\ BindingInv /\ CountInv

LEMMA DaySets ==
  ASSUME NEW S, S \subseteq Days
  PROVE  /\ IsFiniteSet(S) /\ Cardinality(S) \in Nat /\ Cardinality(S) <= MaxDays
         /\ \A T \in SUBSET S : IsFiniteSet(T) /\ Cardinality(T) <= Cardinality(S)
<1>1. IsFiniteSet(Days) /\ Cardinality(Days) = MaxDays
  BY DaysAssumption, FS_Interval DEF Days
<1>2. IsFiniteSet(S) /\ Cardinality(S) <= MaxDays
  BY <1>1, FS_Subset
<1> QED BY <1>2, FS_Subset, FS_CardinalityType

LEMMA SummaryKeys1 == \A d, e \in Days : Summary(d) = Summary(e) => d = e
BY DEF Summary
-----------------------------------------------------------------------------
(* What the invariant says of a state.                                     *)

LEMMA ReportedIsPlaced ==
  ASSUME DigestInv, NEW i \in DigestQuestions
  PROVE  /\ Reported(i) \subseteq Placed(i) /\ Placed(i) \subseteq Days
         /\ Delivered(i) \subseteq Reported(i)
<1>1. \A d \in Days : listed[d] \subseteq bound[d]
  BY DEF DigestInv, BindingInv
<1> QED BY <1>1 DEF Delivered, Reported, Placed, Sent

LEMMA DigestSays ==
  ASSUME DigestInv
  PROVE  DigestTypeOK /\ AskedAtMostTwice /\ CountedByPosts
<1>1. ASSUME NEW i \in DigestQuestions
      PROVE  /\ review[i].count <= MaxDays /\ Cardinality(Delivered(i)) <= 2
             /\ review[i].count <= Cardinality({d \in Days : i \in bound[d] /\ Summary(d) \in posts})
  <2> DEFINE P == {d \in Days : i \in bound[d] /\ Summary(d) \in posts}
  <2>1. Reported(i) \subseteq Placed(i) /\ Reported(i) \subseteq P /\ Reported(i) \subseteq Days
    BY ReportedIsPlaced DEF DigestInv, OutboxInv, Sent, Reported
  <2>2. P \subseteq Days /\ Placed(i) \subseteq Days /\ Delivered(i) \subseteq Reported(i)
    BY ReportedIsPlaced DEF Placed
  <2> HIDE DEF P
  <2>3. /\ Cardinality(Reported(i)) <= Cardinality(P)
        /\ Cardinality(Reported(i)) <= Cardinality(Placed(i))
        /\ Cardinality(Reported(i)) <= MaxDays
        /\ Cardinality(P) \in Nat /\ Cardinality(Reported(i)) \in Nat
        /\ Cardinality(Placed(i)) \in Nat
        /\ Cardinality(Delivered(i)) <= Cardinality(Reported(i)) /\ Cardinality(Delivered(i)) \in Nat
    BY <2>1, <2>2, DaySets
  <2>4. /\ review[i].count <= Cardinality(Reported(i)) /\ review[i].count \in Nat
        /\ Cardinality(Placed(i)) <= 2
    BY DEF DigestInv, CountInv, DailyOK, OpenRows
  <2>5. MaxDays \in Nat
    BY DaysAssumption
  <2> QED BY <2>3, <2>4, <2>5 DEF P
<1>2. review \in [DigestQuestions -> DigestRows]
  <2>0. \A i \in DigestQuestions : review[i] \in OpenRows
    BY DEF DigestInv, DailyOK
  <2>1. ASSUME NEW i \in DigestQuestions PROVE review[i] \in OpenRows /\ review[i].count \in 0..MaxDays
    <3>1. review[i].count \in Nat
      BY <2>0 DEF OpenRows
    <3>2. review[i].count <= MaxDays
      BY <1>1
    <3>3. review[i].count \in 0..MaxDays
      BY <3>1, <3>2, DaysAssumption
    <3> QED BY <2>0, <3>3
  <2>2. \A i \in DigestQuestions : review[i] \in DigestRows
    BY <2>1 DEF OpenRows, DigestRows
  <2> QED BY <2>2 DEF DigestInv, DailyOK
<1>3. OutboxTypeOK
  BY DEF DigestInv, OutboxInv, OutboxTypeOK
<1>4. DigestTypeOK
  BY <1>2, <1>3 DEF DigestTypeOK, DigestInv, DailyOK, OutboxInv
<1> QED BY <1>1, <1>4 DEF AskedAtMostTwice, CountedByPosts
-----------------------------------------------------------------------------
(* The steps of the outbox but for a delivery.                             *)

SettlesLike ==
  /\ Queued' = Queued
  /\ \A k \in Queued : /\ outbox'[k].status = "sent" <=> outbox[k].status = "sent"
                       /\ outbox'[k].status \in Unsettled => outbox[k].status \in Unsettled

LEMMA OutboxClaims ==
  ASSUME OutboxInv, ClaimOutbox
  PROVE  OutboxInv' /\ SettlesLike
<1>1. \A k \in Queued : /\ outbox[k] \in Messages
                        /\ outbox'[k] = IF k \in Due THEN [outbox[k] EXCEPT !.status = "sending", !.held = TRUE]
                                        ELSE outbox[k]
  BY DEF OutboxInv, ClaimOutbox
<1>2. /\ Queued' = Queued /\ outbox' = [k \in Queued |-> outbox'[k]]
      /\ batch' = Due /\ posts' = posts /\ outboxFaults' = outboxFaults
      /\ Due \subseteq Queued
  BY DEF ClaimOutbox, Queued, Due
<1>3. ASSUME NEW k \in Queued
      PROVE  /\ outbox'[k] \in Messages
             /\ outbox'[k].attempts = outbox[k].attempts
             /\ k \in Due => outbox'[k].status = "sending"
             /\ outbox'[k].status = "sent" <=> outbox[k].status = "sent"
             /\ outbox'[k].status \in Unsettled <=> outbox[k].status \in Unsettled
  BY <1>1 DEF Messages, Due, Unsettled
<1>4. outbox' \in [Queued -> Messages]
  BY <1>2, <1>3
<1>5. SettlesLike
  BY <1>2, <1>3 DEF SettlesLike
<1>6. OutboxInv'
  BY <1>2, <1>3, <1>4 DEF OutboxInv
<1> QED BY <1>5, <1>6

LEMMA OutboxFails ==
  ASSUME OutboxInv, NEW k \in Queued, DeliveryFails(k)
  PROVE  OutboxInv' /\ SettlesLike
<1> DEFINE n == outbox[k].attempts + 1
           row == [ status |-> IF n >= MaxAttempts THEN "failed" ELSE "pending",
                    attempts |-> n, held |-> TRUE ]
<1>1. outbox \in [Queued -> Messages] /\ outbox' = [outbox EXCEPT ![k] = row]
  BY DEF OutboxInv, DeliveryFails
<1>2. outbox[k].status = "sending" /\ outbox[k].attempts < MaxAttempts /\ outbox[k].attempts \in Nat
  BY <1>1 DEF OutboxInv, DeliveryFails, Unsettled, Messages
<1>3. /\ row \in Messages /\ row.status \in {"pending", "failed"}
      /\ row.status = "pending" => row.attempts < MaxAttempts
  BY <1>2, AttemptsAssumption DEF Messages
<1> HIDE DEF row
<1>4. /\ outbox' \in [Queued -> Messages] /\ Queued' = Queued
      /\ \A j \in Queued : outbox'[j] = IF j = k THEN row ELSE outbox[j]
  BY <1>1, <1>3 DEF Queued
<1>5. /\ batch' = batch \ {k} /\ posts' \subseteq posts \cup {k} /\ posts \subseteq posts'
      /\ outboxFaults' = outboxFaults + 1 /\ outboxFaults < MaxOutboxFaults
  BY DEF DeliveryFails, OutboxFault
<1>6. outboxFaults' \in 0..MaxOutboxFaults
  BY <1>5, OutboxFaultsAssumption DEF OutboxInv
<1>7. SettlesLike
  BY <1>2, <1>3, <1>4 DEF SettlesLike, Unsettled
<1>8. \A j \in Queued : /\ outbox'[j].status \in Unsettled => outbox'[j].attempts < MaxAttempts
                        /\ outbox'[j].status = "sent" => j \in posts'
  BY <1>3, <1>4, <1>5 DEF OutboxInv, Unsettled
<1>9. /\ batch' \subseteq {j \in Queued : outbox'[j].status = "sending"} /\ posts' \subseteq Queued
      /\ Queued' \subseteq {Summary(d) : d \in Days}
  BY <1>4, <1>5 DEF OutboxInv
<1>10. OutboxInv'
  BY <1>4, <1>6, <1>8, <1>9 DEF OutboxInv
<1> QED BY <1>7, <1>10

LEMMA OutboxStops ==
  ASSUME OutboxInv, DrainStops
  PROVE  OutboxInv' /\ SettlesLike
<1>1. /\ outbox' = outbox /\ Queued' = Queued /\ batch' = {}
      /\ posts \subseteq posts' /\ posts' \subseteq posts \cup batch
      /\ outboxFaults' = outboxFaults + 1 /\ outboxFaults < MaxOutboxFaults
  BY DEF DrainStops, OutboxFault, Queued
<1>2. outboxFaults' \in 0..MaxOutboxFaults
  BY <1>1, OutboxFaultsAssumption DEF OutboxInv
<1> QED BY <1>1, <1>2 DEF OutboxInv, SettlesLike

LEMMA OutboxHoldEnds ==
  ASSUME OutboxInv, NEW k \in Queued, HoldEnds(k)
  PROVE  OutboxInv' /\ SettlesLike
<1> DEFINE row == [outbox[k] EXCEPT !.held = FALSE]
<1>1. outbox \in [Queued -> Messages] /\ outbox' = [outbox EXCEPT ![k] = row]
  BY DEF OutboxInv, HoldEnds
<1>2. row \in Messages /\ row.status = outbox[k].status /\ row.attempts = outbox[k].attempts
  BY <1>1 DEF Messages
<1> HIDE DEF row
<1>3. /\ outbox' \in [Queued -> Messages] /\ Queued' = Queued
      /\ \A j \in Queued : outbox'[j].status = outbox[j].status /\ outbox'[j].attempts = outbox[j].attempts
      /\ posts' = posts /\ batch' = batch /\ outboxFaults' = outboxFaults
  BY <1>1, <1>2 DEF Queued, HoldEnds
<1> QED BY <1>3 DEF OutboxInv, SettlesLike

(* The outbox does not move.                                               *)
LEMMA OutboxUnchanged ==
  ASSUME OutboxInv, UNCHANGED outboxVars
  PROVE  OutboxInv' /\ SettlesLike
BY DEF OutboxInv, SettlesLike, outboxVars, Queued
-----------------------------------------------------------------------------
(* Steps that bind and count nothing: a question is opened at most where   *)
(* no summary lists it, and no message becomes sent, or due.               *)

QuestionsLike ==
  \A i \in DigestQuestions :
    /\ review'[i].count = review[i].count /\ review'[i].digest = review[i].digest
    /\ review'[i].status = "absent" => review[i].status = "absent"
    /\ review'[i].status = "pending" => review[i].status \in {"absent", "pending"}

LEMMA QuietSteps ==
  ASSUME DigestInv, SettlesLike, QuestionsLike, bound' = bound /\ listed' = listed
  PROVE  BindingInv' /\ CountInv'
<1>1. \A d \in Days : (Out(d)' => Out(d)) /\ (Sent(d)' <=> Sent(d))
  BY DEF Out, Sent, SettlesLike
<1>2. \A i \in DigestQuestions : i \in Open' => i \in Open \/ \A d \in Days : i \notin bound[d]
  BY DEF Open, QuestionsLike, DigestInv, BindingInv
<1>3. BindingInv'
  <2>1. \A d \in Days : Summary(d) \notin Queued' => bound'[d] = {}
    BY DEF SettlesLike, DigestInv, BindingInv
  <2>2. \A i \in Open' : \A d \in Days : i \in bound'[d] /\ Out(d)' => review'[i].digest = d
    BY <1>1, <1>2 DEF DigestInv, BindingInv, QuestionsLike, Open
  <2>3. ASSUME NEW i \in DigestQuestions
        PROVE  /\ review'[i].digest # None => i \in bound'[review'[i].digest]
               /\ review'[i].status = "absent" => \A d \in Days : i \notin bound'[d]
    BY DEF DigestInv, BindingInv, QuestionsLike
  <2>4. \A d, e \in Days : Out(d)' /\ Out(e)' => d = e
    BY <1>1 DEF DigestInv, BindingInv
  <2>5. \A d \in Days : listed'[d] \subseteq bound'[d]
    BY DEF DigestInv, BindingInv
  <2> QED BY <2>1, <2>2, <2>3, <2>4, <2>5 DEF BindingInv
<1>4. ASSUME NEW i \in DigestQuestions
      PROVE  /\ review'[i].count <= Cardinality(Reported(i)')
             /\ i \in Open' => Cardinality(Reported(i)') <= review'[i].count
             /\ Cardinality(Placed(i)') <= 2
  <2>1. Reported(i)' = Reported(i)
    BY <1>1 DEF Reported, Sent
  <2>2. Placed(i)' \subseteq Placed(i) /\ Placed(i) \subseteq Days
    BY <1>1 DEF Placed
  <2>3. /\ Cardinality(Placed(i)') <= Cardinality(Placed(i))
        /\ Cardinality(Placed(i)') \in Nat /\ Cardinality(Placed(i)) \in Nat
    BY <2>2, DaySets
  <2>4. Cardinality(Placed(i)) <= 2 /\ review[i].count <= Cardinality(Reported(i))
    BY DEF DigestInv, CountInv
  <2>5. ASSUME i \in Open' PROVE Cardinality(Reported(i)) <= review[i].count
    <3>1. CASE i \in Open
      BY <3>1 DEF DigestInv, CountInv
    <3>2. CASE \A d \in Days : i \notin bound[d]
      <4>1. Reported(i) = {}
        BY <3>2 DEF Reported
      <4>2. review[i].count \in Nat
        BY DEF DigestInv, DailyOK, OpenRows
      <4> QED BY <4>1, <4>2, FS_EmptySet
    <3> QED BY <1>2, <2>5, <3>1, <3>2
  <2> QED BY <2>1, <2>3, <2>4, <2>5 DEF QuestionsLike
<1>5. CountInv'
  BY <1>4 DEF CountInv
<1> QED BY <1>3, <1>5
-----------------------------------------------------------------------------
(* One lemma per group of actions.                                         *)

LEMMA DigestOutboxSteps ==
  ASSUME DigestInv, Aside,
         ClaimOutbox \/ DrainStops \/ \E k \in Queued : DeliveryFails(k) \/ HoldEnds(k)
  PROVE  DigestInv'
<1>1. OutboxInv' /\ SettlesLike
  BY OutboxClaims, OutboxStops, OutboxFails, OutboxHoldEnds DEF DigestInv
<1>2. QuestionsLike /\ bound' = bound /\ listed' = listed
  BY DEF Aside, QuestionsLike
<1>3. DailyOK'
  BY DEF DigestInv, DailyOK, Aside
<1> QED BY <1>1, <1>2, <1>3, QuietSteps DEF DigestInv

(* The daily job, but for its summary, and the passing of time.            *)
LEMMA DigestDailySteps ==
  ASSUME DigestInv,
         \/ ClaimDigest \/ ScanEnds \/ DigestSkipped \/ ClaimGoesStale
         \/ DailyFails \/ DailyStops \/ NextDay
  PROVE  DigestInv'
<1>1. /\ outbox' = outbox /\ posts' = posts /\ batch' = batch
      /\ review' = review /\ bound' = bound /\ listed' = listed
      /\ outboxFaults' \in {outboxFaults} \cup {outboxFaults + 1 : x \in {y \in {0} : outboxFaults < MaxOutboxFaults}}
  BY DEF ClaimDigest, ScanEnds, DigestSkipped, ClaimGoesStale, DailyFails, DailyStops, NextDay,
         outboxVars, OutboxFault
<1>2. outboxFaults' \in 0..MaxOutboxFaults
  BY <1>1, OutboxFaultsAssumption DEF DigestInv, OutboxInv
<1>3. OutboxInv' /\ SettlesLike
  BY <1>1, <1>2 DEF DigestInv, OutboxInv, SettlesLike, Queued
<1>4. QuestionsLike /\ bound' = bound /\ listed' = listed
  BY <1>1 DEF QuestionsLike
<1>5. today' \in Days
  BY DaysAssumption DEF DigestInv, DailyOK, ClaimDigest, ScanEnds, DigestSkipped, ClaimGoesStale,
     DailyFails, DailyStops, NextDay, Days
<1>6. /\ digest' \in [Days -> {"none", "pending", "sent", "failed"}]
      /\ stale' \in BOOLEAN /\ daily' \in {"idle", "scanning", "build"}
  BY DEF DigestInv, DailyOK, ClaimDigest, ScanEnds, DigestSkipped, ClaimGoesStale, DailyFails,
     DailyStops, NextDay
<1>7. DailyOK'
  BY <1>1, <1>5, <1>6 DEF DigestInv, DailyOK
<1> QED BY <1>3, <1>4, <1>7, QuietSteps DEF DigestInv

LEMMA DigestQuestionSteps ==
  ASSUME DigestInv, NEW i \in DigestQuestions,
         AskQuestion(i) \/ AnswerQuestion(i) \/ RecordingSettles(i)
  PROVE  DigestInv'
<1> DEFINE row == review'[i]
<1>1. /\ OutboxInv' /\ SettlesLike
  BY OutboxUnchanged DEF DigestInv, AskQuestion, AnswerQuestion, RecordingSettles
<1>2. review \in [DigestQuestions -> OpenRows]
  BY DEF DigestInv, DailyOK
<1>3. \/ /\ review[i].status = "absent"
         /\ review' = [review EXCEPT ![i] = [review[i] EXCEPT !.status = "pending"]]
      \/ /\ review[i].status = "pending"
         /\ \E s \in {"answered", "suppressed"} :
              review' = [review EXCEPT ![i] = [review[i] EXCEPT !.status = s]]
      \/ /\ review[i].status = "pending"
         /\ review' = [review EXCEPT ![i] = [review[i] EXCEPT !.settled = TRUE]]
  BY <1>2 DEF AskQuestion, AnswerQuestion, RecordingSettles
<1>4. /\ row \in OpenRows /\ row.count = review[i].count /\ row.digest = review[i].digest
      /\ row.status # "absent"
      /\ row.status = "pending" => review[i].status \in {"absent", "pending"}
  <2> DEFINE old == review[i]
  <2>1. old \in OpenRows
    BY <1>2
  <2>2. \/ old.status = "absent" /\ row = [old EXCEPT !.status = "pending"]
        \/ old.status = "pending" /\ \E s \in {"answered", "suppressed"} :
                                       row = [old EXCEPT !.status = s]
        \/ old.status = "pending" /\ row = [old EXCEPT !.settled = TRUE]
    BY <1>2, <1>3
  <2> HIDE DEF old, row
  <2>3. CASE old.status = "absent" /\ row = [old EXCEPT !.status = "pending"]
    BY <2>1, <2>3 DEF OpenRows, old
  <2>4. CASE /\ old.status = "pending"
             /\ \E s \in {"answered", "suppressed"} : row = [old EXCEPT !.status = s]
    BY <2>1, <2>4 DEF OpenRows, old
  <2>5. CASE old.status = "pending" /\ row = [old EXCEPT !.settled = TRUE]
    BY <2>1, <2>5 DEF OpenRows, old
  <2> QED BY <2>2, <2>3, <2>4, <2>5
<1>5. /\ review' = [review EXCEPT ![i] = row]
  BY <1>2, <1>3
<1> HIDE DEF row
<1>6. /\ review' \in [DigestQuestions -> OpenRows]
      /\ \A j \in DigestQuestions : review'[j] = IF j = i THEN row ELSE review[j]
  BY <1>2, <1>4, <1>5
<1>7. QuestionsLike
  BY <1>4, <1>6 DEF QuestionsLike
<1>8. /\ bound' = bound /\ listed' = listed /\ digest' = digest /\ today' = today /\ stale' = stale /\ daily' = daily
  BY DEF AskQuestion, AnswerQuestion, RecordingSettles
<1>9. DailyOK'
  BY <1>6, <1>8 DEF DigestInv, DailyOK
<1> QED BY <1>1, <1>7, <1>8, <1>9, QuietSteps DEF DigestInv

(* A summary is delivered: it was built before, and is now counted for its *)
(* open questions, which are those that are bound to it.                   *)
LEMMA DigestDelivers ==
  ASSUME DigestInv, NEW d \in Days, DeliverSummary(d)
  PROVE  DigestInv'
<1> DEFINE k == Summary(d)
           n == outbox[k].attempts + 1
           row == [ outbox[k] EXCEPT !.status = "sent", !.attempts = n, !.held = FALSE ]
<1>1. /\ outbox \in [Queued -> Messages] /\ k \in Queued /\ k \in batch
      /\ outbox[k].status = "sending" /\ outbox[k].attempts < MaxAttempts
  BY DEF DigestInv, OutboxInv, DeliverSummary, Deliver, Unsettled
<1>2. outbox' = [outbox EXCEPT ![k] = row]
  BY <1>1 DEF DeliverSummary, Deliver
<1>3. row \in Messages /\ row.status = "sent"
  <2>1. outbox[k] \in Messages
    BY <1>1
  <2>2. n \in 0..MaxAttempts
    BY <2>1, <1>1, AttemptsAssumption DEF Messages
  <2> HIDE DEF n
  <2> QED BY <2>1, <2>2 DEF Messages
<1>4. /\ posts' = posts \cup {k} /\ batch' = batch \ {k} /\ outboxFaults' = outboxFaults
      /\ bound' = bound /\ listed' = listed /\ today' = today /\ stale' = stale /\ daily' = daily
  BY DEF DeliverSummary, Deliver
<1>5. /\ digest' = [digest EXCEPT ![d] = "sent"]
      /\ review' = [i \in DigestQuestions |->
           IF Counted(i, d) THEN [review[i] EXCEPT !.count = review[i].count + 1] ELSE review[i]]
  BY DEF DeliverSummary
<1> HIDE DEF row
<1>6. /\ outbox' \in [Queued -> Messages] /\ Queued' = Queued
      /\ \A j \in Queued : outbox'[j] = IF j = k THEN row ELSE outbox[j]
  BY <1>1, <1>2, <1>3 DEF Queued
<1>7. OutboxInv'
  BY <1>1, <1>3, <1>4, <1>6 DEF DigestInv, OutboxInv, Unsettled
<1>8. ASSUME NEW i \in DigestQuestions
      PROVE  /\ review'[i] \in OpenRows /\ review'[i].status = review[i].status
             /\ review'[i].digest = review[i].digest
             /\ review'[i].count = IF Counted(i, d) THEN review[i].count + 1 ELSE review[i].count
             /\ review[i].count \in Nat
  <2>1. review[i] \in OpenRows
    BY DEF DigestInv, DailyOK
  <2>2. review'[i] = IF Counted(i, d) THEN [review[i] EXCEPT !.count = review[i].count + 1] ELSE review[i]
    BY <1>5
  <2>3. review[i].count + 1 \in Nat
    BY <2>1 DEF OpenRows
  <2> HIDE DEF Counted
  <2> QED BY <2>1, <2>2, <2>3 DEF OpenRows
<1>9. DailyOK'
  <2>1. review' \in [DigestQuestions -> OpenRows]
    BY <1>5, <1>8
  <2> QED BY <2>1, <1>4, <1>5 DEF DigestInv, DailyOK
<1>10. /\ Open' = Open
       /\ \A e \in Days : Sent(e)' <=> (Sent(e) \/ e = d)
       /\ \A e \in Days : Out(e)' <=> (Out(e) /\ e # d)
       /\ Out(d)
  BY <1>1, <1>3, <1>6, <1>8, SummaryKeys1 DEF Open, Sent, Out, Unsettled
<1>11. BindingInv'
  BY <1>4, <1>6, <1>8, <1>10 DEF DigestInv, BindingInv, Open
<1>12. ASSUME NEW i \in DigestQuestions
       PROVE  /\ review'[i].count <= Cardinality(Reported(i)')
              /\ i \in Open' => Cardinality(Reported(i)') <= review'[i].count
              /\ Cardinality(Placed(i)') <= 2
  <2>1. /\ Placed(i)' = Placed(i)
        /\ Reported(i)' = Reported(i) \cup (IF i \in bound[d] THEN {d} ELSE {})
        /\ d \notin Reported(i)
    BY <1>4, <1>10 DEF Placed, Reported, Sent, Out, Unsettled
  <2>2. Reported(i) \subseteq Days
    BY DEF Reported
  <2>3. /\ Cardinality(Placed(i)) <= 2 /\ review[i].count <= Cardinality(Reported(i))
        /\ i \in Open => Cardinality(Reported(i)) <= review[i].count
    BY DEF DigestInv, CountInv
  <2>4. Cardinality(Reported(i)) \in Nat /\ IsFiniteSet(Reported(i))
    BY <2>2, DaySets
  <2>5. CASE i \in bound[d]
    <3>1. Cardinality(Reported(i)') = Cardinality(Reported(i)) + 1
      BY <2>1, <2>4, <2>5, FS_AddElement
    <3>2. i \in Open => Counted(i, d)
      BY <1>10, <2>5 DEF DigestInv, BindingInv, Counted
    <3>3. i \in Open' <=> i \in Open
      BY <1>10
    <3> QED BY <3>1, <3>2, <3>3, <2>1, <2>3, <2>4, <1>8
  <2>6. CASE i \notin bound[d]
    <3>1. ~Counted(i, d)
      BY <2>6, NoneIsNoDay DEF DigestInv, BindingInv, Counted
    <3>2. Reported(i)' = Reported(i)
      BY <2>1, <2>6
    <3>3. i \in Open' <=> i \in Open
      BY <1>10
    <3> QED BY <3>1, <3>2, <3>3, <2>1, <2>3, <2>4, <1>8
  <2> QED BY <2>5, <2>6
<1>13. CountInv'
  BY <1>12 DEF CountInv
<1> QED BY <1>7, <1>9, <1>11, <1>13 DEF DigestInv

(* A summary is built: no other one is out, so what was placed of an open  *)
(* question was delivered, and counted; those counted twice are left out.  *)
LEMMA DigestBuilds ==
  ASSUME DigestInv, BuildDigest
  PROVE  DigestInv'
<1> DEFINE T == Summary(today)
           Fit == {i \in Open : ~ClosedBySettling(i) /\ ~Exhausted(i)}
<1>1. PICK shows \in BOOLEAN :
        \E P \in IF shows THEN SUBSET Fit ELSE {{}} : \E seen \in SUBSET P :
        /\ review' = [i \in DigestQuestions |->
             IF i \notin Open THEN review[i]
             ELSE IF ClosedBySettling(i) THEN [review[i] EXCEPT !.status = "completed"]
             ELSE IF Exhausted(i) THEN [review[i] EXCEPT !.status = "suppressed"]
             ELSE IF i \in P THEN Bound(i)
             ELSE review[i]]
        /\ bound' = [bound EXCEPT ![today] = P]
        /\ listed' = [listed EXCEPT ![today] = seen]
        /\ outbox' = IF shows THEN Queue(outbox, {Summary(today)}) ELSE outbox
        /\ digest' = IF shows THEN digest ELSE [digest EXCEPT ![today] = "sent"]
  BY DEF BuildDigest
<1>3. PICK placed \in IF shows THEN SUBSET Fit ELSE {{}} : \E seen \in SUBSET placed :
      /\ review' = [i \in DigestQuestions |->
           IF i \notin Open THEN review[i]
           ELSE IF ClosedBySettling(i) THEN [review[i] EXCEPT !.status = "completed"]
           ELSE IF Exhausted(i) THEN [review[i] EXCEPT !.status = "suppressed"]
           ELSE IF i \in placed THEN Bound(i)
           ELSE review[i]]
      /\ bound' = [bound EXCEPT ![today] = placed]
      /\ listed' = [listed EXCEPT ![today] = seen]
      /\ outbox' = IF shows THEN Queue(outbox, {T}) ELSE outbox
      /\ digest' = IF shows THEN digest ELSE [digest EXCEPT ![today] = "sent"]
  BY <1>1
<1>2. /\ placed \subseteq Open /\ \A i \in placed : ~ClosedBySettling(i) /\ ~Exhausted(i)
      /\ Open \subseteq DigestQuestions
      /\ ~shows => placed = {}
  BY DEF Open
<1>4. /\ posts' = posts /\ batch' = batch /\ outboxFaults' = outboxFaults
      /\ today' = today /\ stale' = stale /\ daily' = "idle"
      /\ T \notin Queued /\ ~Outstanding /\ today \in Days
  BY DEF BuildDigest, DigestInv, DailyOK
<1>5. NewMessage \in Messages
  BY AttemptsAssumption DEF Messages, NewMessage
<1>6. /\ outbox' \in [Queued' -> Messages]
      /\ Queued' = Queued \cup (IF shows THEN {T} ELSE {})
      /\ \A j \in Queued : outbox'[j] = outbox[j]
      /\ shows => outbox'[T] = NewMessage
  <2>1. CASE ~shows
    BY <1>3, <2>1 DEF DigestInv, OutboxInv, Queued
  <2>2. CASE shows
    <3>1. outbox' = [j \in Queued \cup {T} |-> IF j \in Queued THEN outbox[j] ELSE NewMessage]
      BY <1>3, <2>2 DEF Queue, Queued
    <3>2. \A j \in Queued : outbox[j] \in Messages
      BY DEF DigestInv, OutboxInv
    <3>3. Queued' = Queued \cup {T}
      BY <3>1 DEF Queued
    <3> QED BY <3>1, <3>2, <3>3, <2>2, <1>4, <1>5
  <2> QED BY <2>1, <2>2
<1>7. OutboxInv'
  <2>1. Queued' \subseteq {Summary(d) : d \in Days}
    BY <1>4, <1>6 DEF DigestInv, OutboxInv
  <2>2. ASSUME NEW j \in Queued'
        PROVE  /\ outbox'[j].status \in Unsettled => outbox'[j].attempts < MaxAttempts
               /\ outbox'[j].status = "sent" => j \in posts'
    <3>1. CASE j \in Queued
      BY <3>1, <1>4, <1>6 DEF DigestInv, OutboxInv
    <3>2. CASE j = T /\ shows
      BY <3>2, <1>6, AttemptsAssumption DEF NewMessage
    <3> QED BY <3>1, <3>2, <1>6
  <2>3. batch' \subseteq {j \in Queued' : outbox'[j].status = "sending"}
    BY <1>4, <1>6 DEF DigestInv, OutboxInv
  <2>4. posts' \subseteq Queued' /\ outboxFaults' \in 0..MaxOutboxFaults
    BY <1>4, <1>6 DEF DigestInv, OutboxInv
  <2> QED BY <1>6, <2>1, <2>2, <2>3, <2>4 DEF OutboxInv
<1>8. ASSUME NEW i \in DigestQuestions
      PROVE  /\ review'[i] \in OpenRows /\ review[i].count \in Nat
             /\ review'[i].count = review[i].count
             /\ review'[i].digest = IF i \in placed THEN today ELSE review[i].digest
             /\ review'[i].status = "absent" => review[i].status = "absent"
             /\ i \in Open' => i \in Open
             /\ i \in placed => i \in Open /\ review[i].count < 2
  <2>1. review[i] \in OpenRows
    BY DEF DigestInv, DailyOK
  <2>2. i \in placed => i \in Open /\ ~ClosedBySettling(i) /\ ~Exhausted(i)
    BY <1>2
  <2>3. review'[i] = IF i \notin Open THEN review[i]
           ELSE IF ClosedBySettling(i) THEN [review[i] EXCEPT !.status = "completed"]
           ELSE IF Exhausted(i) THEN [review[i] EXCEPT !.status = "suppressed"]
           ELSE IF i \in placed THEN [review[i] EXCEPT !.digest = today]
           ELSE review[i]
    BY <1>3 DEF Bound
  <2>4. i \in Open <=> review[i].status = "pending"
    BY DEF Open
  <2>5. i \in Open' <=> review'[i].status = "pending"
    BY DEF Open
  <2>6. Exhausted(i) <=> review[i].count >= 2
    BY DEF Exhausted
  <2> QED BY <1>4, <2>1, <2>2, <2>3, <2>4, <2>5, <2>6 DEF OpenRows
<1>9. DailyOK'
  <2>1. review' \in [DigestQuestions -> OpenRows]
    BY <1>3, <1>8
  <2>2. {bound', listed'} \subseteq [Days -> SUBSET DigestQuestions]
    BY <1>2, <1>3 DEF DigestInv, DailyOK
  <2>3. digest' \in [Days -> {"none", "pending", "sent", "failed"}]
    BY <1>3 DEF DigestInv, DailyOK
  <2> QED BY <2>1, <2>2, <2>3, <1>4 DEF DigestInv, DailyOK
<1>10. /\ \A d \in Days : bound'[d] = IF d = today THEN placed ELSE bound[d]
       /\ \A d \in Days : ~Out(d) /\ (Sent(d)' <=> Sent(d))
       /\ \A d \in Days : Out(d)' <=> (d = today /\ shows)
       /\ ~Sent(today) /\ bound[today] = {}
  <2>1. \A d \in Days : bound'[d] = IF d = today THEN placed ELSE bound[d]
    BY <1>3 DEF DigestInv, DailyOK
  <2>2. \A d \in Days : ~Out(d)
    BY <1>4 DEF Out, Outstanding
  <2>3. \A d \in Days : Summary(d) \in Queued' <=> (Summary(d) \in Queued \/ (d = today /\ shows))
    BY <1>4, <1>6, SummaryKeys1
  <2>4. ASSUME NEW d \in Days PROVE Sent(d)' <=> Sent(d)
    BY <1>4, <1>6, <2>3 DEF Sent, NewMessage
  <2>5. ASSUME NEW d \in Days PROVE Out(d)' <=> (d = today /\ shows)
    BY <1>4, <1>6, <2>2, <2>3 DEF Out, NewMessage, Unsettled
  <2>6. ~Sent(today) /\ bound[today] = {}
    BY <1>4 DEF Sent, DigestInv, BindingInv
  <2> QED BY <2>1, <2>2, <2>4, <2>5, <2>6
<1>11. BindingInv'
  <2>1. ASSUME NEW d \in Days, Summary(d) \notin Queued' PROVE bound'[d] = {}
    BY <2>1, <1>6, <1>10 DEF DigestInv, BindingInv
  <2>2. ASSUME NEW i \in DigestQuestions, i \in Open', NEW d \in Days, i \in bound'[d], Out(d)'
        PROVE  review'[i].digest = d
    BY <2>2, <1>8, <1>10
  <2>3. ASSUME NEW i \in DigestQuestions, review'[i].digest # None
        PROVE  i \in bound'[review'[i].digest]
    <3>1. CASE i \in placed
      BY <3>1, <1>4, <1>8, <1>10
    <3>2. CASE i \notin placed
      <4>1. review'[i].digest = review[i].digest /\ review[i].digest \in Days
        BY <3>2, <2>3, <1>8 DEF DigestInv, DailyOK, OpenRows
      <4>2. i \in bound[review[i].digest]
        BY <4>1, <2>3 DEF DigestInv, BindingInv
      <4> QED BY <4>1, <4>2, <1>10
    <3> QED BY <3>1, <3>2
  <2>4. ASSUME NEW i \in DigestQuestions, review'[i].status = "absent", NEW d \in Days
        PROVE  i \notin bound'[d]
    <3>1. i \notin bound[d] /\ i \notin placed
      BY <2>4, <1>8 DEF DigestInv, BindingInv, Open
    <3> QED BY <3>1, <1>10
  <2>5. Open' \subseteq DigestQuestions
    BY DEF Open
  <2>6. \A d, e \in Days : Out(d)' /\ Out(e)' => d = e
    BY <1>10
  <2>7. \A d \in Days : listed'[d] \subseteq bound'[d]
    BY <1>3 DEF DigestInv, DailyOK, BindingInv
  <2> QED BY <2>1, <2>2, <2>3, <2>4, <2>5, <2>6, <2>7 DEF BindingInv
<1>12. ASSUME NEW i \in DigestQuestions
       PROVE  /\ review'[i].count <= Cardinality(Reported(i)')
              /\ i \in Open' => Cardinality(Reported(i)') <= review'[i].count
              /\ Cardinality(Placed(i)') <= 2
  <2>1. /\ Reported(i)' = Reported(i) /\ Placed(i) = Reported(i)
        /\ Placed(i)' \subseteq Placed(i) \cup {x \in {today} : i \in placed}
    <3>1. Reported(i)' = {d \in Days : i \in bound'[d] /\ Sent(d)'}
      BY DEF Reported, Sent
    <3>2. Reported(i) = {d \in Days : i \in bound[d] /\ Sent(d)}
      BY DEF Reported, Sent
    <3>3. Placed(i)' = {d \in Days : i \in bound'[d] /\ (Out(d)' \/ Sent(d)')}
      BY DEF Placed
    <3> QED BY <3>1, <3>2, <3>3, <1>10 DEF Placed
  <2>2. Reported(i) \subseteq Days
    BY DEF Reported
  <2>3. /\ Cardinality(Placed(i)) <= 2 /\ review[i].count <= Cardinality(Reported(i))
        /\ i \in Open => Cardinality(Reported(i)) <= review[i].count
    BY DEF DigestInv, CountInv
  <2>4. /\ Cardinality(Reported(i)) \in Nat /\ IsFiniteSet(Reported(i))
    BY <2>2, DaySets
  <2>5. Cardinality(Placed(i)') <= 2
    <3>1. CASE i \notin placed
      <4>1. Placed(i)' \subseteq Reported(i)
        BY <2>1, <3>1
      <4>2. Cardinality(Placed(i)') <= Cardinality(Reported(i)) /\ Cardinality(Placed(i)') \in Nat
        BY <4>1, <2>2, DaySets
      <4> QED BY <4>2, <2>1, <2>3, <2>4
    <3>2. CASE i \in placed
      <4> DEFINE U == Reported(i) \cup {today}
      <4>1. Placed(i)' \subseteq U /\ U \subseteq Days
        BY <2>1, <2>2, <3>2, <1>4
      <4>2. Cardinality(U) <= Cardinality(Reported(i)) + 1
        <5>1. \/ Cardinality(U) = Cardinality(Reported(i))
              \/ Cardinality(U) = Cardinality(Reported(i)) + 1
          BY <2>4, FS_AddElement
        <5> HIDE DEF U
        <5> QED BY <5>1, <2>4
      <4>3. Cardinality(Reported(i)) < 2
        BY <3>2, <1>8, <2>3, <2>4
      <4> HIDE DEF U
      <4>4. /\ Cardinality(Placed(i)') <= Cardinality(U) /\ Cardinality(Placed(i)') \in Nat
            /\ Cardinality(U) \in Nat
        BY <4>1, DaySets
      <4> QED BY <4>2, <4>3, <4>4, <2>4
    <3> QED BY <3>1, <3>2
  <2> QED BY <2>1, <2>3, <2>5, <1>8
<1>13. CountInv'
  BY <1>12 DEF CountInv
<1> QED BY <1>7, <1>9, <1>11, <1>13 DEF DigestInv
-----------------------------------------------------------------------------
(* Every behaviour of the digest.                                          *)

LEMMA DigestStarts == DigestInit => DigestInv
<1> SUFFICES ASSUME DigestInit PROVE DigestInv
  OBVIOUS
<1>1. /\ Queued = {} /\ posts = {} /\ batch = {} /\ outboxFaults = 0
      /\ outbox \in [Queued -> Messages]
  BY DEF DigestInit, OutboxInit, Queued
<1>2. OutboxInv
  BY <1>1, OutboxFaultsAssumption DEF OutboxInv
<1>3. /\ DailyOK
      /\ \A i \in DigestQuestions :
           review[i].digest = None /\ review[i].count = 0 /\ review[i].status = "absent"
      /\ \A d \in Days : bound[d] = {} /\ listed[d] = {}
  <2>1. /\ today = 1 /\ 1 \in Days /\ stale = FALSE /\ daily = "idle"
        /\ digest = [d \in Days |-> "none"] /\ bound = [d \in Days |-> {}]
        /\ listed = [d \in Days |-> {}]
    BY DaysAssumption DEF DigestInit, Days
  <2>2. /\ review \in [DigestQuestions -> OpenRows]
        /\ \A i \in DigestQuestions :
             review[i].digest = None /\ review[i].count = 0 /\ review[i].status = "absent"
    <3>1. PICK kind \in [DigestQuestions -> {"route", "discard"}] :
            review = [i \in DigestQuestions |->
              [ kind |-> kind[i], status |-> "absent", settled |-> kind[i] = "discard",
                count |-> 0, digest |-> None ]]
      BY DEF DigestInit
    <3> QED BY <3>1 DEF OpenRows
  <2> QED BY <2>1, <2>2 DEF DailyOK
<1>4. BindingInv
  BY <1>1, <1>3 DEF BindingInv, Open, Out
<1>5. \A i \in DigestQuestions : Reported(i) = {} /\ Placed(i) = {}
  BY <1>3 DEF Reported, Placed
<1>6. CountInv
  BY <1>3, <1>5, FS_EmptySet DEF CountInv
<1> QED BY <1>2, <1>3, <1>4, <1>6 DEF DigestInv

LEMMA DigestSteps == DigestInv /\ [DigestNext]_digestVars => DigestInv'
<1> SUFFICES ASSUME DigestInv, [DigestNext]_digestVars PROVE DigestInv'
  OBVIOUS
<1>1. CASE DailyStep \/ ClaimGoesStale \/ DailyFails \/ DailyStops \/ NextDay
  BY <1>1, DigestDailySteps, DigestBuilds DEF DailyStep
<1>2. CASE DrainStep
  BY <1>2, DigestOutboxSteps, DigestDelivers DEF DrainStep
<1>3. CASE HoldStep \/ (Aside /\ (DrainStops \/ \E k \in Queued : DeliveryFails(k)))
  BY <1>3, DigestOutboxSteps DEF HoldStep
<1>4. CASE \E i \in DigestQuestions : AskQuestion(i) \/ AnswerQuestion(i) \/ RecordingSettles(i)
  BY <1>4, DigestQuestionSteps
<1>5. CASE UNCHANGED digestVars
  <2>1. OutboxInv' /\ SettlesLike
    BY <1>5, OutboxUnchanged DEF digestVars, DigestInv
  <2>2. QuestionsLike /\ bound' = bound /\ listed' = listed /\ DailyOK'
    BY <1>5 DEF digestVars, QuestionsLike, DigestInv, DailyOK
  <2> QED BY <2>1, <2>2, QuietSteps DEF DigestInv
<1> QED BY <1>1, <1>2, <1>3, <1>4, <1>5 DEF DigestNext

(* The invariant of the daily job, its questions and the outbox.           *)
THEOREM DigestInvariant == DigestSpec => []DigestInv
BY DigestStarts, DigestSteps, PTL DEF DigestSpec

(* The rows of questions, digests and messages keep their shape, and a     *)
(* drain settles nothing but what it has claimed.                          *)
THEOREM DigestTypeCorrect == DigestSpec => []DigestTypeOK
<1>1. DigestInv => DigestTypeOK
  BY DigestSays
<1> QED BY <1>1, DigestInvariant, PTL

(* For any number of questions and days: no question is in more than two   *)
(* delivered summaries, whatever failed, died or was run again.            *)
THEOREM NobodyIsAskedThrice == DigestSpec => []AskedAtMostTwice
<1>1. DigestInv => AskedAtMostTwice
  BY DigestSays
<1> QED BY <1>1, DigestInvariant, PTL

(* And none is counted more often than a summary that was built from it    *)
(* was posted, whether or not its text was cut before the question.        *)
THEOREM CountsNeedPosts == DigestSpec => []CountedByPosts
<1>1. DigestInv => CountedByPosts
  BY DigestSays
<1> QED BY <1>1, DigestInvariant, PTL
-----------------------------------------------------------------------------
(* The answers.  Questions are numbered as they are asked, and a question  *)
(* raises the version of its recording by one: so no version outgrows the  *)
(* routes and summaries by more than the questions asked so far.           *)

RowsInv ==
  /\ talk \in [Interviews -> Talks]
  /\ question \in [QuestionIds -> Questions \cup {None}]
  /\ \A i \in QuestionIds \ Free : \A j \in QuestionIds : j < i => j \notin Free
  /\ \A r \in Interviews : \A j \in Free : talk[r].version < MaxTalkVersion + j
  /\ \A i \in QuestionIds \ Free : question[i].version < MaxTalkVersion + i

Copies ==
  [ kind : {"route"} \cup DiscardOnly, version : Versions, pending : BOOLEAN, talk : Interviews,
    talkStatus : TalkStatus, talkVersion : Versions ]

(* A request works on a question that was asked, and on its version then.  *)
LoadedOK(p) ==
  /\ asked[p] \in Asks /\ copy[p] \in Copies
  /\ asked[p].question \in QuestionIds \ Free
  /\ copy[p].version = question[asked[p].question].version

(* What is read before it is asked: a version within the free numbers.     *)
AsksOK(A) ==
  /\ A \subseteq Interviews \X Versions
  /\ \A a \in A : \A j \in Free : a[2] < MaxTalkVersion + j

PlanOK(p) ==
  /\ AsksOK(plan[p].asks)
  /\ \A i \in QuestionIds : \A s \in {"completed", "failed"} :
       <<i, s>> \in plan[p].closes => i \notin Free

Steps == {"idle", "loaded", "answered", "reconcile", "asking", "enqueue"}

RequestsInv ==
  /\ step \in [Procs -> Steps]
  /\ asked \in [Answers -> Asks \cup {None}]
  /\ copy \in [Answers -> Copies \cup {None}]
  /\ plan = [p \in Procs |-> plan[p]]
  /\ replays \subseteq Asks
  /\ \A p \in Answers : step[p] = "loaded" => LoadedOK(p)
  /\ \A p \in Procs : PlanOK(p)

ReviewInv == RowsInv /\ RequestsInv

LEMMA NoRow == None \notin Questions /\ None \notin Asks
BY NoneIsNoRow

LEMMA Numbers ==
  /\ MaxQuestions \in Nat /\ MaxTalkVersion \in Nat
  /\ \A i \in QuestionIds : i \in Nat /\ i >= 1 /\ i <= MaxQuestions
  /\ \A v \in Versions : v \in Nat
  /\ \A v \in Nat : \A i \in QuestionIds : v <= MaxTalkVersion + i => v \in Versions
BY BoundAssumption DEF QuestionIds, Versions

LEMMA ReviewSays == ReviewInv => ReviewTypeOK
BY NoRow DEF ReviewInv, RowsInv, RequestsInv, LoadedOK, PlanOK, AsksOK, ReviewTypeOK, Steps, Free, Procs

(* Nothing is forgotten of the questions that were asked.                  *)
KeepsQuestions ==
  \A i \in QuestionIds \ Free : question'[i] # None /\ question'[i].version = question[i].version

LEMMA FreeShrinks == KeepsQuestions => Free' \subseteq Free
BY DEF KeepsQuestions, Free

LEMMA RequestsCarry ==
  ASSUME RequestsInv, KeepsQuestions, UNCHANGED requests, replays' \subseteq Asks
  PROVE  RequestsInv'
<1>1. /\ step' = step /\ asked' = asked /\ copy' = copy /\ plan' = plan
  BY DEF requests
<1>2. \A p \in Answers : step'[p] = "loaded" => LoadedOK(p)'
  BY <1>1, FreeShrinks DEF RequestsInv, LoadedOK, KeepsQuestions
<1>3. \A p \in Procs : PlanOK(p)'
  BY <1>1, FreeShrinks DEF RequestsInv, PlanOK, AsksOK
<1> QED BY <1>1, <1>2, <1>3 DEF RequestsInv

(* A step of process p, which leaves the rows of the others alone.         *)
LEMMA RequestMoves ==
  ASSUME RequestsInv, KeepsQuestions, NEW p \in Procs, NEW s \in Steps,
         ToStep(p, s), replays' \subseteq Asks,
         asked' \in [Answers -> Asks \cup {None}], copy' \in [Answers -> Copies \cup {None}],
         plan' = [q \in Procs |-> plan'[q]],
         \A q \in Answers \ {p} : asked'[q] = asked[q] /\ copy'[q] = copy[q],
         \A q \in Procs \ {p} : plan'[q] = plan[q],
         s # "loaded", PlanOK(p)'
  PROVE  RequestsInv'
<1>1. /\ step' \in [Procs -> Steps] /\ step'[p] = s
      /\ \A q \in Procs \ {p} : step'[q] = step[q]
  BY DEF RequestsInv, ToStep
<1>2. ASSUME NEW q \in Answers, step'[q] = "loaded" PROVE LoadedOK(q)'
  <2>1. q # p /\ q \in Procs
    BY <1>1, <1>2 DEF Procs
  <2>2. LoadedOK(q) /\ asked'[q] = asked[q] /\ copy'[q] = copy[q]
    BY <2>1, <1>1, <1>2 DEF RequestsInv
  <2> QED BY <2>2, FreeShrinks DEF LoadedOK, KeepsQuestions
<1>3. ASSUME NEW q \in Procs, q # p PROVE PlanOK(q)'
  <2>1. plan'[q] = plan[q] /\ PlanOK(q)
    BY <1>3 DEF RequestsInv
  <2> QED BY <2>1, FreeShrinks DEF PlanOK, AsksOK
<1> QED BY <1>1, <1>2, <1>3 DEF RequestsInv
-----------------------------------------------------------------------------
(* The rows: their steps.                                                  *)

LEMMA RowsUnchanged ==
  ASSUME RowsInv, UNCHANGED rows
  PROVE  RowsInv' /\ KeepsQuestions
BY DEF RowsInv, rows, KeepsQuestions, Free

(* A step that changes of questions their status only, and may raise a     *)
(* version to that of a question.                                          *)
LEMMA RowsMove ==
  ASSUME RowsInv, talk' \in [Interviews -> Talks],
         question' \in [QuestionIds -> Questions \cup {None}],
         \A i \in QuestionIds : /\ question'[i] = None <=> question[i] = None
                                /\ question[i] # None => question'[i].version = question[i].version,
         \A r \in Interviews :
           \/ talk'[r].version = talk[r].version
           \/ talk'[r].version <= MaxTalkVersion
           \/ \E i \in QuestionIds \ Free : talk'[r].version = question[i].version + 1
  PROVE  RowsInv' /\ KeepsQuestions
<1>1. Free' = Free
  BY DEF Free
<1>2. KeepsQuestions
  BY DEF KeepsQuestions, Free
<1>3. ASSUME NEW r \in Interviews, NEW j \in Free
      PROVE  talk'[r].version < MaxTalkVersion + j
  <2>1. j \in QuestionIds /\ talk'[r].version \in Nat /\ talk[r].version \in Nat
    BY Numbers DEF Free, RowsInv, Talks
  <2>2. CASE talk'[r].version = talk[r].version
    BY <2>2 DEF RowsInv
  <2>3. CASE talk'[r].version <= MaxTalkVersion
    BY <2>1, <2>3, Numbers
  <2>4. CASE \E i \in QuestionIds \ Free : talk'[r].version = question[i].version + 1
    <3>1. PICK i \in QuestionIds \ Free : talk'[r].version = question[i].version + 1
      BY <2>4
    <3>2. question[i].version < MaxTalkVersion + i /\ question[i].version \in Nat
      BY Numbers DEF RowsInv, Free, Questions
    <3>3. ~(j < i) /\ j # i
      BY <2>1 DEF RowsInv
    <3>4. i < j
      BY <2>1, <3>3, Numbers
    <3> HIDE DEF Free
    <3> QED BY <2>1, <3>1, <3>2, <3>4, Numbers
  <2> QED BY <2>2, <2>3, <2>4
<1> QED BY <1>1, <1>2, <1>3 DEF RowsInv, Free

(* What enqueue_review reads satisfies AsksOK.                             *)
LEMMA AskingOK ==
  ASSUME RowsInv, NEW R, R \subseteq Interviews
  PROVE  AsksOK(Asking(R))
<1>1. ASSUME NEW r \in Interviews
      PROVE  /\ <<r, talk[r].version>> \in Interviews \X Versions
             /\ \A j \in Free : talk[r].version < MaxTalkVersion + j
  BY DEF RowsInv, Talks
<1>2. Unasked(R) \subseteq Interviews
  BY DEF Unasked
<1>3. \A a \in Asking(R) : \E r \in Interviews : a = <<r, talk[r].version>>
  BY <1>2 DEF Asking
<1> QED BY <1>1, <1>3 DEF AsksOK

(* The questions that are inserted get the lowest free numbers.            *)
LEMMA Inserts ==
  ASSUME RowsInv, talk' = talk, NEW q, NEW R, AsksOK(R),
         q \in [QuestionIds -> Questions \cup {None}],
         \A i \in QuestionIds : /\ q[i] = None <=> question[i] = None
                                /\ question[i] # None => q[i].version = question[i].version,
         Insert(q, R)
  PROVE  RowsInv' /\ KeepsQuestions
<1>1. CASE question' = q
  BY <1>1, RowsMove DEF RowsInv
<1>2. CASE \E f \in [R -> Free] :
             LET new == {f[a] : a \in R} IN
             /\ Cardinality(new) = Cardinality(R)
             /\ \A i \in new, j \in Free \ new : i < j
             /\ question' = [i \in QuestionIds |->
                  IF i \in new
                    THEN LET a == CHOOSE x \in R : f[x] = i IN NewQuestion(a[1], "route", a[2])
                    ELSE q[i]]
  <2>1. PICK f \in [R -> Free] :
             LET new == {f[a] : a \in R} IN
             /\ \A i \in new, j \in Free \ new : i < j
             /\ question' = [i \in QuestionIds |->
                  IF i \in new
                    THEN LET a == CHOOSE x \in R : f[x] = i IN NewQuestion(a[1], "route", a[2])
                    ELSE q[i]]
    BY <1>2
  <2> DEFINE new == {f[a] : a \in R}
             ask(i) == CHOOSE x \in R : f[x] = i
  <2>2. /\ \A i \in new : \A j \in Free \ new : i < j
        /\ question' = [i \in QuestionIds |->
             IF i \in new THEN NewQuestion(ask(i)[1], "route", ask(i)[2]) ELSE q[i]]
        /\ new \subseteq Free /\ Free \subseteq QuestionIds
    BY <2>1 DEF Free
  <2>3. \A i \in new : ask(i) \in R
    BY <2>1
  <2> HIDE DEF new, ask
  <2>4. ASSUME NEW i \in new
        PROVE  /\ question'[i] \in Questions
               /\ question'[i].version < MaxTalkVersion + i
    <3>1. /\ ask(i) \in R /\ i \in Free /\ i \in QuestionIds
          /\ question'[i] = NewQuestion(ask(i)[1], "route", ask(i)[2])
      BY <2>2, <2>3
    <3>2. ask(i)[1] \in Interviews /\ ask(i)[2] \in Versions /\ ask(i)[2] < MaxTalkVersion + i
      BY <3>1 DEF AsksOK
    <3> QED BY <3>1, <3>2 DEF NewQuestion, Questions
  <2>5. \A i \in QuestionIds \ new : question'[i] = q[i]
    BY <2>2
  <2>6. question' \in [QuestionIds -> Questions \cup {None}]
    BY <2>2, <2>4, <2>5
  <2>7. Free' = Free \ new /\ KeepsQuestions
    BY <2>2, <2>4, <2>5, NoRow DEF Free, KeepsQuestions
  <2>8. ASSUME NEW i \in QuestionIds \ Free', NEW j \in QuestionIds, j < i PROVE j \notin Free'
    <3>1. CASE i \in new
      BY <3>1, <2>2, <2>7, <2>8, Numbers
    <3>2. CASE i \notin Free
      BY <3>2, <2>7, <2>8 DEF RowsInv
    <3> QED BY <3>1, <3>2, <2>7
  <2>9. \A r \in Interviews : \A j \in Free' : talk'[r].version < MaxTalkVersion + j
    BY <2>7 DEF RowsInv
  <2>10. ASSUME NEW i \in QuestionIds \ Free' PROVE question'[i].version < MaxTalkVersion + i
    <3>1. CASE i \in new
      BY <3>1, <2>4
    <3>2. CASE i \notin Free /\ i \notin new
      BY <3>2, <2>5 DEF RowsInv, Free
    <3> QED BY <3>1, <3>2, <2>2, <2>7
  <2> QED BY <2>6, <2>7, <2>8, <2>9, <2>10 DEF RowsInv
<1> QED BY <1>1, <1>2 DEF Insert

(* A question that is inserted at once, at a version that stays within     *)
(* that of the recording.                                                  *)
LEMMA AsksBeside ==
  ASSUME RowsInv, NEW r \in Interviews, NEW kind \in {"route"} \cup DiscardOnly, NEW v \in Versions,
         talk' \in [Interviews -> Talks],
         \A x \in Interviews : talk'[x].version = talk[x].version \/ talk'[x].version <= MaxTalkVersion,
         v <= MaxTalkVersion \/ v = talk[r].version,
         AskBeside(r, kind, v)
  PROVE  RowsInv' /\ KeepsQuestions
<1>1. PICK i \in Free : /\ \A j \in Free : i <= j
                        /\ question' = [question EXCEPT ![i] = NewQuestion(r, kind, v)]
  BY DEF AskBeside
<1>2. i \in QuestionIds /\ i \in Nat /\ i >= 1 /\ Free \subseteq QuestionIds
  BY Numbers DEF Free
<1> DEFINE new == NewQuestion(r, kind, v)
<1>3. new \in Questions /\ new.version = v
  BY DEF NewQuestion, Questions
<1> HIDE DEF new
<1>4. /\ question' \in [QuestionIds -> Questions \cup {None}]
      /\ \A j \in QuestionIds : question'[j] = IF j = i THEN new ELSE question[j]
  BY <1>1, <1>2, <1>3 DEF RowsInv, new
<1>5. Free' = Free \ {i} /\ KeepsQuestions
  BY <1>1, <1>2, <1>3, <1>4, NoRow DEF Free, KeepsQuestions
<1>6. ASSUME NEW x \in Interviews, NEW j \in Free
      PROVE  talk'[x].version < MaxTalkVersion + j
  <2>1. talk'[x].version \in Nat /\ j \in QuestionIds /\ talk[x].version < MaxTalkVersion + j
    BY <1>2, Numbers DEF RowsInv, Talks
  <2> QED BY <2>1, Numbers
<1>7. v < MaxTalkVersion + i
  <2>1. talk[r].version < MaxTalkVersion + i
    BY DEF RowsInv
  <2> QED BY <2>1, <1>2, Numbers
<1>8. ASSUME NEW k \in QuestionIds \ Free', NEW j \in QuestionIds, j < k PROVE j \notin Free'
  <2>1. CASE k = i
    BY <2>1, <1>1, <1>5, <1>8, Numbers
  <2>2. CASE k \notin Free
    BY <2>2, <1>5, <1>8 DEF RowsInv
  <2> QED BY <2>1, <2>2, <1>5
<1>9. ASSUME NEW k \in QuestionIds \ Free' PROVE question'[k].version < MaxTalkVersion + k
  <2>1. CASE k = i
    BY <2>1, <1>3, <1>4, <1>7
  <2>2. CASE k \notin Free /\ k # i
    BY <2>2, <1>4 DEF RowsInv
  <2> QED BY <2>1, <2>2, <1>5
<1> QED BY <1>4, <1>5, <1>6, <1>8, <1>9 DEF RowsInv
-----------------------------------------------------------------------------
(* Every action.                                                           *)

LEMMA LoadsQuestion ==
  ASSUME ReviewInv, NEW p \in Answers, LoadQuestion(p)
  PROVE  ReviewInv'
<1>1. PICK ask \in Asks :
        LET q == question[ask.question] IN
        /\ q # None
        /\ asked' = [asked EXCEPT ![p] = ask]
        /\ copy' = [copy EXCEPT ![p] =
             [ kind |-> q.kind, version |-> q.version, pending |-> q.status = "pending",
               talk |-> q.talk, talkStatus |-> talk[q.talk].status,
               talkVersion |-> talk[q.talk].version ]]
  BY DEF LoadQuestion
<1> DEFINE q == question[ask.question]
           c == [ kind |-> q.kind, version |-> q.version, pending |-> q.status = "pending",
                  talk |-> q.talk, talkStatus |-> talk[q.talk].status,
                  talkVersion |-> talk[q.talk].version ]
<1>2. /\ ask.question \in QuestionIds /\ q \in Questions /\ ask.question \notin Free
  BY <1>1 DEF ReviewInv, RowsInv, Asks, Free
<1>3. talk[q.talk] \in Talks
  BY <1>2 DEF ReviewInv, RowsInv, Questions
<1>4. c \in Copies /\ c.version = q.version
  BY <1>2, <1>3 DEF Questions, Talks, Copies
<1>5. copy' = [copy EXCEPT ![p] = c]
  BY <1>1
<1> HIDE DEF c
<1>6. RowsInv' /\ KeepsQuestions /\ question' = question /\ Free' = Free
  BY RowsUnchanged DEF LoadQuestion, ReviewInv, rows, Free
<1>7. /\ step' = [step EXCEPT ![p] = "loaded"] /\ p \in Procs
      /\ replays' = replays /\ plan' = plan
  BY DEF LoadQuestion, ToStep, Procs
<1>8. ASSUME NEW a \in Answers, step'[a] = "loaded" PROVE LoadedOK(a)'
  <2>1. CASE a = p
    BY <2>1, <1>1, <1>2, <1>4, <1>5, <1>6 DEF LoadedOK, ReviewInv, RequestsInv
  <2>2. CASE a # p
    <3>1. LoadedOK(a) /\ asked'[a] = asked[a] /\ copy'[a] = copy[a]
      BY <2>2, <1>1, <1>5, <1>7, <1>8 DEF ReviewInv, RequestsInv, Procs
    <3> QED BY <3>1, <1>6 DEF LoadedOK
  <2> QED BY <2>1, <2>2
<1>9. \A a \in Procs : PlanOK(a)'
  BY <1>6, <1>7 DEF ReviewInv, RequestsInv, PlanOK, AsksOK
<1>10. /\ asked' \in [Answers -> Asks \cup {None}] /\ copy' \in [Answers -> Copies \cup {None}]
       /\ step' \in [Procs -> Steps]
  BY <1>1, <1>4, <1>5, <1>7 DEF ReviewInv, RequestsInv, Steps
<1>11. plan' = [a \in Procs |-> plan'[a]] /\ replays' \subseteq Asks
  BY <1>7 DEF ReviewInv, RequestsInv
<1>12. RequestsInv'
  BY <1>8, <1>9, <1>10, <1>11 DEF RequestsInv
<1> QED BY <1>6, <1>12 DEF ReviewInv

(* The end of the first part of a request, on whatever rows it leaves.     *)
LEMMA Processes ==
  ASSUME RequestsInv, KeepsQuestions, NEW p \in Answers, Processed(p), plan' = plan,
         replays' \subseteq Asks
  PROVE  RequestsInv'
<1>1. /\ p \in Procs /\ "answered" \in Steps /\ ToStep(p, "answered")
      /\ asked' = [asked EXCEPT ![p] = None] /\ copy' = [copy EXCEPT ![p] = None]
  BY DEF Processed, Procs, Steps
<1>2. /\ asked' \in [Answers -> Asks \cup {None}] /\ copy' \in [Answers -> Copies \cup {None}]
      /\ \A q \in Answers \ {p} : asked'[q] = asked[q] /\ copy'[q] = copy[q]
  BY <1>1 DEF RequestsInv
<1>3. PlanOK(p)' /\ plan' = [q \in Procs |-> plan'[q]]
  BY <1>1, FreeShrinks DEF RequestsInv, PlanOK, AsksOK
<1> QED BY <1>1, <1>2, <1>3, RequestMoves

LEMMA AnswersRejected ==
  ASSUME ReviewInv, NEW p \in Answers, AnswerReplayed(p) \/ AnswerRejected(p)
  PROVE  ReviewInv'
<1>1. RowsInv' /\ KeepsQuestions
  <2>1. CASE UNCHANGED rows
    BY <2>1, RowsUnchanged DEF ReviewInv
  <2>2. CASE ~UNCHANGED rows
    <3> DEFINE i == asked[p].question
    <3>1. /\ step[p] = "loaded" /\ talk' = talk
          /\ question' = [question EXCEPT ![i].status = "suppressed"]
      BY <2>2 DEF AnswerReplayed, AnswerRejected, rows
    <3>2. i \in QuestionIds \ Free
      BY <3>1 DEF ReviewInv, RequestsInv, LoadedOK
    <3>3. question[i] \in Questions /\ question[i] # None
      BY <3>2 DEF ReviewInv, RowsInv, Free
    <3> DEFINE row == [question[i] EXCEPT !.status = "suppressed"]
    <3>4. row \in Questions /\ row.version = question[i].version
      BY <3>3 DEF Questions
    <3>5. question' = [question EXCEPT ![i] = row]
      BY <3>1
    <3> HIDE DEF row, i
    <3>6. /\ question' \in [QuestionIds -> Questions \cup {None}]
          /\ \A j \in QuestionIds : question'[j] = IF j = i THEN row ELSE question[j]
      BY <3>4, <3>5 DEF ReviewInv, RowsInv
    <3>7. \A j \in QuestionIds : /\ question'[j] = None <=> question[j] = None
                                 /\ question[j] # None => question'[j].version = question[j].version
      BY <3>3, <3>4, <3>6, NoRow
    <3>8. talk' \in [Interviews -> Talks] /\ RowsInv
      BY <3>1 DEF ReviewInv, RowsInv
    <3>9. \A r \in Interviews : talk'[r].version = talk[r].version
      BY <3>1
    <3> QED BY <3>6, <3>7, <3>8, <3>9, RowsMove
  <2> QED BY <2>1, <2>2
<1>2. Processed(p) /\ plan' = plan /\ replays' \subseteq Asks
  BY DEF AnswerReplayed, AnswerRejected, ReviewInv, RequestsInv
<1> QED BY <1>1, <1>2, Processes DEF ReviewInv

LEMMA AnswersAccepted ==
  ASSUME ReviewInv, NEW p \in Answers, AnswerAccepted(p)
  PROVE  ReviewInv'
<1>0. PICK s \in StatusAfter(asked[p].action) :
        talk' = [talk EXCEPT ![copy[p].talk].version = copy[p].talkVersion + 1,
                   ![copy[p].talk].status = IF copy[p].kind \in DiscardOnly THEN @ ELSE s]
  BY DEF AnswerAccepted
<1> DEFINE i == asked[p].question
           c == copy[p]
           t == [ talk[c.talk] EXCEPT !.version = c.talkVersion + 1,
                    !.status = IF c.kind \in DiscardOnly THEN talk[c.talk].status
                               ELSE s ]
           row == [question[i] EXCEPT !.status = "processing"]
<1>1. /\ step[p] = "loaded" /\ c.talkVersion = c.version
      /\ talk' = [talk EXCEPT ![c.talk].version = c.talkVersion + 1,
                    ![c.talk].status = IF c.kind \in DiscardOnly THEN @ ELSE s]
      /\ question' = [question EXCEPT ![i].status = "processing"]
      /\ replays' = replays \cup {asked[p]} /\ Processed(p) /\ plan' = plan
  BY <1>0 DEF AnswerAccepted, Unanswered, Answerable
<1>2. /\ asked[p] \in Asks /\ c \in Copies /\ i \in QuestionIds \ Free
      /\ c.version = question[i].version
  BY <1>1 DEF ReviewInv, RequestsInv, LoadedOK
<1>3. /\ question[i] \in Questions /\ question[i] # None /\ question[i].version < MaxTalkVersion + i
      /\ c.talk \in Interviews /\ talk[c.talk] \in Talks
  BY <1>2 DEF ReviewInv, RowsInv, Free, Copies
<1>4. c.talkVersion + 1 \in Versions
  <2>1. i \in QuestionIds /\ question[i].version \in Nat
    BY <1>2, <1>3, Numbers DEF Questions
  <2>2. question[i].version + 1 <= MaxTalkVersion + i
    BY <2>1, <1>3, Numbers
  <2> HIDE DEF i, c
  <2> QED BY <2>1, <2>2, <1>1, <1>2, Numbers
<1>5. row \in Questions /\ row.version = question[i].version /\ question' = [question EXCEPT ![i] = row]
  BY <1>1, <1>3 DEF Questions
<1>6. t \in Talks /\ t.version = question[i].version + 1 /\ talk' = [talk EXCEPT ![c.talk] = t]
  <2>1. talk' = [talk EXCEPT ![c.talk] = t]
    BY <1>1, <1>3 DEF ReviewInv, RowsInv
  <2>2. talk[c.talk].status \in TalkStatus
    BY <1>3 DEF Talks
  <2>3. s \in TalkStatus
    BY <1>0 DEF StatusAfter, TalkStatus, UnderWay, Settled
  <2>4. t.version = c.talkVersion + 1
    BY <1>3 DEF Talks
  <2>5. t \in Talks
    BY <2>2, <2>3, <1>3, <1>4 DEF Talks
  <2> QED BY <2>1, <2>4, <2>5, <1>1, <1>2
<1> HIDE DEF t, row, i, c
<1>7. /\ question' \in [QuestionIds -> Questions \cup {None}]
      /\ \A j \in QuestionIds : question'[j] = IF j = i THEN row ELSE question[j]
      /\ talk' \in [Interviews -> Talks]
      /\ \A r \in Interviews : talk'[r] = IF r = c.talk THEN t ELSE talk[r]
  BY <1>5, <1>6 DEF ReviewInv, RowsInv
<1>8. \A j \in QuestionIds : /\ question'[j] = None <=> question[j] = None
                             /\ question[j] # None => question'[j].version = question[j].version
  BY <1>3, <1>5, <1>7, NoRow
<1>9. \A r \in Interviews :
        \/ talk'[r].version = talk[r].version
        \/ \E j \in QuestionIds \ Free : talk'[r].version = question[j].version + 1
  BY <1>2, <1>6, <1>7
<1>10. RowsInv' /\ KeepsQuestions
  BY <1>7, <1>8, <1>9, RowsMove DEF ReviewInv
<1>11. replays' \subseteq Asks
  BY <1>1, <1>2 DEF ReviewInv, RequestsInv
<1>12. RequestsInv'
  BY <1>1, <1>10, <1>11, Processes DEF ReviewInv
<1> QED BY <1>10, <1>12 DEF ReviewInv

LEMMA RequestsStop ==
  ASSUME ReviewInv, NEW p \in Answers, RequestStops(p)
  PROVE  ReviewInv'
<1>1. RowsInv' /\ KeepsQuestions
  BY RowsUnchanged DEF ReviewInv, RequestStops
<1>2. /\ p \in Procs /\ "idle" \in Steps /\ ToStep(p, "idle") /\ replays' \subseteq Asks
      /\ asked' = [asked EXCEPT ![p] = None] /\ copy' = [copy EXCEPT ![p] = None]
      /\ plan' = [plan EXCEPT ![p] = NoPlan]
  BY DEF RequestStops, Procs, Steps, ReviewInv, RequestsInv
<1>3. /\ asked' \in [Answers -> Asks \cup {None}] /\ copy' \in [Answers -> Copies \cup {None}]
      /\ \A q \in Answers \ {p} : asked'[q] = asked[q] /\ copy'[q] = copy[q]
  BY <1>2 DEF ReviewInv, RequestsInv
<1>4. /\ plan' = [q \in Procs |-> plan'[q]] /\ plan'[p] = NoPlan
      /\ \A q \in Procs \ {p} : plan'[q] = plan[q]
  BY <1>2 DEF ReviewInv, RequestsInv
<1>5. PlanOK(p)'
  BY <1>4 DEF PlanOK, AsksOK, NoPlan
<1>6. RequestsInv'
  BY <1>1, <1>2, <1>3, <1>4, <1>5, RequestMoves DEF ReviewInv, Steps
<1> QED BY <1>1, <1>6 DEF ReviewInv

(* A step that only plans, on unchanged rows, or forgets its plan.         *)
LEMMA Plans ==
  ASSUME RequestsInv, KeepsQuestions, NEW p \in Procs, NEW s \in Steps, s # "loaded", ToStep(p, s),
         replays' = replays, asked' = asked, copy' = copy, NEW new,
         plan' = plan \/ plan' = [plan EXCEPT ![p] = new], PlanOK(p)'
  PROVE  RequestsInv'
<1>1. /\ plan' = [q \in Procs |-> plan'[q]]
      /\ \A q \in Procs \ {p} : plan'[q] = plan[q]
  BY DEF RequestsInv
<1>2. asked' \in [Answers -> Asks \cup {None}] /\ copy' \in [Answers -> Copies \cup {None}]
  BY DEF RequestsInv
<1> QED BY <1>1, <1>2, RequestMoves DEF RequestsInv

LEMMA LooksAtProcessing ==
  ASSUME ReviewInv, NEW p \in Procs, LookAtProcessing(p)
  PROVE  ReviewInv'
<1> DEFINE ids  == {i \in QuestionIds : Closable(i)}
           told == {i \in ids : talk[question[i].talk].status \in {"ignored", "review"}}
           new  == [ closes |-> {<<i, Outcome(talk[question[i].talk].status)>> : i \in ids},
                     notes  |-> {<<"closed", i, question[i].version>> : i \in told},
                     asks   |-> Asking({question[i].talk : i \in told}) ]
<1>1. /\ plan' = [plan EXCEPT ![p] = new] /\ ToStep(p, "reconcile")
      /\ replays' = replays /\ asked' = asked /\ copy' = copy /\ UNCHANGED rows
  BY DEF LookAtProcessing
<1>2. RowsInv' /\ KeepsQuestions
  BY <1>1, RowsUnchanged DEF ReviewInv
<1>3. plan'[p] = new
  BY <1>1 DEF ReviewInv, RequestsInv
<1>4. \A i \in ids : i \notin Free /\ question[i] \in Questions
  BY DEF ReviewInv, RowsInv, Closable, Processing, Free
<1>5. AsksOK(Asking({question[i].talk : i \in told}))
  <2>1. {question[i].talk : i \in told} \subseteq Interviews
    BY <1>4 DEF Questions
  <2> QED BY <2>1, AskingOK DEF ReviewInv
<1>6. \A i \in QuestionIds : i \in Free' => i \in Free
  BY <1>2, FreeShrinks
<1>7. PlanOK(p)'
  <2>1. AsksOK(plan'[p].asks)
    BY <1>3, <1>5
  <2>2. ASSUME NEW i \in QuestionIds, NEW s \in {"completed", "failed"}, <<i, s>> \in plan'[p].closes
        PROVE  i \notin Free'
    <3>1. i \in ids
      BY <2>2, <1>3
    <3> QED BY <3>1, <1>4, <1>6
  <2> HIDE DEF new
  <2> QED BY <2>1, <2>2, <1>2, FreeShrinks DEF PlanOK, AsksOK
<1> HIDE DEF new
<1>8. "reconcile" \in Steps
  BY DEF Steps
<1>9. RequestsInv'
  BY <1>1, <1>2, <1>7, <1>8, Plans DEF ReviewInv
<1> QED BY <1>2, <1>9 DEF ReviewInv

LEMMA Reconciles ==
  ASSUME ReviewInv, NEW p \in Procs, Reconcile(p)
  PROVE  ReviewInv'
<1> DEFINE closed(i) == {s \in {"completed", "failed"} : <<i, s>> \in plan[p].closes}
           q == [i \in QuestionIds |-> IF closed(i) = {} THEN question[i]
                   ELSE [question[i] EXCEPT !.status = CHOOSE s \in closed(i) : TRUE]]
           next == IF p = Scan THEN "asking" ELSE "idle"
<1>1. /\ Insert(q, plan[p].asks) /\ talk' = talk
      /\ plan' = [plan EXCEPT ![p] = NoPlan] /\ ToStep(p, next)
      /\ replays' = replays /\ asked' = asked /\ copy' = copy
  BY DEF Reconcile
<1>2. AsksOK(plan[p].asks)
  BY DEF ReviewInv, RequestsInv, PlanOK
<1>3. ASSUME NEW i \in QuestionIds
      PROVE  /\ q[i] \in Questions \cup {None} /\ (q[i] = None <=> question[i] = None)
             /\ question[i] # None => q[i].version = question[i].version
  <2>1. CASE closed(i) = {}
    <3>1. q[i] = question[i]
      BY <2>1
    <3> HIDE DEF q
    <3> QED BY <3>1 DEF ReviewInv, RowsInv
  <2>2. CASE closed(i) # {}
    <3> DEFINE s == CHOOSE s \in closed(i) : TRUE
    <3>1. s \in closed(i) /\ s \in {"completed", "failed"}
      BY <2>2
    <3>2. <<i, s>> \in plan[p].closes
      BY <3>1
    <3>3. q[i] = [question[i] EXCEPT !.status = s]
      BY <2>2
    <3> HIDE DEF s, q
    <3>4. i \notin Free
      BY <3>1, <3>2 DEF ReviewInv, RequestsInv, PlanOK
    <3>5. question[i] \in Questions /\ question[i] # None
      BY <3>4 DEF ReviewInv, RowsInv, Free
    <3>6. q[i] \in Questions /\ q[i].version = question[i].version
      BY <3>1, <3>3, <3>5 DEF Questions
    <3> QED BY <3>5, <3>6, NoRow
  <2> QED BY <2>1, <2>2
<1>4. q \in [QuestionIds -> Questions \cup {None}]
  <2>1. \A i \in QuestionIds : q[i] \in Questions \cup {None}
    BY <1>3
  <2>2. q = [i \in QuestionIds |-> q[i]]
    OBVIOUS
  <2> HIDE DEF q
  <2> QED BY <2>1, <2>2
<1>5. next \in Steps /\ next # "loaded"
  BY DEF Steps
<1> HIDE DEF q, next
<1>6. RowsInv' /\ KeepsQuestions
  BY <1>1, <1>2, <1>3, <1>4, Inserts DEF ReviewInv
<1>7. PlanOK(p)'
  <2>1. plan'[p] = NoPlan
    BY <1>1 DEF ReviewInv, RequestsInv
  <2> QED BY <2>1 DEF PlanOK, AsksOK, NoPlan
<1>8. RequestsInv'
  BY <1>1, <1>5, <1>6, <1>7, Plans DEF ReviewInv
<1> QED BY <1>6, <1>8 DEF ReviewInv

LEMMA Scans ==
  ASSUME ReviewInv, StartScan \/ LookAtReviews \/ EndScan \/ ScanStops
  PROVE  ReviewInv'
<1>1. /\ Scan \in Procs /\ replays' = replays /\ asked' = asked /\ copy' = copy /\ talk' = talk
      /\ {"answered", "enqueue", "idle"} \subseteq Steps
  BY DEF Procs, StartScan, LookAtReviews, EndScan, ScanStops, rows, Steps
<1>2. RowsInv' /\ KeepsQuestions
  <2>1. CASE UNCHANGED rows
    BY <2>1, RowsUnchanged DEF ReviewInv
  <2>2. CASE EndScan
    <3>1. Insert(question, plan[Scan].asks)
      BY <2>2 DEF EndScan
    <3>2. AsksOK(plan[Scan].asks)
      BY <1>1 DEF ReviewInv, RequestsInv, PlanOK
    <3>3. question \in [QuestionIds -> Questions \cup {None}] /\ RowsInv
      BY DEF ReviewInv, RowsInv
    <3> QED BY <1>1, <3>1, <3>2, <3>3, Inserts
  <2> QED BY <2>1, <2>2 DEF StartScan, LookAtReviews, EndScan, ScanStops
<1>3. CASE StartScan
  <2>1. PlanOK(Scan)' /\ plan' = plan /\ ToStep(Scan, "answered")
    BY <1>1, <1>2, <1>3, FreeShrinks DEF StartScan, ReviewInv, RequestsInv, PlanOK, AsksOK
  <2> QED BY <1>1, <1>2, <2>1, Plans DEF ReviewInv
<1>4. CASE LookAtReviews
  <2> DEFINE new == [NoPlan EXCEPT !.asks = Asking(Interviews)]
  <2>1. plan' = [plan EXCEPT ![Scan] = new] /\ ToStep(Scan, "enqueue")
    BY <1>4 DEF LookAtReviews
  <2>2. AsksOK(new.asks) /\ new.closes = {}
    BY AskingOK DEF NoPlan, ReviewInv
  <2> HIDE DEF new
  <2>3. plan'[Scan] = new
    BY <1>1, <2>1 DEF ReviewInv, RequestsInv
  <2>4. PlanOK(Scan)'
    BY <2>2, <2>3, <1>2, FreeShrinks DEF PlanOK, AsksOK
  <2> QED BY <1>1, <1>2, <2>1, <2>4, Plans DEF ReviewInv
<1>5. CASE EndScan \/ ScanStops
  <2>1. plan' = [plan EXCEPT ![Scan] = NoPlan] /\ ToStep(Scan, "idle")
    BY <1>5 DEF EndScan, ScanStops
  <2>2. plan'[Scan] = NoPlan
    BY <1>1, <2>1 DEF ReviewInv, RequestsInv
  <2>3. PlanOK(Scan)'
    BY <2>2 DEF PlanOK, AsksOK, NoPlan
  <2> QED BY <1>1, <1>2, <2>1, <2>3, Plans DEF ReviewInv
<1> QED BY <1>3, <1>4, <1>5

(* What else happens to recordings and questions.                          *)
LEMMA ElsewhereMoves ==
  ASSUME ReviewInv, DigestCloses \/ \E r \in Interviews : Elsewhere(r)
  PROVE  ReviewInv'
<1>1. UNCHANGED requests /\ replays' = replays
  BY DEF DigestCloses, Elsewhere, Announce, RouteInterview, PipelineGoes, PipelineDecides,
         PipelineCompletes, WorkerDefers, SubmitSummary, EscalateEmail, AskBeside
<1>2. replays' \subseteq Asks
  BY <1>1 DEF ReviewInv, RequestsInv
<1>3. RowsInv /\ RequestsInv
  BY DEF ReviewInv
<1>4. SUFFICES RowsInv' /\ KeepsQuestions
  BY <1>1, <1>2, <1>3, RequestsCarry DEF ReviewInv
<1>5. CASE DigestCloses
  <2>1. PICK suppressed \in SUBSET Pending :
          question' = [i \in QuestionIds |->
            IF i \notin Pending THEN question[i]
            ELSE IF question[i].kind = "route" /\ talk[question[i].talk].status \in Settled
              THEN [question[i] EXCEPT !.status = "completed"]
            ELSE IF i \in suppressed THEN [question[i] EXCEPT !.status = "suppressed"]
            ELSE question[i]]
    BY <1>5 DEF DigestCloses
  <2>2. ASSUME NEW i \in QuestionIds
        PROVE  /\ question'[i] \in Questions \cup {None}
               /\ question'[i] = None <=> question[i] = None
               /\ question[i] # None => question'[i].version = question[i].version
    <3>1. CASE i \notin Pending
      BY <1>3, <2>1, <3>1 DEF RowsInv
    <3>2. CASE i \in Pending
      <4>1. question[i] \in Questions /\ question[i] # None
        BY <1>3, <3>2 DEF RowsInv, Pending
      <4>2. question'[i] \in {question[i], [question[i] EXCEPT !.status = "completed"],
                              [question[i] EXCEPT !.status = "suppressed"]}
        BY <2>1
      <4>3. question'[i] \in Questions /\ question'[i].version = question[i].version
        BY <4>1, <4>2 DEF Questions
      <4> QED BY <4>1, <4>3, NoRow
    <3> QED BY <3>1, <3>2
  <2>3. question' \in [QuestionIds -> Questions \cup {None}]
    BY <2>1, <2>2
  <2>4. talk' = talk /\ talk' \in [Interviews -> Talks]
    BY <1>3, <1>5 DEF DigestCloses, RowsInv
  <2> QED BY <1>3, <2>2, <2>3, <2>4, RowsMove
<1>6. ASSUME NEW r \in Interviews, Announce(r) \/ PipelineGoes(r) \/ PipelineCompletes(r)
      PROVE  RowsInv' /\ KeepsQuestions
  <2>1. talk[r] \in Talks /\ question' = question
    BY <1>3, <1>6 DEF RowsInv, Announce, PipelineGoes, PipelineCompletes
  <2>2. \/ talk' = [talk EXCEPT ![r] = [talk[r] EXCEPT !.notified = TRUE]]
        \/ \E s \in TalkStatus : talk' = [talk EXCEPT ![r] = [talk[r] EXCEPT !.status = s]]
    BY <1>3, <1>6 DEF Announce, PipelineGoes, PipelineCompletes, RowsInv, TalkStatus, UnderWay, Settled
  <2>3. PICK t \in Talks : t.version = talk[r].version /\ talk' = [talk EXCEPT ![r] = t]
    <3> DEFINE told == [talk[r] EXCEPT !.notified = TRUE]
               at(s) == [talk[r] EXCEPT !.status = s]
    <3>1. told \in Talks /\ told.version = talk[r].version
      BY <2>1 DEF Talks
    <3>2. \A s \in TalkStatus : at(s) \in Talks /\ at(s).version = talk[r].version
      BY <2>1 DEF Talks
    <3>3. \/ talk' = [talk EXCEPT ![r] = told]
          \/ \E s \in TalkStatus : talk' = [talk EXCEPT ![r] = at(s)]
      BY <2>2
    <3> HIDE DEF told, at
    <3> QED BY <3>1, <3>2, <3>3
  <2>4. /\ talk' \in [Interviews -> Talks]
        /\ \A x \in Interviews : talk'[x].version = talk[x].version
    BY <1>3, <2>3 DEF RowsInv
  <2>5. question' \in [QuestionIds -> Questions \cup {None}]
    BY <1>3, <2>1 DEF RowsInv
  <2> QED BY <1>3, <2>1, <2>4, <2>5, RowsMove
<1>7. ASSUME NEW r \in Interviews, RouteInterview(r)
      PROVE  RowsInv' /\ KeepsQuestions
  <2> DEFINE t == [ status |-> "storing", version |-> talk[r].version + 1,
                    notified |-> talk[r].notified /\ talk[r].status # "failed" ]
  <2>1. /\ talk[r] \in Talks /\ talk[r].version < MaxTalkVersion /\ talk[r].version \in Nat
        /\ talk' = [talk EXCEPT ![r] = t]
    BY <1>3, <1>7, Numbers DEF RowsInv, RouteInterview, Talks
  <2>2. talk[r].version + 1 \in Versions /\ talk[r].version + 1 <= MaxTalkVersion
    BY <2>1, BoundAssumption DEF Versions
  <2>3. t \in Talks /\ t.version <= MaxTalkVersion
    BY <2>1, <2>2 DEF Talks, TalkStatus, UnderWay
  <2> HIDE DEF t
  <2>4. /\ talk' \in [Interviews -> Talks]
        /\ \A x \in Interviews : talk'[x].version = talk[x].version \/ talk'[x].version <= MaxTalkVersion
    BY <1>3, <2>1, <2>3 DEF RowsInv
  <2>5. ASSUME NEW i \in QuestionIds
        PROVE  /\ question'[i] \in Questions \cup {None}
               /\ question'[i] = None <=> question[i] = None
               /\ question[i] # None => question'[i].version = question[i].version
    <3> DEFINE row == [question[i] EXCEPT !.status = "completed"]
    <3>1. question'[i] = IF i \in Pending /\ question[i].talk = r THEN row ELSE question[i]
      BY <1>7 DEF RouteInterview
    <3>2. question[i] \in Questions \cup {None} /\ (i \in Pending => question[i] # None)
      BY <1>3 DEF RowsInv, Pending
    <3>3. i \in Pending => row \in Questions /\ row.version = question[i].version
      BY <3>2 DEF Questions
    <3> HIDE DEF row
    <3> QED BY <3>1, <3>2, <3>3, NoRow
  <2>6. question' \in [QuestionIds -> Questions \cup {None}]
    BY <1>7, <2>5 DEF RouteInterview
  <2> QED BY <1>3, <2>4, <2>5, <2>6, RowsMove
<1>8. ASSUME NEW r \in Interviews, SubmitSummary(r)
      PROVE  RowsInv' /\ KeepsQuestions
  <2> DEFINE v == talk[r].version + 1
             t == [talk[r] EXCEPT !.version = v]
  <2>1. /\ talk[r] \in Talks /\ talk[r].version < MaxTalkVersion /\ talk[r].version \in Nat
        /\ talk' = [talk EXCEPT ![r] = t] /\ AskBeside(r, "approval", v)
    BY <1>3, <1>8, Numbers DEF RowsInv, SubmitSummary, Talks
  <2>2. v \in Versions /\ v <= MaxTalkVersion
    BY <2>1, BoundAssumption DEF Versions
  <2> HIDE DEF v
  <2>3. t \in Talks /\ t.version = v
    BY <2>1, <2>2 DEF Talks
  <2> HIDE DEF t
  <2>4. /\ talk' \in [Interviews -> Talks]
        /\ \A x \in Interviews : talk'[x].version = talk[x].version \/ talk'[x].version <= MaxTalkVersion
    BY <1>3, <2>1, <2>2, <2>3 DEF RowsInv
  <2>5. "approval" \in DiscardOnly
    BY DEF DiscardOnly
  <2> QED BY <1>3, <2>1, <2>2, <2>4, <2>5, AsksBeside
<1>9. ASSUME NEW r \in Interviews, EscalateEmail(r)
      PROVE  RowsInv' /\ KeepsQuestions
  <2>1. /\ AskBeside(r, "email", talk[r].version) /\ talk' = talk /\ "email" \in DiscardOnly
        /\ talk[r].version \in Versions /\ talk' \in [Interviews -> Talks]
    BY <1>3, <1>9 DEF EscalateEmail, DiscardOnly, RowsInv, Talks
  <2> QED BY <1>3, <2>1, AsksBeside
<1>10. ASSUME NEW r \in Interviews, PipelineDecides(r) \/ WorkerDefers(r)
       PROVE  RowsInv' /\ KeepsQuestions
  <2> DEFINE v == talk[r].version + 1
  <2>1. talk[r] \in Talks /\ talk[r].version < MaxTalkVersion /\ talk[r].version \in Nat
    BY <1>3, <1>10, Numbers DEF RowsInv, PipelineDecides, WorkerDefers, Talks
  <2>2. v \in Versions /\ v <= MaxTalkVersion
    BY <2>1, BoundAssumption DEF Versions
  <2>3. \E s \in TalkStatus :
          talk' = [talk EXCEPT ![r] = [talk[r] EXCEPT !.version = v, !.status = s]]
    BY <1>3, <1>10, <2>1 DEF PipelineDecides, WorkerDefers, RowsInv, TalkStatus, UnderWay
  <2>4. UNCHANGED question \/ AskBeside(r, "route", v)
    BY <1>10 DEF PipelineDecides, WorkerDefers
  <2> HIDE DEF v
  <2>5. PICK t \in Talks : t.version = v /\ talk' = [talk EXCEPT ![r] = t]
    <3> DEFINE at(s) == [talk[r] EXCEPT !.version = v, !.status = s]
    <3>1. \A s \in TalkStatus : at(s) \in Talks /\ at(s).version = v
      BY <2>1, <2>2 DEF Talks
    <3>2. \E s \in TalkStatus : talk' = [talk EXCEPT ![r] = at(s)]
      BY <2>3
    <3> HIDE DEF at
    <3> QED BY <3>1, <3>2
  <2>6. /\ talk' \in [Interviews -> Talks]
        /\ \A x \in Interviews : talk'[x].version = talk[x].version \/ talk'[x].version <= MaxTalkVersion
    BY <1>3, <2>2, <2>5 DEF RowsInv
  <2>7. CASE UNCHANGED question
    <3>1. question' \in [QuestionIds -> Questions \cup {None}]
      BY <1>3, <2>7 DEF RowsInv
    <3> QED BY <1>3, <2>6, <2>7, <3>1, RowsMove
  <2>8. CASE AskBeside(r, "route", v)
    BY <1>3, <2>2, <2>6, <2>8, AsksBeside
  <2> QED BY <2>4, <2>7, <2>8
<1> QED BY <1>5, <1>6, <1>7, <1>8, <1>9, <1>10 DEF Elsewhere
-----------------------------------------------------------------------------
(* Every behaviour of the answers.                                         *)

LEMMA ReviewStarts == ReviewInit => ReviewInv
<1> SUFFICES ASSUME ReviewInit PROVE ReviewInv
  OBVIOUS
<1>1. NewTalk \in Talks /\ NewTalk.version = 0 /\ 0 \in Versions
  BY BoundAssumption DEF NewTalk, Talks, Versions, TalkStatus, UnderWay
<1>2. Free = QuestionIds /\ question \in [QuestionIds -> Questions \cup {None}]
  BY DEF ReviewInit, Free
<1>3. /\ talk \in [Interviews -> Talks] /\ \A r \in Interviews : talk[r].version = 0
  BY <1>1 DEF ReviewInit
<1>4. \A j \in QuestionIds : 0 < MaxTalkVersion + j
  BY Numbers
<1>5. RowsInv
  BY <1>2, <1>3, <1>4 DEF RowsInv
<1>6. \A p \in Procs : PlanOK(p)
  BY DEF ReviewInit, PlanOK, AsksOK, NoPlan
<1>7. /\ step \in [Procs -> Steps] /\ \A p \in Answers : step[p] # "loaded"
      /\ asked \in [Answers -> Asks \cup {None}] /\ copy \in [Answers -> Copies \cup {None}]
      /\ plan = [p \in Procs |-> plan[p]] /\ replays \subseteq Asks
  BY DEF ReviewInit, Steps, Procs
<1>8. RequestsInv
  BY <1>6, <1>7 DEF RequestsInv
<1> QED BY <1>5, <1>8 DEF ReviewInv

LEMMA ReviewSteps == ReviewInv /\ [ReviewNext]_reviewVars => ReviewInv'
<1> SUFFICES ASSUME ReviewInv, [ReviewNext]_reviewVars PROVE ReviewInv'
  OBVIOUS
<1>1. CASE \E p \in Answers : AnswerStep(p)
  BY <1>1, LoadsQuestion, AnswersRejected, AnswersAccepted, RequestsStop DEF AnswerStep
<1>2. CASE \E p \in Answers : ReconcileStep(p)
  BY <1>2, LooksAtProcessing, Reconciles DEF ReconcileStep, Procs
<1>3. CASE ScanStep \/ ScanStops
  BY <1>3, Scans, LooksAtProcessing, Reconciles DEF ScanStep, ReconcileStep, Procs
<1>4. CASE DigestCloses \/ \E r \in Interviews : Elsewhere(r)
  BY <1>4, ElsewhereMoves
<1>5. CASE UNCHANGED reviewVars
  <2>1. UNCHANGED rows /\ UNCHANGED requests /\ replays' = replays
    BY <1>5 DEF reviewVars, rows, requests
  <2>2. RowsInv' /\ KeepsQuestions
    BY <2>1, RowsUnchanged DEF ReviewInv
  <2>3. replays' \subseteq Asks
    BY <2>1 DEF ReviewInv, RequestsInv
  <2> QED BY <2>1, <2>2, <2>3, RequestsCarry DEF ReviewInv
<1> QED BY <1>1, <1>2, <1>3, <1>4, <1>5 DEF ReviewNext

(* The invariant of the questions, for any number of recordings, requests  *)
(* and keys: versions stay within the questions asked so far.              *)
THEOREM ReviewInvariant == ReviewSpec => []ReviewInv
BY ReviewStarts, ReviewSteps, PTL DEF ReviewSpec

THEOREM ReviewTypeCorrect == ReviewSpec => []ReviewTypeOK
BY ReviewInvariant, ReviewSays, PTL

(* Only the request itself goes on from what it loaded.                    *)
LEMMA OnlyItself ==
  ASSUME ReviewInv, ReviewNext, NEW p \in Answers, step[p] = "loaded", step'[p] = "answered"
  PROVE  AnswerReplayed(p) \/ AnswerRejected(p) \/ AnswerAccepted(p)
<1>1. /\ p \in Procs /\ p # Scan /\ step \in [Procs -> Steps]
  BY ScanAssumption DEF Procs, ReviewInv, RequestsInv
<1>2. \A q \in Procs : \A s \in Steps : ToStep(q, s) => q = p /\ s = "answered"
  BY <1>1 DEF ToStep
<1>3. step' # step /\ {"answered", "loaded", "idle", "reconcile", "asking", "enqueue"} \subseteq Steps
  BY DEF Steps
<1>4. CASE \E q \in Answers : AnswerStep(q)
  <2>1. PICK q \in Answers : AnswerStep(q)
    BY <1>4
  <2>2. q \in Procs
    BY DEF Procs
  <2>3. ~LoadQuestion(q) /\ ~RequestStops(q)
    BY <1>2, <1>3, <2>2 DEF LoadQuestion, RequestStops
  <2>4. q = p
    BY <1>2, <1>3, <2>1, <2>2, <2>3
       DEF AnswerStep, AnswerReplayed, AnswerRejected, AnswerAccepted, Processed
  <2> QED BY <2>1, <2>3, <2>4 DEF AnswerStep
<1>5. ASSUME NEW q \in Procs, ReconcileStep(q) PROVE FALSE
  BY <1>2, <1>3, <1>5 DEF ReconcileStep, LookAtProcessing, Reconcile
<1>6. ASSUME StartScan \/ LookAtReviews \/ EndScan \/ ScanStops PROVE FALSE
  <2>1. Scan \in Procs
    BY DEF Procs
  <2> QED BY <1>1, <1>2, <1>3, <1>6, <2>1 DEF StartScan, LookAtReviews, EndScan, ScanStops
<1>7. ASSUME DigestCloses \/ \E r \in Interviews : Elsewhere(r) PROVE FALSE
  BY <1>3, <1>7 DEF DigestCloses, Elsewhere, Announce, RouteInterview, PipelineGoes,
     PipelineDecides, PipelineCompletes, WorkerDefers, SubmitSummary, EscalateEmail, AskBeside,
     requests
<1> QED BY <1>4, <1>5, <1>6, <1>7 DEF ReviewNext, ScanStep, Procs

(* A request whose key was accepted before changes no recording and no     *)
(* question, whenever it loaded them.                                      *)
THEOREM RepeatsApplyOnce == ReviewSpec => RetriesApplyOnce
<1> DEFINE A == \A p \in Answers :
                  (step[p] = "loaded" /\ asked[p] \in replays /\ step'[p] = "answered")
                    => UNCHANGED rows
<1>1. ReviewInv /\ [ReviewNext]_reviewVars => [A]_reviewVars
  <2> SUFFICES ASSUME ReviewInv, ReviewNext, NEW p \in Answers, step[p] = "loaded",
                      asked[p] \in replays, step'[p] = "answered"
               PROVE  UNCHANGED rows
    OBVIOUS
  <2>1. AnswerReplayed(p)
    BY OnlyItself DEF AnswerRejected, AnswerAccepted, Unanswered
  <2> QED BY <2>1 DEF AnswerReplayed
<1>2. [][A]_reviewVars => RetriesApplyOnce
  BY PTL DEF RetriesApplyOnce
<1> HIDE DEF A
<1> QED BY ReviewInvariant, <1>1, <1>2, PTL DEF ReviewSpec
-----------------------------------------------------------------------------
(* Both, as the run composes them.                                         *)

(* A step of the run is one of either, or of none.                         *)
LEMMA QuestionsAreBoth ==
  [QuestionsNext]_questionVars => [ReviewNext]_reviewVars /\ [DigestNext]_digestVars
<1> SUFFICES ASSUME QuestionsNext PROVE [ReviewNext]_reviewVars /\ [DigestNext]_digestVars
  BY DEF questionVars
<1>1. CrowdNext => ReviewNext
  BY DEF CrowdNext, ReviewNext, ScanStep, Elsewhere
<1> QED BY <1>1 DEF QuestionsNext

(* Questions, requests, digests and messages keep their shape, and the     *)
(* versions of recordings their bound.                                     *)
THEOREM QuestionsTypeCorrect == QuestionsSpec => []QuestionsTypeOK
<1>1. QuestionsInit => ReviewInv /\ DigestInv
  BY ReviewStarts, DigestStarts DEF QuestionsInit
<1>2. ReviewInv /\ DigestInv /\ [QuestionsNext]_questionVars => ReviewInv' /\ DigestInv'
  BY ReviewSteps, DigestSteps, QuestionsAreBoth
<1>3. ReviewInv /\ DigestInv => QuestionsTypeOK
  BY ReviewSays, DigestSays DEF QuestionsTypeOK
<1> QED BY <1>1, <1>2, <1>3, PTL DEF QuestionsSpec
=============================================================================
