------------------------------- MODULE Outbox -------------------------------
(***************************************************************************)
(* The notification outbox of app/services/question_queue.py and the job   *)
(* of app/scheduler/cron.py that drains it every ten seconds.  A message   *)
(* has a unique dedupe key; the drain claims what is due, commits, sends   *)
(* each message to Mattermost and commits its outcome.  Mattermost knows a *)
(* message by the pending_post_id made from the key, so a message that is  *)
(* sent again finds its post.  max_instances = 1: one drain at a time.     *)
(***************************************************************************)
EXTENDS Naturals, Common

CONSTANTS
  MaxAttempts,      \* failed sends after which a message is given up (5)
  MaxOutboxFaults   \* bound on failed sends and on drains that die

ASSUME AttemptsAssumption     == MaxAttempts \in Nat \ {0}
ASSUME OutboxFaultsAssumption == MaxOutboxFaults \in Nat

VARIABLES
  outbox,        \* outbox[k]: the row of the message with dedupe key k
  posts,         \* keys of the messages Mattermost has a post of
  batch,         \* keys the running drain has claimed and not yet settled
  outboxFaults   \* faults so far

outboxVars == <<outbox, posts, batch, outboxFaults>>

Queued   == DOMAIN outbox
Messages ==
  [ status   : {"pending", "sending", "sent", "failed"},
    attempts : 0..MaxAttempts,
    held     : BOOLEAN ]      \* next_attempt_at or claim_expires_at is in the future

NewMessage == [ status |-> "pending", attempts |-> 0, held |-> FALSE ]

OutboxTypeOK ==
  /\ \A k \in Queued : outbox[k] \in Messages
  /\ batch \subseteq {k \in Queued : outbox[k].status = "sending"}
  /\ posts \subseteq Queued
  /\ outboxFaults \in 0..MaxOutboxFaults

OutboxInit ==
  /\ outbox = [k \in {} |-> NewMessage]
  /\ posts = {}
  /\ batch = {}
  /\ outboxFaults = 0

(* queue_notification: a key that is already there is left as it is.       *)
Queue(box, keys) ==
  [k \in DOMAIN box \cup keys |-> IF k \in DOMAIN box THEN box[k] ELSE NewMessage]

OutboxFault == outboxFaults < MaxOutboxFaults /\ outboxFaults' = outboxFaults + 1
-----------------------------------------------------------------------------
(* Mutant of Due: a message a dead drain left behind is not taken up again. *)
DueIfPending == {k \in Queued : ~outbox[k].held /\ outbox[k].status = "pending"}

Due == {k \in Queued : ~outbox[k].held /\ outbox[k].status \in {"pending", "sending"}}

(* claim_outbox and its commit.  (Its limit of 20 is never reached here.)  *)
ClaimOutbox ==
  /\ batch = {} /\ Due # {}
  /\ batch' = Due
  /\ outbox' = [k \in Queued |->
       IF k \in Due THEN [outbox[k] EXCEPT !.status = "sending", !.held = TRUE] ELSE outbox[k]]
  /\ UNCHANGED <<posts, outboxFaults>>

(* deliver_claimed: the DM is sent, or its earlier post found; committed.  *)
Deliver(k) ==
  /\ k \in batch
  /\ posts' = posts \cup {k}
  /\ batch' = batch \ {k}
  /\ outbox' = [outbox EXCEPT ![k].status = "sent", ![k].attempts = @ + 1, ![k].held = FALSE]
  /\ UNCHANGED outboxFaults

(* A MattermostError, with the post made or not: backoff, or given up.     *)
DeliveryFails(k) ==
  /\ k \in batch
  /\ OutboxFault
  /\ posts' \in {posts, posts \cup {k}}
  /\ batch' = batch \ {k}
  /\ LET n == outbox[k].attempts + 1 IN
     outbox' = [outbox EXCEPT ![k] =
       [ status |-> IF n >= MaxAttempts THEN "failed" ELSE "pending",
         attempts |-> n, held |-> TRUE ]]

(* The drain dies, perhaps between the post and the commit of its outcome. *)
DrainStops ==
  /\ batch # {}
  /\ OutboxFault
  /\ \E k \in batch : posts' \in {posts, posts \cup {k}}
  /\ batch' = {}
  /\ UNCHANGED outbox

(* The backoff of a failed send, or the claim of a dead drain, runs out.   *)
HoldEnds(k) ==
  /\ k \in Queued \ batch
  /\ outbox[k].held /\ outbox[k].status \in {"pending", "sending"}
  /\ outbox' = [outbox EXCEPT ![k].held = FALSE]
  /\ UNCHANGED <<posts, batch, outboxFaults>>
=============================================================================
