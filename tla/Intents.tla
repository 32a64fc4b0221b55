------------------------------ MODULE Intents ------------------------------
(***************************************************************************)
(* Idempotency keys: app/services/intents.py, and the requests of          *)
(* app/routers/tools.py that claim a key before they act.  One recording,  *)
(* and three operations: submit_summary writes to Notion and then commits  *)
(* its rows together with the completion of the key; route_interview       *)
(* commits its rows first; trigger_scan has no rows of its own, and gives  *)
(* the key back when it cannot start.  A claim that ran out is taken over  *)
(* by a retry, while the first request may still be running.               *)
(***************************************************************************)
EXTENDS Naturals, Common

CONSTANTS
  SummaryKeys, RouteKeys, ScanKeys,   \* idempotency keys of each operation
  Senders,         \* concurrent requests
  MaxFileChanges   \* bound on the version of the recording

ASSUME FileChangesAssumption == MaxFileChanges \in Nat

VARIABLES
  intent,     \* intent[k]: the IntentReplay row of key k, or None
  sent,       \* sent[s]: the request s carries and how far it is, or None
  revision,   \* version of the recording
  effects     \* effects[k]: commits of the rows that key k asked for

intentVars == <<intent, sent, revision, effects>>

IntentKeys == SummaryKeys \cup RouteKeys \cup ScanKeys
Revisions  == 0..MaxFileChanges
Bodies     == Revisions \ {MaxFileChanges}    \* of a request, its expected_version

IntentRows ==
  [ body  : Bodies,                       \* request_fingerprint
    state : {"pending", "completed"},
    owner : Senders \cup {None},          \* claim_owner
    live  : BOOLEAN ]                     \* claim_expires_at is in the future

(* A row's key is unique with its operation.                               *)
ASSUME IntentsAssumption ==
  /\ SummaryKeys \cap RouteKeys = {}
  /\ (SummaryKeys \cup RouteKeys) \cap ScanKeys = {}
  /\ None \notin IntentRows

SentRequests ==
  [ key : IntentKeys, body : Bodies, next : {"check", "write", "complete"} ]

IntentTypeOK ==
  /\ intent \in [IntentKeys -> IntentRows \cup {None}]
  /\ sent \in [Senders -> SentRequests \cup {None}]
  /\ revision \in Revisions
  /\ effects \in [IntentKeys -> Nat]

IntentInit ==
  /\ intent = [k \in IntentKeys |-> None]
  /\ sent = [s \in Senders |-> None]
  /\ revision = 0
  /\ effects = [k \in IntentKeys |-> 0]
-----------------------------------------------------------------------------
(* A new key, or the same request again after its claim ran out; the rest  *)
(* is rejected, or answered with the recorded response.                    *)
Claimable(k, body) ==
  \/ intent[k] = None
  \/ intent[k] # None /\ intent[k].body = body /\ intent[k].state = "pending" /\ ~intent[k].live

(* claim_intent, committed (claim_owner is new for each claim, and a       *)
(* sender claims for its own request only).                                *)
ClaimIntent(s) ==
  /\ sent[s] = None
  /\ \E k \in IntentKeys, body \in Bodies :
       /\ Claimable(k, body)
       /\ intent' = [intent EXCEPT ![k] =
            [body |-> body, state |-> "pending", owner |-> s, live |-> TRUE]]
       /\ sent' = [sent EXCEPT ![s] = [key |-> k, body |-> body, next |-> "check"]]
  /\ UNCHANGED <<revision, effects>>

(* The claim of a request that died keeps its owner until it runs out.     *)
ClaimExpires(k) ==
  /\ intent[k] # None /\ intent[k].state = "pending" /\ intent[k].live
  /\ intent' = [intent EXCEPT ![k].live = FALSE]
  /\ UNCHANGED <<sent, revision, effects>>

Doing(s, keys, next) == sent[s] # None /\ sent[s].key \in keys /\ sent[s].next = next

Ends(s) == sent' = [sent EXCEPT ![s] = None]
-----------------------------------------------------------------------------
(* submit_summary: the version is read without a lock, the summary goes to *)
(* Notion, and the commit is complete_intent's.                            *)
SummaryChecks(s) ==
  /\ Doing(s, SummaryKeys, "check")
  /\ sent' = IF revision = sent[s].body
               THEN [sent EXCEPT ![s].next = "write"] ELSE [sent EXCEPT ![s] = None]
  /\ UNCHANGED <<intent, revision, effects>>

SummaryToNotion(s) ==
  /\ Doing(s, SummaryKeys, "write")
  /\ sent' = [sent EXCEPT ![s].next = "complete"]
  /\ UNCHANGED <<intent, revision, effects>>

(* Mutant of Owns: whoever has the claim by now.                           *)
OwnsAnyway(s) == intent[sent[s].key] # None

(* complete_intent updates the row only for the owner of the claim.        *)
Owns(s) ==
  LET row == intent[sent[s].key] IN row # None /\ row.state = "pending" /\ row.owner = s

Completed(k) ==
  intent' = [intent EXCEPT ![k] = [@ EXCEPT !.state = "completed", !.owner = None, !.live = FALSE]]

(* The rows and the completion in one commit, or a rollback of both.       *)
SummaryCompletes(s) ==
  /\ Doing(s, SummaryKeys, "complete")
  /\ IF Owns(s)
       THEN /\ Completed(sent[s].key)
            /\ revision' = sent[s].body + 1
            /\ effects' = [effects EXCEPT ![sent[s].key] = @ + 1]
       ELSE UNCHANGED <<intent, revision, effects>>
  /\ Ends(s)
-----------------------------------------------------------------------------
(* The request ends; its claim stays pending until it runs out.            *)
Rejected(s) == Ends(s)

(* route_interview: checks and commits under the row lock, whoever owns    *)
(* the claim by now.                                                       *)
RouteCommits(s) ==
  /\ Doing(s, RouteKeys, "check")
  /\ \/ /\ revision = sent[s].body
        /\ revision' = revision + 1
        /\ effects' = [effects EXCEPT ![sent[s].key] = @ + 1]
        /\ sent' = [sent EXCEPT ![s].next = "complete"]
     \/ Rejected(s) /\ UNCHANGED <<revision, effects>>    \* stale, or not to be routed
  /\ UNCHANGED intent

(* After the transfer; without the processing lease it is a conflict, and  *)
(* the key stays pending.                                                  *)
RouteCompletes(s) ==
  /\ Doing(s, RouteKeys, "complete")
  /\ \/ Owns(s) /\ Completed(sent[s].key)
     \/ UNCHANGED intent
  /\ Ends(s)
  /\ UNCHANGED <<revision, effects>>

(* trigger_scan, with _release_scan_intent after a binding conflict.       *)
ScanCompletes(s) ==
  /\ Doing(s, ScanKeys, "check")
  /\ \/ Owns(s) /\ Completed(sent[s].key)
     \/ Owns(s) /\ intent' = [intent EXCEPT ![sent[s].key] = None]
     \/ UNCHANGED intent
  /\ Ends(s)
  /\ UNCHANGED <<revision, effects>>
-----------------------------------------------------------------------------
(* Some other request changes the recording.                               *)
RevisionMoves ==
  /\ revision < MaxFileChanges
  /\ revision' = revision + 1
  /\ UNCHANGED <<intent, sent, effects>>

SenderStops(s) ==
  /\ sent[s] # None
  /\ Ends(s)
  /\ UNCHANGED <<intent, revision, effects>>

IntentNext ==
  \/ \E s \in Senders :
       \/ ClaimIntent(s) \/ SummaryChecks(s) \/ SummaryToNotion(s) \/ SummaryCompletes(s)
       \/ RouteCommits(s) \/ RouteCompletes(s) \/ ScanCompletes(s) \/ SenderStops(s)
  \/ \E k \in IntentKeys : ClaimExpires(k)
  \/ RevisionMoves

IntentSpec == IntentInit /\ [][IntentNext]_intentVars
-----------------------------------------------------------------------------
(* Properties.                                                             *)

(* A recorded response and the commits of its key agree.  A summary is     *)
(* committed once, exactly when its key is completed: a retry that took    *)
(* the claim over may write to Notion beside the first request, but        *)
(* complete_intent lets only one of the two commit.  A route is answered   *)
(* only after it was committed.                                            *)
ResponseMatchesCommits ==
  \A k \in SummaryKeys \cup RouteKeys :
    LET done == intent[k] # None /\ intent[k].state = "completed" IN
    /\ done => effects[k] >= 1
    /\ k \in SummaryKeys => effects[k] = (IF done THEN 1 ELSE 0)
=============================================================================
