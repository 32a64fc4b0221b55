--------------------------- MODULE ServiceProofs ----------------------------
(***************************************************************************)
(* Proofs about the services beside the pipeline, one section each, for any*)
(* number of requests, keys, recordings and workers: types, and that       *)
(*   - no access token is refreshed that was still good (Tokens),          *)
(*   - recorded responses agree with what was committed (Intents),         *)
(*   - a recording has at most one open job, and a decided job stays as it *)
(*     was decided (RoutingJobs),                                          *)
(*   - an active recruiter has one default calendar (Calendars),           *)
(*   - a match that asks nobody leaves no choice (Matching),               *)
(*   - no database is cached or discovered twice at a time (NotionSources).*)
(***************************************************************************)
EXTENDS MCServices, CleanupProofs, FiniteSetTheorems, WellFoundedInduction, TLAPS

(* Tokens.                                                                 *)

(* What the row says of the token it holds.                                *)
RowInv ==
  /\ token.access \in (1..granted) \cup {None}
  /\ token.fresh => token.access # None
  /\ ~token.fresh /\ token.access # None => token.access \in spoiled

(* A request asks for another token only for one that was refused, and     *)
(* holds the lock over the grant only when the stored token is no good.    *)
CallersInv ==
  \A c \in Callers :
    /\ caller[c].stale \in refused \cup {None}
    /\ HoldsLock(c) => token.access \in spoiled \cup {None}

OneHolder == \A c, d \in Callers : HoldsLock(c) /\ HoldsLock(d) => c = d

(* A granted token that nothing happened to is the stored and the last one. *)
GoodIsStored ==
  \A t \in 1..granted : t \notin spoiled => t = token.access /\ t = granted

TokenInv ==
  /\ TokenTypeOK /\ refused \subseteq spoiled
  /\ RowInv /\ CallersInv /\ OneHolder /\ GoodIsStored

(* What every state of a request is made of.                               *)
LEMMA CallerTyped ==
  ASSUME TokenTypeOK, NEW c \in Callers
  PROVE  /\ caller[c] \in CallerRows
         /\ caller[c].next \in {"idle", "send", "refresh", "grant", "resend", "ok", "error"}
         /\ caller[c].token \in AccessTokens \cup {None}
         /\ caller[c].stale \in AccessTokens \cup {None}
  BY DEF TokenTypeOK, CallerRows

(* A request that moves to a state with a refused or no stale token, and   *)
(* holds the lock only alone and over a token that is no good, keeps the   *)
(* invariant when nothing else changes.                                    *)
LEMMA CallerMoves ==
  ASSUME TokenInv, NEW c \in Callers, NEW row \in CallerRows,
         caller' = [caller EXCEPT ![c] = row],
         UNCHANGED <<token, granted, refused, spoiled>>,
         row.stale \in refused \cup {None},
         row.next = "grant" =>
           /\ token.access \in spoiled \cup {None}
           /\ \A d \in Callers : ~HoldsLock(d)
  PROVE  TokenInv'
<1>1. TokenTypeOK' /\ (refused \subseteq spoiled)'
  BY DEF TokenInv, TokenTypeOK
<1>2. RowInv' /\ GoodIsStored'
  BY DEF TokenInv, RowInv, GoodIsStored
<1>3. \A d \in Callers : caller'[d] = IF d = c THEN row ELSE caller[d]
  BY DEF TokenInv, TokenTypeOK
<1>4. CallersInv'
  BY <1>3 DEF TokenInv, CallersInv, HoldsLock
<1>5. OneHolder'
  BY <1>3 DEF TokenInv, OneHolder, HoldsLock
<1> QED
  BY <1>1, <1>2, <1>4, <1>5 DEF TokenInv

LEMMA TokenInitially == TokenInit => TokenInv
<1> SUFFICES ASSUME TokenInit PROVE TokenInv
  OBVIOUS
<1>1. TokenTypeOK
  BY TokensAssumption DEF TokenInit, TokenTypeOK, CallerRows, AccessTokens
<1>2. RowInv /\ GoodIsStored /\ refused \subseteq spoiled
  BY DEF TokenInit, RowInv, GoodIsStored
<1>3. CallersInv /\ OneHolder
  BY DEF TokenInit, CallersInv, OneHolder, HoldsLock
<1> QED
  BY <1>1, <1>2, <1>3 DEF TokenInv

LEMMA TokenStep == TokenInv /\ [TokenNext]_tokenVars => TokenInv'
<1> SUFFICES ASSUME TokenInv, [TokenNext]_tokenVars PROVE TokenInv'
  OBVIOUS
<1>0. TokenTypeOK
  BY DEF TokenInv
<1>1. ASSUME NEW c \in Callers, StartCall(c) PROVE TokenInv'
  <2> DEFINE row == IF token.fresh THEN [next |-> "send", token |-> token.access, stale |-> None]
                    ELSE [next |-> "refresh", token |-> None, stale |-> None]
  <2>1. row \in CallerRows /\ row.stale = None /\ row.next # "grant"
    BY <1>0 DEF TokenTypeOK, CallerRows
  <2>2. caller' = [caller EXCEPT ![c] = row] /\ UNCHANGED <<token, granted, refused, spoiled>>
    BY <1>1 DEF StartCall
  <2> HIDE DEF row
  <2> QED
    BY <2>1, <2>2, CallerMoves
<1>2. ASSUME NEW c \in Callers, SendCall(c) PROVE TokenInv'
  <2> DEFINE row == IF caller[c].token \in refused
                      THEN [next |-> "refresh", token |-> None, stale |-> caller[c].token]
                      ELSE [caller[c] EXCEPT !.next = "ok"]
  <2>1. row \in CallerRows /\ row.stale \in refused \cup {None} /\ row.next # "grant"
    BY <1>0, CallerTyped DEF TokenInv, CallersInv, TokenTypeOK, CallerRows
  <2>2. caller' = [caller EXCEPT ![c] = row] /\ UNCHANGED <<token, granted, refused, spoiled>>
    BY <1>2 DEF SendCall
  <2> HIDE DEF row
  <2> QED
    BY <2>1, <2>2, CallerMoves
<1>3. ASSUME NEW c \in Callers, ResendCall(c) PROVE TokenInv'
  <2> DEFINE row == [caller[c] EXCEPT !.next = IF caller[c].token \in refused THEN "error" ELSE "ok"]
  <2>1. row \in CallerRows /\ row.stale \in refused \cup {None} /\ row.next # "grant"
    BY <1>0, CallerTyped DEF TokenInv, CallersInv, CallerRows
  <2>2. caller' = [caller EXCEPT ![c] = row] /\ UNCHANGED <<token, granted, refused, spoiled>>
    BY <1>3 DEF ResendCall, CallerDoes
  <2> HIDE DEF row
  <2> QED
    BY <2>1, <2>2, CallerMoves
<1>4. ASSUME NEW c \in Callers, LockToken(c) PROVE TokenInv'
  <2>1. CASE StillGood(c)
    <3> DEFINE row == [caller[c] EXCEPT !.token = token.access,
                         !.next = IF caller[c].stale = None THEN "send" ELSE "resend"]
    <3>1. row \in CallerRows /\ row.stale \in refused \cup {None} /\ row.next # "grant"
      BY <1>0, CallerTyped DEF TokenInv, CallersInv, TokenTypeOK, CallerRows
    <3>2. caller' = [caller EXCEPT ![c] = row] /\ UNCHANGED <<token, granted, refused, spoiled>>
      BY <1>4, <2>1 DEF LockToken, WithToken
    <3> HIDE DEF row
    <3> QED
      BY <3>1, <3>2, CallerMoves
  <2>2. CASE ~StillGood(c)
    <3> DEFINE row == [caller[c] EXCEPT !.next = "grant"]
    <3>1. row \in CallerRows /\ row.stale \in refused \cup {None}
      BY <1>0, CallerTyped DEF TokenInv, CallersInv, CallerRows
    <3>2. token.access \in spoiled \cup {None}
      BY <2>2 DEF StillGood, TokenInv, RowInv, CallersInv
    <3>3. caller' = [caller EXCEPT ![c] = row] /\ UNCHANGED <<token, granted, refused, spoiled>>
      BY <1>4, <2>2 DEF LockToken, CallerDoes
    <3>4. \A d \in Callers : ~HoldsLock(d)
      BY <1>4 DEF LockToken
    <3> HIDE DEF row
    <3> QED
      BY <3>1, <3>2, <3>3, <3>4, CallerMoves
  <2> QED
    BY <2>1, <2>2
<1>5. ASSUME NEW c \in Callers, GrantToken(c) PROVE TokenInv'
  <2> DEFINE row == [caller[c] EXCEPT !.token = granted + 1,
                       !.next = IF caller[c].stale = None THEN "send" ELSE "resend"]
  <2>1. granted \in Nat /\ granted < MaxTokens /\ granted' = granted + 1
    BY <1>0, <1>5 DEF GrantToken, TokenTypeOK
  <2>2. granted + 1 \in AccessTokens
    BY <2>1, TokensAssumption DEF AccessTokens
  <2>3. row \in CallerRows /\ row.stale = caller[c].stale /\ row.next # "grant"
    BY <1>0, <2>2, CallerTyped DEF CallerRows
  <2>4. caller' = [caller EXCEPT ![c] = row] /\ UNCHANGED <<refused, spoiled>>
    BY <1>5 DEF GrantToken, WithToken
  <2> HIDE DEF row
  <2>5. token' = [access |-> granted + 1, fresh |-> TRUE]
    BY <1>5 DEF GrantToken
  <2>6. \A d \in Callers : caller'[d] = IF d = c THEN row ELSE caller[d]
    BY <1>0, <2>4 DEF TokenTypeOK
  <2>7. TokenTypeOK' /\ (refused \subseteq spoiled)'
    <3>1. caller' \in [Callers -> CallerRows]
      BY <1>0, <2>3, <2>4 DEF TokenTypeOK
    <3>2. token' \in [access : AccessTokens \cup {None}, fresh : BOOLEAN]
      BY <2>2, <2>5
    <3>3. granted' \in 0..MaxTokens
      BY <2>1, TokensAssumption
    <3> QED
      BY <1>0, <2>4, <3>1, <3>2, <3>3 DEF TokenInv, TokenTypeOK
  <2>8. RowInv'
    BY <2>1, <2>2, <2>5, NoneIsNoToken DEF RowInv
  <2>9. \A d \in Callers : HoldsLock(d) => d = c
    BY <1>5 DEF GrantToken, TokenInv, OneHolder
  <2>10. CallersInv' /\ OneHolder'
    BY <2>3, <2>4, <2>6, <2>9 DEF TokenInv, CallersInv, OneHolder, HoldsLock
  <2>11. \A t \in 1..granted : t \in spoiled
    <3>1. token.access \in spoiled \cup {None}
      BY <1>5 DEF GrantToken, TokenInv, CallersInv
    <3>2. 1..granted \subseteq AccessTokens
      BY <2>1, TokensAssumption DEF AccessTokens
    <3> QED
      BY <3>1, <3>2, NoneIsNoToken DEF TokenInv, GoodIsStored
  <2>12. GoodIsStored'
    BY <2>1, <2>4, <2>5, <2>11 DEF GoodIsStored
  <2> QED
    BY <2>7, <2>8, <2>10, <2>12 DEF TokenInv
<1>6. ASSUME NEW c \in Callers, GrantFails(c) PROVE TokenInv'
  <2> DEFINE row == [caller[c] EXCEPT !.next = "error"]
  <2>1. row \in CallerRows /\ row.stale \in refused \cup {None} /\ row.next # "grant"
    BY <1>0, CallerTyped DEF TokenInv, CallersInv, CallerRows
  <2>2. caller' = [caller EXCEPT ![c] = row] /\ UNCHANGED <<token, refused>>
    BY <1>6 DEF GrantFails, CallerDoes
  <2> HIDE DEF row
  <2>3. CASE UNCHANGED <<granted, spoiled>>
    BY <2>1, <2>2, <2>3, CallerMoves
  <2>4. CASE granted < MaxTokens /\ granted' = granted + 1 /\ spoiled' = spoiled \cup {granted + 1}
    <3>1. granted \in Nat /\ granted + 1 \in AccessTokens /\ granted' \in 0..MaxTokens
      BY <1>0, <2>4, TokensAssumption DEF TokenTypeOK, AccessTokens
    <3>2. TokenTypeOK' /\ (refused \subseteq spoiled)'
      BY <1>0, <2>1, <2>2, <2>4, <3>1 DEF TokenInv, TokenTypeOK
    <3>3. \A d \in Callers : caller'[d] = IF d = c THEN row ELSE caller[d]
      BY <1>0, <2>2 DEF TokenTypeOK
    <3>4. CallersInv' /\ OneHolder'
      BY <2>1, <2>2, <2>4, <3>3 DEF TokenInv, CallersInv, OneHolder, HoldsLock
    <3>5. RowInv'
      BY <2>2, <2>4, <3>1 DEF TokenInv, RowInv
    <3>6. \A t \in 1..granted : t \in spoiled
      <4>1. token.access \in spoiled \cup {None}
        BY <1>6 DEF GrantFails, TokenInv, CallersInv
      <4>2. 1..granted \subseteq AccessTokens
        BY <3>1, TokensAssumption DEF AccessTokens
      <4> QED
        BY <4>1, <4>2, NoneIsNoToken DEF TokenInv, GoodIsStored
    <3>7. GoodIsStored'
      BY <2>4, <3>1, <3>6 DEF GoodIsStored
    <3> QED
      BY <3>2, <3>4, <3>5, <3>7 DEF TokenInv
  <2> QED
    BY <1>6, <2>3, <2>4 DEF GrantFails
<1>7. ASSUME TokenAges PROVE TokenInv'
  <2>1. token' = [token EXCEPT !.fresh = FALSE] /\ spoiled' = spoiled \cup {token.access}
    BY <1>7 DEF TokenAges
  <2>2. UNCHANGED <<granted, refused, caller>> /\ token.access # None
    BY <1>7 DEF TokenAges, TokenInv, RowInv
  <2>3. token'.access = token.access /\ token.access \in AccessTokens
    BY <1>0, <2>1, <2>2 DEF TokenTypeOK
  <2>4. TokenTypeOK' /\ (refused \subseteq spoiled)'
    BY <1>0, <2>1, <2>2, <2>3 DEF TokenInv, TokenTypeOK
  <2>5. RowInv' /\ CallersInv' /\ OneHolder' /\ GoodIsStored'
    BY <2>1, <2>2, <2>3 DEF TokenInv, RowInv, CallersInv, OneHolder, GoodIsStored, HoldsLock
  <2> QED
    BY <2>4, <2>5 DEF TokenInv
<1>8. ASSUME NEW t \in AccessTokens, TokenRefused(t) PROVE TokenInv'
  <2>1. refused' = refused \cup {t} /\ spoiled' = spoiled \cup {t}
        /\ UNCHANGED <<token, granted, caller>>
    BY <1>8 DEF TokenRefused
  <2>2. TokenTypeOK' /\ (refused \subseteq spoiled)'
    BY <1>0, <2>1 DEF TokenInv, TokenTypeOK
  <2>3. RowInv' /\ CallersInv' /\ OneHolder' /\ GoodIsStored'
    BY <2>1 DEF TokenInv, RowInv, CallersInv, OneHolder, GoodIsStored, HoldsLock
  <2> QED
    BY <2>2, <2>3 DEF TokenInv
<1>9. ASSUME UNCHANGED tokenVars PROVE TokenInv'
  BY <1>9 DEF tokenVars, TokenInv, TokenTypeOK, RowInv, CallersInv, OneHolder, GoodIsStored, HoldsLock
<1> QED
  BY <1>1, <1>2, <1>3, <1>4, <1>5, <1>6, <1>7, <1>8, <1>9 DEF TokenNext

(* The row of the token, the tokens granted and refused and what each      *)
(* request holds are always of their types.                                *)
THEOREM TokensTypeCorrect == TokenSpec => []TokenTypeOK
<1>1. TokenInv => TokenTypeOK
  BY DEF TokenInv
<1> QED
  BY <1>1, TokenInitially, TokenStep, PTL DEF TokenSpec

(* No access token but the last was still good when the next was granted,  *)
(* however many requests meet a token that ran out or a 401 together.      *)
THEOREM NoGrantIsNeedless == TokenSpec => []NoNeedlessGrant
<1>1. TokenInv => NoNeedlessGrant
  BY DEF TokenInv, TokenTypeOK, GoodIsStored, NoNeedlessGrant
<1> QED
  BY <1>1, TokenInitially, TokenStep, PTL DEF TokenSpec
-----------------------------------------------------------------------------
(* Intents.                                                                *)

Done(k) == intent[k] # None /\ intent[k].state = "completed"

SummaryInv == \A k \in SummaryKeys : effects[k] = (IF Done(k) THEN 1 ELSE 0)

RouteInv == \A k \in RouteKeys : Done(k) => effects[k] >= 1

(* A request that is about to answer for a route has committed it.         *)
RoutedInv ==
  \A s \in Senders :
    Doing(s, RouteKeys, "complete") => effects[sent[s].key] >= 1

IntentInv == IntentTypeOK /\ SummaryInv /\ RouteInv /\ RoutedInv

(* What each request is made of.                                           *)
LEMMA SentTyped ==
  ASSUME IntentTypeOK, NEW s \in Senders, sent[s] # None
  PROVE  /\ sent[s] \in SentRequests /\ sent[s].key \in IntentKeys
         /\ sent[s].body \in Bodies
         /\ sent[s].next \in {"check", "write", "complete"}
  BY DEF IntentTypeOK, SentRequests

(* A step of one request that ends it or moves it on, but not to the       *)
(* answer for a route, and changes no key.                                 *)
LEMMA RequestMoves ==
  ASSUME IntentInv, NEW s \in Senders, NEW row \in SentRequests \cup {None},
         sent' = [sent EXCEPT ![s] = row],
         row # None /\ row.key \in RouteKeys => row.next # "complete"
  PROVE  /\ sent' \in [Senders -> SentRequests \cup {None}]
         /\ \A t \in Senders : Doing(t, RouteKeys, "complete")'
              => Doing(t, RouteKeys, "complete") /\ sent'[t] = sent[t]
<1>1. \A t \in Senders : sent'[t] = IF t = s THEN row ELSE sent[t]
  BY DEF IntentInv, IntentTypeOK
<1> QED
  BY <1>1 DEF IntentInv, IntentTypeOK, Doing

(* A key is completed by the request that owns its claim.                  *)
LEMMA Completes ==
  ASSUME IntentInv, NEW s \in Senders, sent[s] # None, Owns(s), Completed(sent[s].key)
  PROVE  /\ intent' \in [IntentKeys -> IntentRows \cup {None}]
         /\ ~Done(sent[s].key)
         /\ \A k \in IntentKeys : Done(k)' <=> (k = sent[s].key \/ Done(k))
<1> DEFINE k == sent[s].key
           row == [intent[k] EXCEPT !.state = "completed", !.owner = None, !.live = FALSE]
<1>1. k \in IntentKeys /\ intent[k] \in IntentRows /\ intent[k].state = "pending"
  BY SentTyped DEF IntentInv, IntentTypeOK, Owns
<1>2. row \in IntentRows /\ row.state = "completed" /\ row # None
  BY <1>1, IntentsAssumption DEF IntentRows
<1>3. intent' = [intent EXCEPT ![k] = row]
  BY DEF Completed
<1> HIDE DEF row
<1>4. \A j \in IntentKeys : intent'[j] = IF j = k THEN row ELSE intent[j]
  BY <1>1, <1>3 DEF IntentInv, IntentTypeOK
<1>5. intent' \in [IntentKeys -> IntentRows \cup {None}]
  BY <1>1, <1>2, <1>3 DEF IntentInv, IntentTypeOK
<1> QED
  BY <1>1, <1>2, <1>4, <1>5 DEF Done

LEMMA IntentInitially == IntentInit => IntentInv
<1> SUFFICES ASSUME IntentInit PROVE IntentInv
  OBVIOUS
<1>1. IntentTypeOK
  BY FileChangesAssumption DEF IntentInit, IntentTypeOK, Revisions
<1>2. SummaryInv /\ RouteInv
  BY DEF IntentInit, SummaryInv, RouteInv, Done, IntentKeys
<1>3. RoutedInv
  BY DEF IntentInit, RoutedInv, Doing
<1> QED
  BY <1>1, <1>2, <1>3 DEF IntentInv

LEMMA IntentStep == IntentInv /\ [IntentNext]_intentVars => IntentInv'
<1> SUFFICES ASSUME IntentInv, [IntentNext]_intentVars PROVE IntentInv'
  OBVIOUS
<1>0. IntentTypeOK /\ SummaryInv /\ RouteInv /\ RoutedInv
  BY DEF IntentInv
(* Nothing but the requests changes.                                       *)
<1>a. ASSUME NEW s \in Senders, NEW row \in SentRequests \cup {None},
             sent' = [sent EXCEPT ![s] = row],
             row # None /\ row.key \in RouteKeys => row.next # "complete",
             UNCHANGED <<intent, revision, effects>>
      PROVE  IntentInv'
  <2>1. IntentTypeOK'
    BY <1>0, <1>a, RequestMoves DEF IntentTypeOK
  <2>2. SummaryInv' /\ RouteInv'
    BY <1>0, <1>a DEF SummaryInv, RouteInv, Done
  <2>3. RoutedInv'
    BY <1>0, <1>a, RequestMoves DEF RoutedInv
  <2> QED
    BY <2>1, <2>2, <2>3 DEF IntentInv
<1>1. ASSUME NEW s \in Senders, ClaimIntent(s) PROVE IntentInv'
  <2> PICK k \in IntentKeys, body \in Bodies :
        /\ Claimable(k, body)
        /\ intent' = [intent EXCEPT ![k] =
             [body |-> body, state |-> "pending", owner |-> s, live |-> TRUE]]
        /\ sent' = [sent EXCEPT ![s] = [key |-> k, body |-> body, next |-> "check"]]
    BY <1>1 DEF ClaimIntent
  <2> DEFINE row == [key |-> k, body |-> body, next |-> "check"]
             claim == [body |-> body, state |-> "pending", owner |-> s, live |-> TRUE]
  <2>1. row \in SentRequests /\ row.next = "check" /\ sent' = [sent EXCEPT ![s] = row]
    BY DEF SentRequests
  <2>2. claim \in IntentRows /\ claim.state = "pending" /\ intent' = [intent EXCEPT ![k] = claim]
    BY DEF IntentRows
  <2> HIDE DEF row, claim
  <2>3. \A j \in IntentKeys : intent'[j] = IF j = k THEN claim ELSE intent[j]
    BY <1>0, <2>2 DEF IntentTypeOK
  <2>4. ~Done(k)
    BY DEF Claimable, Done
  <2>5. \A j \in IntentKeys : Done(j)' <=> Done(j)
    BY <2>2, <2>3, <2>4 DEF Done
  <2>6. UNCHANGED <<revision, effects>>
    BY <1>1 DEF ClaimIntent
  <2>7. IntentTypeOK'
    BY <1>0, <2>1, <2>2, <2>6 DEF IntentTypeOK
  <2>8. SummaryInv' /\ RouteInv'
    BY <1>0, <2>5, <2>6 DEF SummaryInv, RouteInv, IntentKeys
  <2>9. RoutedInv'
    BY <1>0, <2>1, <2>6, RequestMoves DEF RoutedInv
  <2> QED
    BY <2>7, <2>8, <2>9 DEF IntentInv
<1>2. ASSUME NEW s \in Senders, SummaryChecks(s) PROVE IntentInv'
  <2> DEFINE row == IF revision = sent[s].body THEN [sent[s] EXCEPT !.next = "write"] ELSE None
  <2>1. row \in SentRequests \cup {None} /\ (row # None => row.next = "write")
    BY <1>0, <1>2, SentTyped DEF SummaryChecks, Doing, SentRequests
  <2>2. sent' = [sent EXCEPT ![s] = row] /\ UNCHANGED <<intent, revision, effects>>
    BY <1>2 DEF SummaryChecks
  <2> HIDE DEF row
  <2> QED
    BY <1>a, <2>1, <2>2
<1>3. ASSUME NEW s \in Senders, SummaryToNotion(s) PROVE IntentInv'
  <2> DEFINE row == [sent[s] EXCEPT !.next = "complete"]
  <2>1. row \in SentRequests /\ row.key \notin RouteKeys
    BY <1>0, <1>3, SentTyped, IntentsAssumption DEF SummaryToNotion, Doing, SentRequests
  <2>2. sent' = [sent EXCEPT ![s] = row] /\ UNCHANGED <<intent, revision, effects>>
    BY <1>3 DEF SummaryToNotion
  <2> HIDE DEF row
  <2> QED
    BY <1>a, <2>1, <2>2
<1>4. ASSUME NEW s \in Senders, SummaryCompletes(s) PROVE IntentInv'
  <2> DEFINE k == sent[s].key
  <2>0. sent[s] # None /\ k \in SummaryKeys /\ k \in IntentKeys /\ k \notin RouteKeys
        /\ sent' = [sent EXCEPT ![s] = None]
    BY <1>4, IntentsAssumption DEF SummaryCompletes, Doing, Ends, IntentKeys
  <2>1. CASE ~Owns(s)
    BY <1>4, <1>a, <2>0, <2>1 DEF SummaryCompletes
  <2>2. CASE Owns(s)
    <3>1. Completed(k) /\ revision' = sent[s].body + 1 /\ effects' = [effects EXCEPT ![k] = @ + 1]
      BY <1>4, <2>2 DEF SummaryCompletes
    <3>2. /\ intent' \in [IntentKeys -> IntentRows \cup {None}] /\ ~Done(k)
          /\ \A j \in IntentKeys : Done(j)' <=> (j = k \/ Done(j))
      BY <2>0, <2>2, <3>1, Completes
    <3>3. revision' \in Revisions
      BY <1>0, <2>0, <3>1, SentTyped, FileChangesAssumption DEF Bodies, Revisions
    <3>4. \A j \in IntentKeys :
            effects'[j] = (IF j = k THEN effects[k] + 1 ELSE effects[j]) /\ effects[j] \in Nat
      BY <1>0, <2>0, <3>1 DEF IntentTypeOK
    <3>5. effects' \in [IntentKeys -> Nat]
      BY <1>0, <2>0, <3>1 DEF IntentTypeOK
    <3>6. IntentTypeOK'
      BY <1>0, <2>0, <3>2, <3>3, <3>5 DEF IntentTypeOK
    <3>7. SummaryInv'
      BY <1>0, <2>0, <3>2, <3>4 DEF SummaryInv, IntentKeys
    <3>8. RouteInv'
      BY <1>0, <2>0, <3>2, <3>4 DEF RouteInv, IntentKeys
    <3>9. RoutedInv'
      <4>1. \A t \in Senders : Doing(t, RouteKeys, "complete")'
              => Doing(t, RouteKeys, "complete") /\ sent'[t] = sent[t]
        BY <2>0, RequestMoves
      <4> QED
        BY <1>0, <2>0, <3>4, <4>1 DEF RoutedInv, Doing, IntentKeys
    <3> QED
      BY <3>6, <3>7, <3>8, <3>9 DEF IntentInv
  <2> QED
    BY <2>1, <2>2
<1>5. ASSUME NEW s \in Senders, RouteCommits(s) PROVE IntentInv'
  <2> DEFINE k == sent[s].key
             row == [sent[s] EXCEPT !.next = "complete"]
  <2>0. sent[s] # None /\ k \in RouteKeys /\ k \in IntentKeys /\ k \notin SummaryKeys
        /\ UNCHANGED intent
    BY <1>5, IntentsAssumption DEF RouteCommits, Doing, IntentKeys
  <2>1. CASE sent' = [sent EXCEPT ![s] = None] /\ UNCHANGED <<revision, effects>>
    BY <1>a, <2>0, <2>1
  <2>2. CASE /\ revision = sent[s].body /\ revision' = revision + 1
             /\ effects' = [effects EXCEPT ![k] = @ + 1] /\ sent' = [sent EXCEPT ![s] = row]
    <3>1. row \in SentRequests /\ row.key = k
      BY <1>0, <2>0, SentTyped DEF SentRequests
    <3> HIDE DEF row
    <3>2. revision' \in Revisions
      BY <1>0, <2>0, <2>2, SentTyped, FileChangesAssumption DEF Bodies, Revisions
    <3>3. \A j \in IntentKeys :
            effects'[j] = (IF j = k THEN effects[k] + 1 ELSE effects[j]) /\ effects[j] \in Nat
      BY <1>0, <2>0, <2>2 DEF IntentTypeOK
    <3>4. IntentTypeOK'
      BY <1>0, <2>0, <2>2, <3>1, <3>2 DEF IntentTypeOK
    <3>5. SummaryInv'
      BY <1>0, <2>0, <3>3 DEF SummaryInv, Done, IntentKeys
    <3>6. RouteInv'
      BY <1>0, <2>0, <3>3 DEF RouteInv, Done, IntentKeys
    <3>7. \A t \in Senders : sent'[t] = IF t = s THEN row ELSE sent[t]
      BY <1>0, <2>2 DEF IntentTypeOK
    <3>8. RoutedInv'
      <4> SUFFICES ASSUME NEW t \in Senders, Doing(t, RouteKeys, "complete")'
                   PROVE  effects'[sent'[t].key] >= 1
        BY DEF RoutedInv
      <4>1. CASE t = s
        BY <2>0, <3>1, <3>3, <3>7, <4>1
      <4>2. CASE t # s
        <5>1. Doing(t, RouteKeys, "complete") /\ sent'[t] = sent[t]
          BY <3>7, <4>2 DEF Doing
        <5>2. sent[t].key \in IntentKeys /\ effects[sent[t].key] >= 1
          BY <1>0, <5>1 DEF RoutedInv, Doing, IntentKeys
        <5> QED
          BY <3>3, <5>1, <5>2
      <4> QED
        BY <4>1, <4>2
    <3> QED
      BY <3>4, <3>5, <3>6, <3>8 DEF IntentInv
  <2> QED
    BY <1>5, <2>1, <2>2 DEF RouteCommits, Rejected, Ends
<1>6. ASSUME NEW s \in Senders, RouteCompletes(s) PROVE IntentInv'
  <2> DEFINE k == sent[s].key
  <2>0. sent[s] # None /\ k \in RouteKeys /\ k \in IntentKeys /\ k \notin SummaryKeys
        /\ sent' = [sent EXCEPT ![s] = None] /\ UNCHANGED <<revision, effects>>
        /\ Doing(s, RouteKeys, "complete")
    BY <1>6, IntentsAssumption DEF RouteCompletes, Doing, Ends, IntentKeys
  <2>1. CASE UNCHANGED intent
    BY <1>a, <2>0, <2>1
  <2>2. CASE Owns(s) /\ Completed(k)
    <3>1. /\ intent' \in [IntentKeys -> IntentRows \cup {None}]
          /\ \A j \in IntentKeys : Done(j)' <=> (j = k \/ Done(j))
      BY <2>0, <2>2, Completes
    <3>2. IntentTypeOK'
      BY <1>0, <2>0, <3>1 DEF IntentTypeOK
    <3>3. SummaryInv'
      BY <1>0, <2>0, <3>1 DEF SummaryInv, IntentKeys
    <3>4. RouteInv'
      BY <1>0, <2>0, <3>1 DEF RouteInv, RoutedInv, IntentKeys
    <3>5. \A t \in Senders : Doing(t, RouteKeys, "complete")'
            => Doing(t, RouteKeys, "complete") /\ sent'[t] = sent[t]
      BY <2>0, RequestMoves
    <3>6. RoutedInv'
      BY <1>0, <2>0, <3>5 DEF RoutedInv
    <3> QED
      BY <3>2, <3>3, <3>4, <3>6 DEF IntentInv
  <2> QED
    BY <1>6, <2>1, <2>2 DEF RouteCompletes
<1>7. ASSUME NEW s \in Senders, ScanCompletes(s) PROVE IntentInv'
  <2> DEFINE k == sent[s].key
  <2>0. sent[s] # None /\ k \in IntentKeys /\ k \notin SummaryKeys /\ k \notin RouteKeys
        /\ sent' = [sent EXCEPT ![s] = None] /\ UNCHANGED <<revision, effects>>
    BY <1>7, IntentsAssumption DEF ScanCompletes, Doing, Ends, IntentKeys
  <2>1. CASE UNCHANGED intent
    BY <1>a, <2>0, <2>1
  <2>2. ASSUME intent' \in [IntentKeys -> IntentRows \cup {None}],
               \A j \in IntentKeys \ {k} : intent'[j] = intent[j]
        PROVE  IntentInv'
    <3>1. IntentTypeOK'
      BY <1>0, <2>0, <2>2 DEF IntentTypeOK
    <3>2. SummaryInv' /\ RouteInv'
      BY <1>0, <2>0, <2>2 DEF SummaryInv, RouteInv, Done, IntentKeys
    <3>3. \A t \in Senders : Doing(t, RouteKeys, "complete")'
            => Doing(t, RouteKeys, "complete") /\ sent'[t] = sent[t]
      BY <2>0, RequestMoves
    <3>4. RoutedInv'
      BY <1>0, <2>0, <3>3 DEF RoutedInv
    <3> QED
      BY <3>1, <3>2, <3>4 DEF IntentInv
  <2>3. CASE Owns(s) /\ Completed(k)
    <3>1. intent' \in [IntentKeys -> IntentRows \cup {None}]
      BY <2>0, <2>3, Completes
    <3>2. \A j \in IntentKeys \ {k} : intent'[j] = intent[j]
      BY <1>0, <2>3 DEF Completed, IntentTypeOK
    <3> QED
      BY <2>2, <3>1, <3>2
  <2>4. CASE intent' = [intent EXCEPT ![k] = None]
    BY <1>0, <2>2, <2>4 DEF IntentTypeOK
  <2> QED
    BY <1>7, <2>1, <2>3, <2>4 DEF ScanCompletes
<1>8. ASSUME NEW s \in Senders, SenderStops(s) PROVE IntentInv'
  BY <1>8, <1>a DEF SenderStops, Ends
<1>9. ASSUME NEW k \in IntentKeys, ClaimExpires(k) PROVE IntentInv'
  <2> DEFINE row == [intent[k] EXCEPT !.live = FALSE]
  <2>0. intent[k] \in IntentRows /\ intent[k].state = "pending"
        /\ UNCHANGED <<sent, revision, effects>>
    BY <1>0, <1>9 DEF ClaimExpires, IntentTypeOK
  <2>1. row \in IntentRows /\ row.state = "pending" /\ intent' = [intent EXCEPT ![k] = row]
    BY <1>9, <2>0 DEF ClaimExpires, IntentRows
  <2> HIDE DEF row
  <2>2. \A j \in IntentKeys : Done(j)' <=> Done(j)
    BY <1>0, <2>0, <2>1 DEF IntentTypeOK, Done
  <2>3. IntentTypeOK'
    BY <1>0, <2>0, <2>1 DEF IntentTypeOK
  <2>4. SummaryInv' /\ RouteInv' /\ RoutedInv'
    BY <1>0, <2>0, <2>2 DEF SummaryInv, RouteInv, RoutedInv, Doing, IntentKeys
  <2> QED
    BY <2>3, <2>4 DEF IntentInv
<1>10. ASSUME RevisionMoves PROVE IntentInv'
  <2>1. revision' \in Revisions /\ UNCHANGED <<intent, sent, effects>>
    BY <1>0, <1>10, FileChangesAssumption DEF RevisionMoves, IntentTypeOK, Revisions
  <2> QED
    BY <1>0, <2>1 DEF IntentInv, IntentTypeOK, SummaryInv, RouteInv, RoutedInv, Done, Doing
<1>11. ASSUME UNCHANGED intentVars PROVE IntentInv'
  BY <1>0, <1>11 DEF intentVars, IntentInv, IntentTypeOK, SummaryInv, RouteInv, RoutedInv, Done, Doing
<1> QED
  BY <1>1, <1>2, <1>3, <1>4, <1>5, <1>6, <1>7, <1>8, <1>9, <1>10, <1>11 DEF IntentNext

(* The rows of the keys, the requests, the version of the recording and    *)
(* the counts of commits are always of their types.                        *)
THEOREM IntentsTypeCorrect == IntentSpec => []IntentTypeOK
<1>1. IntentInv => IntentTypeOK
  BY DEF IntentInv
<1> QED
  BY <1>1, IntentInitially, IntentStep, PTL DEF IntentSpec

(* A summary is committed exactly when its key is completed, and once; a   *)
(* route is answered only after its commit: whatever claims run out, are   *)
(* taken over or left behind.                                              *)
THEOREM ResponsesMatch == IntentSpec => []ResponseMatchesCommits
<1>1. IntentInv => ResponseMatchesCommits
  <2> SUFFICES ASSUME IntentInv PROVE ResponseMatchesCommits
    OBVIOUS
  <2>1. \A k \in SummaryKeys : effects[k] = (IF Done(k) THEN 1 ELSE 0)
    BY DEF IntentInv, SummaryInv
  <2>2. \A k \in RouteKeys : Done(k) => effects[k] >= 1
    BY DEF IntentInv, RouteInv
  <2> QED
    BY <2>1, <2>2, IntentsAssumption DEF ResponseMatchesCommits, Done
<1> QED
  BY <1>1, IntentInitially, IntentStep, PTL DEF IntentSpec
-----------------------------------------------------------------------------
(* RoutingJobs.                                                            *)

(* A request that waits has the row of its job, which stays active.        *)
WorkInv ==
  \A w \in Workers : work[w] # None =>
    /\ job[work[w].job] # None /\ job[work[w].job].status = "active"
    /\ \A u \in Workers : work[u] # None /\ work[u].job = work[w].job => u = w

(* Versions grow past the bound by the match, and once more by a decision. *)
VersionInv ==
  /\ \A r \in Tracks : /\ track[r].status = "found" => track[r].version <= MaxTrackVersion
                       /\ track[r].status = "matched" => track[r].version <= MaxTrackVersion + 1
  /\ scanning # None => scanning.version <= MaxTrackVersion + 1
  /\ \A j \in JobIds : job[j] # None => job[j].version <= MaxTrackVersion + 1

(* OneOpenJob without counting.                                            *)
SameJob == \A r \in Tracks : \A i, j \in OpenJobs(r) : i = j

JobsInv == JobsTypeOK /\ WorkInv /\ VersionInv /\ SameJob

(* "Resolve exactly once" (swarm-report/recording-agent-mila-completion-   *)
(* plan.md:336): no request changes a job that is resolved or deferred, so *)
(* none of two decides a job the other has decided.                        *)
DecidedOnce ==
  [][\A j \in JobIds :
       job[j] # None /\ job[j].status \notin OpenState => job'[j] = job[j]]_jobVars
-----------------------------------------------------------------------------
LEMMA Numbers == MaxTrackVersion \in Nat /\ MaxJobs \in Nat
BY JobsAssumption

LEMMA JobTyped ==
  ASSUME JobsTypeOK, NEW j \in JobIds, job[j] # None
  PROVE  /\ job[j] \in Jobs /\ job[j].track \in Tracks /\ job[j].version \in TrackVersions
         /\ job[j].status \in OpenState \cup {"resolved", "deferred"}
         /\ job[j].live \in BOOLEAN
BY DEF JobsTypeOK, Jobs, OpenState

LEMMA TrackTyped ==
  ASSUME JobsTypeOK, NEW r \in Tracks
  PROVE  /\ track[r] \in TrackRows /\ track[r].version \in TrackVersions
         /\ track[r].status \in {"found", "matched", "review", "running", "failed", "settled"}
         /\ track[r].routed \in BOOLEAN
BY DEF JobsTypeOK, TrackRows

LEMMA WorkTyped ==
  ASSUME JobsTypeOK, NEW w \in Workers, work[w] # None
  PROVE  work[w].job \in JobIds /\ work[w].decision \in {"resolved", "deferred"}
BY DEF JobsTypeOK, Works

(* A step that only changes recordings, and gives none back to the worker. *)
LEMMA TrackStep ==
  ASSUME JobsInv, NEW r \in Tracks, NEW row \in TrackRows,
         track' = [track EXCEPT ![r] = row], UNCHANGED <<job, work>>,
         row.status = "found" => row.version <= MaxTrackVersion,
         row.status = "matched" => row.version <= MaxTrackVersion + 1,
         scanning' = scanning \/ scanning' = None
  PROVE  JobsInv'
<1>1. JobsTypeOK'
  BY DEF JobsInv, JobsTypeOK
<1>2. WorkInv' /\ SameJob'
  BY DEF JobsInv, WorkInv, SameJob, OpenJobs, Unused
<1>3. VersionInv'
  BY DEF JobsInv, JobsTypeOK, VersionInv
<1> QED
  BY <1>1, <1>2, <1>3 DEF JobsInv

(* A step of one open job that no request holds, and that stays open.      *)
LEMMA JobStep ==
  ASSUME JobsInv, NEW j \in JobIds, job[j] # None, job[j].status \in OpenState,
         NEW row \in Jobs, row.track = job[j].track, row.version = job[j].version,
         job' = [job EXCEPT ![j] = row], UNCHANGED <<track, scanning, work>>,
         ~Locked(j) \/ row.status = job[j].status
  PROVE  JobsInv'
<1>1. JobsTypeOK'
  BY DEF JobsInv, JobsTypeOK
<1>2. \A i \in JobIds : job'[i] = IF i = j THEN row ELSE job[i]
  BY DEF JobsInv, JobsTypeOK
<1>3. WorkInv'
  <2> SUFFICES ASSUME NEW w \in Workers, work[w] # None
               PROVE  job'[work[w].job] # None /\ job'[work[w].job].status = "active"
    BY DEF JobsInv, WorkInv
  <2>1. work[w].job \in JobIds /\ job[work[w].job].status = "active" /\ job[work[w].job] # None
    BY WorkTyped DEF JobsInv, WorkInv
  <2>2. CASE work[w].job # j
    BY <1>2, <2>1, <2>2
  <2>3. CASE work[w].job = j
    BY <1>2, <2>1, <2>3, NoneIsNoJob DEF Locked
  <2> QED
    BY <2>2, <2>3
<1>4. VersionInv'
  BY <1>2 DEF JobsInv, VersionInv
<1>5. SameJob'
  BY <1>2 DEF JobsInv, SameJob, OpenJobs, Unused
<1> QED
  BY <1>1, <1>3, <1>4, <1>5 DEF JobsInv
-----------------------------------------------------------------------------
LEMMA JobsInitial == JobsInit => JobsInv
<1> SUFFICES ASSUME JobsInit PROVE JobsInv
  OBVIOUS
<1>1. JobsTypeOK
  BY Numbers DEF JobsInit, JobsTypeOK, TrackRows, TrackVersions
<1>2. WorkInv /\ VersionInv /\ SameJob
  BY Numbers DEF JobsInit, WorkInv, VersionInv, SameJob, OpenJobs, Unused
<1> QED
  BY <1>1, <1>2 DEF JobsInv

LEMMA JobsInductive == JobsInv /\ [JobsNext]_jobVars => JobsInv'
<1> SUFFICES ASSUME JobsInv, [JobsNext]_jobVars PROVE JobsInv'
  OBVIOUS
<1>a. JobsTypeOK /\ WorkInv /\ VersionInv /\ SameJob
  BY DEF JobsInv
<1>1. ASSUME NEW r \in Tracks, MatchTrack(r) PROVE JobsInv'
  <2> DEFINE v == IF track[r].status = "found" THEN track[r].version + 1 ELSE track[r].version
             row == [track[r] EXCEPT !.status = "matched", !.version = v]
  <2>1. v \in TrackVersions /\ v <= MaxTrackVersion + 1
    BY <1>a, <1>1, TrackTyped, Numbers DEF MatchTrack, VersionInv, TrackVersions
  <2>2. row \in TrackRows /\ row.status = "matched" /\ row.version = v
    BY <1>a, <2>1, TrackTyped DEF TrackRows
  <2>3. track' = [track EXCEPT ![r] = row] /\ scanning' = [track |-> r, version |-> v]
        /\ UNCHANGED <<job, work>>
    BY <1>a, <1>1 DEF MatchTrack, JobsTypeOK
  <2> HIDE DEF v, row
  <2>4. JobsTypeOK'
    BY <1>a, <2>1, <2>2, <2>3 DEF JobsTypeOK
  <2>5. VersionInv'
    BY <1>a, <2>1, <2>2, <2>3 DEF JobsTypeOK, VersionInv
  <2>6. WorkInv' /\ SameJob'
    BY <1>a, <2>3 DEF WorkInv, SameJob, OpenJobs, Unused
  <2> QED
    BY <2>4, <2>5, <2>6 DEF JobsInv
<1>2. ASSUME NEW r \in Tracks, RouteTrack(r) PROVE JobsInv'
  <2> DEFINE row == [status |-> "running", version |-> track[r].version + 1, routed |-> TRUE]
  <2>1. row \in TrackRows
    BY <1>a, <1>2, TrackTyped, Numbers DEF RouteTrack, TrackRows, TrackVersions
  <2>2. track' = [track EXCEPT ![r] = row] /\ UNCHANGED <<scanning, job, work>>
    BY <1>2 DEF RouteTrack
  <2> QED
    BY <2>1, <2>2, TrackStep
<1>3. ASSUME NEW r \in Tracks, TouchTrack(r) PROVE JobsInv'
  <2> DEFINE row == [track[r] EXCEPT !.version = @ + 1]
  <2>1. row \in TrackRows /\ row.version <= MaxTrackVersion
    BY <1>a, <1>3, TrackTyped, Numbers DEF TouchTrack, TrackRows, TrackVersions
  <2>2. track' = [track EXCEPT ![r] = row] /\ UNCHANGED <<scanning, job, work>>
    BY <1>3 DEF TouchTrack
  <2>3. row.version <= MaxTrackVersion + 1
    BY <2>1, Numbers DEF TrackRows, TrackVersions
  <2> HIDE DEF row
  <2> QED
    BY <2>1, <2>2, <2>3, TrackStep
<1>4. ASSUME NEW r \in Tracks, NEW s \in {"review", "running", "failed", "settled"},
             track' = [track EXCEPT ![r].status = s], UNCHANGED <<job, work>>,
             scanning' = scanning \/ scanning' = None
      PROVE  JobsInv'
  <2> DEFINE row == [track[r] EXCEPT !.status = s]
  <2>1. row \in TrackRows /\ row.status \notin {"found", "matched"}
    BY <1>a, TrackTyped DEF TrackRows
  <2>2. track' = [track EXCEPT ![r] = row]
    BY <1>4
  <2> HIDE DEF row
  <2> QED
    BY <1>4, <2>1, <2>2, TrackStep
<1>5. ASSUME NEW r \in Tracks, TransferEnds(r) PROVE JobsInv'
  BY <1>4, <1>5 DEF TransferEnds
<1>6. CASE CreateOrReuse
  <2>0. scanning \in [track : Tracks, version : TrackVersions] /\ UNCHANGED <<track, work>>
        /\ scanning' = None
    BY <1>a, <1>6 DEF CreateOrReuse, JobsTypeOK
  <2>1. CASE UNCHANGED job
    <3>1. JobsTypeOK' /\ VersionInv'
      BY <1>a, <2>0, <2>1 DEF JobsTypeOK, VersionInv
    <3>2. WorkInv' /\ SameJob'
      BY <1>a, <2>0, <2>1 DEF WorkInv, SameJob, OpenJobs, Unused
    <3> QED
      BY <3>1, <3>2 DEF JobsInv
  <2>2. ASSUME NEW j \in Unused, Reusable(scanning.track) = {},
               job' = [job EXCEPT ![j] =
                  [ track |-> scanning.track, version |-> scanning.version,
                    status |-> "queued", live |-> FALSE ]]
        PROVE  JobsInv'
    <3> DEFINE row == [ track |-> scanning.track, version |-> scanning.version,
                        status |-> "queued", live |-> FALSE ]
    <3>1. row \in Jobs /\ row.track = scanning.track /\ row.version = scanning.version
      BY <2>0 DEF Jobs
    <3>2. j \in JobIds /\ job[j] = None
      BY DEF Unused
    <3> HIDE DEF row
    <3>3. \A i \in JobIds : job'[i] = IF i = j THEN row ELSE job[i]
      BY <1>a, <2>2, <3>2 DEF JobsTypeOK, row
    <3>4. JobsTypeOK'
      BY <1>a, <2>0, <2>2, <3>1, <3>2 DEF JobsTypeOK, row
    <3>5. WorkInv'
      BY <1>a, <2>0, <3>2, <3>3, WorkTyped DEF WorkInv
    <3>6. VersionInv'
      BY <1>a, <1>6, <2>0, <3>1, <3>3 DEF VersionInv, CreateOrReuse
    <3>7. SameJob'
      BY <1>a, <2>2, <3>1, <3>2, <3>3 DEF SameJob, OpenJobs, Unused, Reusable
    <3> QED
      BY <3>4, <3>5, <3>6, <3>7 DEF JobsInv
  <2> QED
    BY <1>6, <2>1, <2>2 DEF CreateOrReuse
<1>7. CASE DiscoveryRejected
  BY <1>a, <1>4, <1>7 DEF DiscoveryRejected, JobsTypeOK
<1>8. CASE DiscoveryFails
  <2>1. CASE UNCHANGED track
    <3>1. JobsTypeOK' /\ VersionInv'
      BY <1>a, <1>8, <2>1 DEF DiscoveryFails, JobsTypeOK, VersionInv
    <3>2. WorkInv' /\ SameJob'
      BY <1>a, <1>8, <2>1 DEF DiscoveryFails, WorkInv, SameJob, OpenJobs, Unused
    <3> QED
      BY <3>1, <3>2 DEF JobsInv
  <2>2. CASE track' = [track EXCEPT ![scanning.track].status = "failed"]
    BY <1>a, <1>4, <1>8, <2>2 DEF DiscoveryFails, JobsTypeOK
  <2> QED
    BY <1>8, <2>1, <2>2 DEF DiscoveryFails
<1>9. ASSUME NEW j \in JobIds, Dispatch(j) PROVE JobsInv'
  <2> DEFINE row == [job[j] EXCEPT !.status = "dispatched", !.live = TRUE]
  <2>1. job[j] # None /\ job[j].status \in OpenState /\ ~Locked(j)
    BY <1>9 DEF Dispatch, Dispatchable, OpenState
  <2>2. row \in Jobs /\ row.track = job[j].track /\ row.version = job[j].version
    BY <1>a, <2>1, JobTyped DEF Jobs
  <2>3. job' = [job EXCEPT ![j] = row] /\ UNCHANGED <<track, scanning, work>>
    BY <1>9 DEF Dispatch
  <2> HIDE DEF row
  <2> QED
    BY <2>1, <2>2, <2>3, JobStep
<1>10. ASSUME NEW j \in JobIds, LeaseEnds(j) PROVE JobsInv'
  <2> DEFINE row == [job[j] EXCEPT !.live = FALSE]
  <2>1. job[j] # None /\ job[j].status \in OpenState
    BY <1>10 DEF LeaseEnds
  <2>2. row \in Jobs /\ row.track = job[j].track /\ row.version = job[j].version
        /\ row.status = job[j].status
    BY <1>a, <2>1, JobTyped DEF Jobs
  <2>3. job' = [job EXCEPT ![j] = row] /\ UNCHANGED <<track, scanning, work>>
    BY <1>10 DEF LeaseEnds
  <2> HIDE DEF row
  <2> QED
    BY <2>1, <2>2, <2>3, JobStep
<1>11. ASSUME NEW j \in JobIds, Activate(j) PROVE JobsInv'
  <2> DEFINE row == [job[j] EXCEPT !.status = "active"]
  <2>1. job[j] # None /\ job[j].status \in OpenState /\ ~Locked(j)
    BY <1>11 DEF Activate, Owned, OpenState
  <2>2. row \in Jobs /\ row.track = job[j].track /\ row.version = job[j].version
    BY <1>a, <2>1, JobTyped DEF Jobs
  <2>3. job' = [job EXCEPT ![j] = row] /\ UNCHANGED <<track, scanning, work>>
    BY <1>11 DEF Activate
  <2> HIDE DEF row
  <2> QED
    BY <2>1, <2>2, <2>3, JobStep
<1>12. ASSUME NEW w \in Workers, NEW j \in JobIds, Decide(w, j) PROVE JobsInv'
  <2>1. PICK d \in {"resolved", "deferred"} :
          work' = [work EXCEPT ![w] = [job |-> j, decision |-> d]]
    BY <1>12 DEF Decide
  <2>2. /\ job[j] # None /\ job[j].status = "active" /\ work[w] = None
        /\ \A u \in Workers : work[u] # None => work[u].job # j
        /\ UNCHANGED <<track, job, scanning>>
    BY <1>12 DEF Decide, Owned, Locked
  <2>3. JobsTypeOK'
    BY <1>a, <2>1, <2>2 DEF JobsTypeOK, Works
  <2>4. WorkInv'
    <3>1. \A u \in Workers : work'[u] = IF u = w THEN [job |-> j, decision |-> d] ELSE work[u]
      BY <1>a, <2>1 DEF JobsTypeOK
    <3> QED
      BY <1>a, <2>2, <3>1 DEF WorkInv
  <2>5. VersionInv' /\ SameJob'
    BY <1>a, <2>2 DEF VersionInv, SameJob, OpenJobs, Unused
  <2> QED
    BY <2>3, <2>4, <2>5 DEF JobsInv
<1>13. ASSUME NEW w \in Workers, CommitDecision(w) PROVE JobsInv'
  <2> DEFINE j == work[w].job
             r == job[j].track
             d == work[w].decision
             jrow == [job[j] EXCEPT !.status = d]
             trow == [ track[r] EXCEPT !.status = IF d = "resolved" THEN "running" ELSE "review",
                         !.version = job[j].version + 1,
                         !.routed = @ \/ d = "resolved" ]
  <2>0. work[w] # None
    BY <1>13 DEF CommitDecision
  <2>1. /\ j \in JobIds /\ d \in {"resolved", "deferred"} /\ job[j] # None
        /\ \A u \in Workers : u # w /\ work[u] # None => work[u].job # j
    BY <1>a, <2>0, WorkTyped DEF WorkInv
  <2>2. r \in Tracks /\ job[j] \in Jobs /\ job[j].version + 1 \in TrackVersions
    BY <1>a, <2>1, JobTyped, Numbers DEF VersionInv, TrackVersions
  <2>3. /\ jrow \in Jobs /\ jrow.version = job[j].version /\ jrow.status \notin OpenState
    BY <2>1, <2>2 DEF Jobs, OpenState
  <2>4. trow \in TrackRows /\ trow.status \notin {"found", "matched"}
    <3>1. track[r] \in TrackRows
      BY <1>a, <2>2, TrackTyped
    <3> QED
      BY <2>1, <2>2, <3>1 DEF TrackRows
  <2>5. /\ job' = [job EXCEPT ![j] = jrow] /\ work' = [work EXCEPT ![w] = None]
        /\ UNCHANGED scanning
    BY <1>13 DEF CommitDecision
  <2>6. track' = [track EXCEPT ![r] = trow]
    BY <1>a, <1>13, <2>2 DEF CommitDecision, JobsTypeOK, TrackRows
  <2> HIDE DEF jrow, trow, j, r, d
  <2>7. \A i \in JobIds : job'[i] = IF i = j THEN jrow ELSE job[i]
    BY <1>a, <2>1, <2>5 DEF JobsTypeOK
  <2>8. JobsTypeOK'
    BY <1>a, <2>1, <2>2, <2>3, <2>4, <2>5, <2>6 DEF JobsTypeOK
  <2>9. \A u \in Workers : work'[u] # None => u # w /\ work'[u] = work[u] /\ work[u].job \in JobIds
    BY <1>a, <2>5, WorkTyped DEF JobsTypeOK
  <2>10. WorkInv'
    BY <1>a, <2>1, <2>7, <2>9 DEF WorkInv
  <2>11. VersionInv'
    BY <1>a, <2>1, <2>2, <2>3, <2>4, <2>5, <2>6, <2>7 DEF VersionInv, JobsTypeOK
  <2>12. SameJob'
    BY <1>a, <2>3, <2>7 DEF SameJob, OpenJobs, Unused
  <2> QED
    BY <2>8, <2>10, <2>11, <2>12 DEF JobsInv
<1>14. ASSUME NEW w \in Workers, AbandonDecision(w) PROVE JobsInv'
  <2>1. JobsTypeOK'
    BY <1>a, <1>14 DEF AbandonDecision, JobsTypeOK
  <2>2. WorkInv'
    BY <1>a, <1>14 DEF AbandonDecision, WorkInv, JobsTypeOK
  <2>3. VersionInv' /\ SameJob'
    BY <1>a, <1>14 DEF AbandonDecision, VersionInv, SameJob, OpenJobs, Unused
  <2> QED
    BY <2>1, <2>2, <2>3 DEF JobsInv
<1>15. CASE UNCHANGED jobVars
  <2>1. JobsTypeOK' /\ WorkInv'
    BY <1>a, <1>15 DEF jobVars, JobsTypeOK, WorkInv
  <2>2. VersionInv' /\ SameJob'
    BY <1>a, <1>15 DEF jobVars, VersionInv, SameJob, OpenJobs, Unused
  <2> QED
    BY <2>1, <2>2 DEF JobsInv
<1> QED
  BY <1>1, <1>2, <1>3, <1>5, <1>6, <1>7, <1>8, <1>9, <1>10, <1>11, <1>12, <1>13, <1>14, <1>15
  DEF JobsNext

THEOREM JobsInvariant == JobsSpec => []JobsInv
<1> QED
  BY JobsInitial, JobsInductive, PTL DEF JobsSpec

(* Type correctness: the versions never leave their range, although only   *)
(* the steps of others than jobs are bounded.                              *)
THEOREM JobsTypeCorrect == JobsSpec => []JobsTypeOK
<1>1. JobsInv => JobsTypeOK
  BY DEF JobsInv
<1> QED
  BY <1>1, JobsInvariant, PTL

(* At most one open job for a recording, however scans, workers, expiring  *)
(* leases and the recruiter overlap.                                       *)
THEOREM AtMostOneJob == JobsSpec => []OneOpenJob
<1>1. ASSUME JobsInv PROVE OneOpenJob
  <2> SUFFICES ASSUME NEW r \in Tracks PROVE Cardinality(OpenJobs(r)) <= 1
    BY DEF OneOpenJob
  <2>1. CASE OpenJobs(r) = {}
    BY <2>1, FS_EmptySet
  <2>2. CASE OpenJobs(r) # {}
    <3>1. PICK j : OpenJobs(r) = {j}
      BY <1>1, <2>2 DEF JobsInv, SameJob
    <3> QED
      BY <3>1, FS_Singleton
  <2> QED
    BY <2>1, <2>2
<1> QED
  BY <1>1, JobsInvariant, PTL

(* A decision is final: requests that overlap, one of them with an expired *)
(* lease, do not both decide a job, and no dispatch opens it again.        *)
THEOREM DecisionsAreFinal == JobsSpec => DecidedOnce
<1>1. ASSUME JobsInv, [JobsNext]_jobVars, NEW j \in JobIds,
             job[j] # None, job[j].status \notin OpenState
      PROVE  job'[j] = job[j]
  <2>1. ASSUME NEW k \in JobIds, Dispatch(k) \/ LeaseEnds(k) \/ Activate(k) PROVE job'[j] = job[j]
    BY <1>1, <2>1 DEF Dispatch, Dispatchable, LeaseEnds, Activate, OpenState, JobsInv, JobsTypeOK
  <2>2. ASSUME NEW w \in Workers, CommitDecision(w) PROVE job'[j] = job[j]
    <3>1. work[w].job # j
      BY <1>1, <2>2 DEF CommitDecision, JobsInv, WorkInv, OpenState
    <3> QED
      BY <1>1, <2>2, <3>1 DEF CommitDecision, JobsInv, JobsTypeOK
  <2>3. CASE CreateOrReuse
    BY <1>1, <2>3 DEF CreateOrReuse, Unused, JobsInv, JobsTypeOK
  <2>4. ASSUME UNCHANGED job PROVE job'[j] = job[j]
    BY <2>4
  <2> QED
    BY <1>1, <2>1, <2>2, <2>3, <2>4
    DEF JobsNext, jobVars, MatchTrack, RouteTrack, TouchTrack, TransferEnds, DiscoveryRejected,
        DiscoveryFails, Decide, AbandonDecision
<1>2. JobsInv /\ [JobsNext]_jobVars
        => [\A j \in JobIds :
              job[j] # None /\ job[j].status \notin OpenState => job'[j] = job[j]]_jobVars
  BY <1>1
<1> QED
  BY <1>2, JobsInvariant, PTL DEF JobsSpec, DecidedOnce
-----------------------------------------------------------------------------
(* Calendars.                                                              *)

(* At most one default calendar; and one, where activation relies on it.   *)
DefaultInv ==
  /\ IsFiniteSet(Defaults) /\ Cardinality(Defaults) <= 1
  /\ recruiter # None /\ recruiter.active => Defaults # {}
  /\ setup # None /\ setup.next = "activate" => Defaults # {}

(* A command is about a recruiter, waits for its own discovery only where  *)
(* it asks for one, and commits to calendars that are known.               *)
SetupInv ==
  /\ setup # None => recruiter # None
  /\ discovery["setup"] # None => setup # None /\ setup.next = "discover"
  /\ setup # None /\ setup.next = "commit" =>
       setup.target \in Known /\ setup.held \in Known \cup {None}

CalendarInv == CalendarTypeOK /\ DefaultInv /\ SetupInv

LEMMA CalendarNulls ==
  /\ None \notin Calendars /\ None \notin CalendarRows /\ None \notin RecruiterRows
  /\ None \notin Discoveries /\ None \notin Setups
BY NoneIsNoCalendar

(* The index looks at the default calendars.                               *)
LEMMA IndexOnDefaults == OneDefault(calendar') <=> Cardinality(Defaults') <= 1
<1>1. Defaults' = {c \in Calendars : calendar'[c] # None /\ calendar'[c].default}
  BY DEF Defaults, Known
<1>2. OneDefault(calendar') <=>
        Cardinality({c \in Calendars : calendar'[c] # None /\ calendar'[c].default}) <= 1
  BY DEF OneDefault
<1> QED BY <1>1, <1>2

(* Steps that leave the calendars alone.                                   *)
LEMMA CalendarsStay ==
  ASSUME CalendarInv, calendar' = calendar, CalendarTypeOK', SetupInv',
         recruiter' # None /\ recruiter'.active =>
           (recruiter # None /\ recruiter.active) \/ (setup # None /\ setup.next = "activate"),
         setup' # None /\ setup'.next = "activate" =>
           (setup # None /\ setup.next = "activate") \/ Cardinality(Defaults \cap Listable) = 1
  PROVE  CalendarInv'
<1>1. Defaults' = Defaults
  BY DEF Defaults, Known
<1>2. Cardinality(Defaults \cap Listable) = 1 => Defaults # {}
  <2>1. Defaults = {} => Defaults \cap Listable = {}
    OBVIOUS
  <2> QED BY <2>1, FS_EmptySet
<1>3. DefaultInv'
  BY <1>1, <1>2 DEF CalendarInv, DefaultInv
<1> QED BY <1>3 DEF CalendarInv

(* Steps that change calendars forget none, and leave a default where      *)
(* there was one; an index or the lock of the recruiter allows no second.  *)
LEMMA CalendarsMove ==
  ASSUME CalendarInv, CalendarTypeOK', SetupInv',
         IsFiniteSet(Defaults'), Cardinality(Defaults') <= 1,
         Defaults # {} => Defaults' # {},
         recruiter' # None /\ recruiter'.active => recruiter # None /\ recruiter.active,
         setup' # None /\ setup'.next = "activate" => setup # None /\ setup.next = "activate"
  PROVE  CalendarInv'
BY DEF CalendarInv, DefaultInv

LEMMA DiscoversCalendars ==
  ASSUME CalendarInv, NEW d \in Clients,
         FetchCalendars(d) \/ LoadCalendars(d) \/ DiscoveryFailed(d)
  PROVE  CalendarInv'
<1>1. /\ calendar' = calendar /\ recruiter' = recruiter /\ listed' = listed
      /\ Known' = Known
  BY DEF FetchCalendars, LoadCalendars, DiscoveryFailed, Known
<1>2. CASE FetchCalendars(d)
  <2> DEFINE new == [next |-> "load", list |-> listed, up |-> {}, down |-> {}, new |-> {}, adopt |-> None]
  <2>1. /\ discovery' = [discovery EXCEPT ![d] = new] /\ setup' = setup /\ scan' = scan
        /\ d = "setup" => setup # None /\ setup.next = "discover"
    BY <1>2 DEF FetchCalendars, Asks
  <2>2. new \in Discoveries
    BY DEF Discoveries, CalendarInv, CalendarTypeOK
  <2> HIDE DEF new
  <2>3. CalendarTypeOK'
    BY <1>1, <2>1, <2>2 DEF CalendarInv, CalendarTypeOK
  <2>4. SetupInv'
    BY <1>1, <2>1 DEF CalendarInv, CalendarTypeOK, SetupInv, Clients
  <2> QED BY <1>1, <2>1, <2>3, <2>4, CalendarsStay
<1>3. CASE LoadCalendars(d)
  <2> DEFINE list == discovery[d].list
             new == [ next |-> "commit", list |-> {},
                      up |-> Appears(list), down |-> Listable \ list, new |-> list \ Known,
                      adopt |-> LegacyDefault(d, list) ]
  <2>1. /\ discovery' = [discovery EXCEPT ![d] = new] /\ setup' = setup /\ scan' = scan
        /\ discovery[d] # None
    BY <1>3 DEF LoadCalendars
  <2>2. list \subseteq Calendars
    BY <2>1 DEF CalendarInv, CalendarTypeOK, Discoveries
  <2>3. LegacyDefault(d, list) \in Calendars \cup {None}
    BY <2>2 DEF LegacyDefault
  <2>4. new \in Discoveries
    BY <2>2, <2>3 DEF Discoveries, Appears, Listable, Known
  <2> HIDE DEF new
  <2>5. CalendarTypeOK'
    BY <1>1, <2>1, <2>4 DEF CalendarInv, CalendarTypeOK
  <2>6. SetupInv'
    BY <1>1, <2>1 DEF CalendarInv, CalendarTypeOK, SetupInv, Clients
  <2> QED BY <1>1, <2>1, <2>5, <2>6, CalendarsStay
<1>4. CASE DiscoveryFailed(d)
  <2>1. /\ discovery' = [discovery EXCEPT ![d] = None]
        /\ setup' = IF d = "setup" THEN None ELSE setup
        /\ scan' = IF d = "scan" THEN "idle" ELSE scan
    BY <1>4 DEF DiscoveryFailed
  <2>2. CalendarTypeOK'
    BY <1>1, <2>1 DEF CalendarInv, CalendarTypeOK
  <2>3. SetupInv'
    BY <1>1, <2>1 DEF CalendarInv, CalendarTypeOK, SetupInv, Clients
  <2> QED BY <1>1, <2>1, <2>2, <2>3, CalendarsStay
<1> QED BY <1>2, <1>3, <1>4

(* A commit of rows: those that were there stay, and are completed.        *)
LEMMA CommitsDiscovery ==
  ASSUME CalendarInv, NEW d \in Clients, CommitDiscovery(d)
  PROVE  CalendarInv'
<1> DEFINE w == discovery[d]
<1>1. /\ w # None /\ w \in Discoveries /\ w.new \cap Known = {}
      /\ calendar' = Discovered(w) /\ OneDefault(calendar')
      /\ discovery' = [discovery EXCEPT ![d] = None]
      /\ setup' = IF d = "setup" THEN [setup EXCEPT !.next = "choose"] ELSE setup
      /\ scan' = IF d = "scan" THEN "snapshot" ELSE scan
      /\ listed' = listed /\ recruiter' = recruiter
  BY DEF CommitDiscovery, CalendarInv, CalendarTypeOK
<1> HIDE DEF w
<1>2. ASSUME NEW c \in Calendars
      PROVE  /\ calendar'[c] \in CalendarRows \cup {None}
             /\ c \in Known => calendar'[c] \in CalendarRows
             /\ c \in Known /\ calendar[c].default => calendar'[c].default
             /\ calendar'[c] # None /\ calendar'[c].default =>
                  c = w.adopt \/ (c \in Known /\ calendar[c].default)
  <2>1. calendar[c] \in CalendarRows \cup {None} /\ (c \in Known <=> calendar[c] # None)
    BY DEF CalendarInv, CalendarTypeOK, Known
  <2>2. calendar'[c] =
          IF c \in w.new
            THEN [available |-> TRUE, default |-> c = w.adopt, selected |-> FALSE]
            ELSE IF calendar[c] = None THEN None
            ELSE [calendar[c] EXCEPT
                   !.available = (calendar[c].available /\ c \notin w.down) \/ c \in w.up,
                   !.default = calendar[c].default \/ c = w.adopt]
    BY <1>1 DEF Discovered
  <2>3. CASE c \in w.new
    <3> DEFINE b == c = w.adopt
    <3>1. calendar'[c] = [available |-> TRUE, default |-> b, selected |-> FALSE] /\ b \in BOOLEAN
      BY <2>2, <2>3
    <3>2. b => c = w.adopt
      OBVIOUS
    <3> HIDE DEF b
    <3>3. calendar'[c] \in CalendarRows /\ calendar'[c].default = b
      BY <3>1 DEF CalendarRows
    <3>4. c \notin Known
      BY <1>1, <2>3
    <3> QED BY <3>2, <3>3, <3>4
  <2>4. CASE c \notin w.new /\ calendar[c] = None
    BY <2>1, <2>2, <2>4
  <2>5. CASE c \notin w.new /\ calendar[c] # None
    BY <2>1, <2>2, <2>5 DEF CalendarRows
  <2> QED BY <2>3, <2>4, <2>5
<1>3. Known \subseteq Known'
  BY <1>2, CalendarNulls DEF Known
<1>4. Defaults \subseteq Defaults' /\ Defaults' \subseteq Defaults \cup {w.adopt}
  BY <1>2, <1>3 DEF Defaults, Known
<1>5. IsFiniteSet(Defaults') /\ Cardinality(Defaults') <= 1
  <2>1. IsFiniteSet(Defaults \cup {w.adopt})
    BY FS_AddElement DEF CalendarInv, DefaultInv
  <2>2. IsFiniteSet(Defaults')
    BY <1>4, <2>1, FS_Subset
  <2> QED BY <1>1, <2>2, IndexOnDefaults
<1>6. setup' \in Setups \cup {None} /\ (d = "setup" => setup # None /\ setup' # None /\ setup'.next = "choose")
  <2>1. d = "setup" => setup # None /\ setup \in Setups
    BY <1>1 DEF CalendarInv, CalendarTypeOK, SetupInv, w
  <2>2. CASE d = "setup"
    <3>1. setup' \in Setups /\ setup'.next = "choose"
      BY <1>1, <2>1, <2>2 DEF Setups
    <3> QED BY <3>1, <2>1, CalendarNulls
  <2>3. CASE d # "setup"
    BY <1>1, <2>3 DEF CalendarInv, CalendarTypeOK
  <2> QED BY <2>2, <2>3
<1>7. CalendarTypeOK'
  <2>1. calendar' \in [Calendars -> CalendarRows \cup {None}]
    BY <1>1, <1>2 DEF Discovered
  <2> QED BY <1>1, <1>6, <2>1 DEF CalendarInv, CalendarTypeOK
<1>8. SetupInv'
  <2>1. CASE d = "setup"
    BY <1>1, <1>6, <2>1 DEF CalendarInv, CalendarTypeOK, SetupInv, Clients
  <2>2. CASE d # "setup"
    BY <1>1, <1>3, <2>2 DEF CalendarInv, CalendarTypeOK, SetupInv, Clients
  <2> QED BY <2>1, <2>2
<1>9. setup' # None /\ setup'.next = "activate" => setup # None /\ setup.next = "activate"
  BY <1>1, <1>6
<1>10. Defaults # {} => Defaults' # {}
  BY <1>4
<1> QED BY <1>1, <1>5, <1>7, <1>8, <1>9, <1>10, CalendarsMove

(* The endpoints.                                                          *)
LEMMA SelectsCalendars ==
  ASSUME CalendarInv, NEW chosen \in SUBSET Calendars, ReplaceSelection(chosen)
  PROVE  CalendarInv'
<1>1. /\ listed' = listed /\ recruiter' = recruiter /\ discovery' = discovery
      /\ setup' = setup /\ scan' = scan
      /\ calendar' = [c \in Calendars |->
           IF c \in Known THEN [calendar[c] EXCEPT !.selected = c \in chosen] ELSE None]
  BY DEF ReplaceSelection
<1>2. ASSUME NEW c \in Calendars
      PROVE  /\ calendar'[c] \in CalendarRows \cup {None}
             /\ (c \in Known) <=> (calendar'[c] # None)
             /\ c \in Known => (calendar'[c].default <=> calendar[c].default)
  <2>1. /\ c \in Known <=> calendar[c] # None
        /\ c \in Known => calendar[c] \in CalendarRows
    BY DEF CalendarInv, CalendarTypeOK, Known
  <2>2. calendar'[c] = IF c \in Known THEN [calendar[c] EXCEPT !.selected = c \in chosen] ELSE None
    BY <1>1
  <2>3. c \in Known => /\ calendar'[c] \in CalendarRows
                       /\ calendar'[c].default = calendar[c].default
    <3> DEFINE b == c \in chosen
    <3>1. c \in Known => calendar'[c] = [calendar[c] EXCEPT !.selected = b]
      BY <2>2
    <3>2. b \in BOOLEAN
      OBVIOUS
    <3> HIDE DEF b
    <3> QED BY <2>1, <3>1, <3>2 DEF CalendarRows
  <2> HIDE DEF Known
  <2> QED BY <2>1, <2>2, <2>3, CalendarNulls
<1>3. Known' = Known /\ Defaults' = Defaults
  <2>1. Known' = Known
    BY <1>2 DEF Known
  <2> QED BY <1>2, <2>1 DEF Defaults, Known
<1>4. CalendarTypeOK' /\ SetupInv'
  <2>1. calendar' \in [Calendars -> CalendarRows \cup {None}]
    BY <1>1, <1>2
  <2> QED BY <1>1, <1>3, <2>1 DEF CalendarInv, CalendarTypeOK, SetupInv
<1> QED BY <1>1, <1>3, <1>4, CalendarsMove DEF CalendarInv, DefaultInv

LEMMA SetsDefault ==
  ASSUME CalendarInv, NEW c \in Calendars, SetDefault(c)
  PROVE  CalendarInv'
<1>1. /\ listed' = listed /\ discovery' = discovery /\ setup' = setup /\ scan' = scan
      /\ recruiter # None /\ c \in Known
      /\ recruiter' = [recruiter EXCEPT !.url = c]
      /\ calendar' = [b \in Calendars |->
           IF b \in Known THEN [calendar[b] EXCEPT !.default = b = c] ELSE None]
  BY DEF SetDefault, Listable
<1>2. ASSUME NEW b \in Calendars
      PROVE  /\ calendar'[b] \in CalendarRows \cup {None}
             /\ (b \in Known) <=> (calendar'[b] # None)
             /\ b \in Known => (calendar'[b].default <=> b = c)
  <2>1. /\ b \in Known <=> calendar[b] # None
        /\ b \in Known => calendar[b] \in CalendarRows
    BY DEF CalendarInv, CalendarTypeOK, Known
  <2>2. calendar'[b] = IF b \in Known THEN [calendar[b] EXCEPT !.default = b = c] ELSE None
    BY <1>1
  <2>3. b \in Known => /\ calendar'[b] \in CalendarRows
                       /\ calendar'[b].default = (b = c)
    BY <2>1, <2>2 DEF CalendarRows
  <2> HIDE DEF Known
  <2> QED BY <2>1, <2>2, <2>3, CalendarNulls
<1>3. Known' = Known /\ Defaults' = {c}
  <2>1. Known' = Known
    BY <1>2 DEF Known
  <2>2. \A b \in Known : b \in Calendars
    BY DEF Known
  <2>3. Defaults' = {b \in Known : calendar'[b].default}
    BY <2>1 DEF Defaults
  <2> QED BY <1>1, <1>2, <2>1, <2>2, <2>3
<1>4. /\ recruiter' \in RecruiterRows /\ recruiter'.active = recruiter.active
  <2>1. recruiter \in RecruiterRows
    BY <1>1 DEF CalendarInv, CalendarTypeOK
  <2> QED BY <1>1, <2>1 DEF RecruiterRows
<1>5. CalendarTypeOK' /\ SetupInv'
  <2>1. calendar' \in [Calendars -> CalendarRows \cup {None}]
    BY <1>1, <1>2
  <2>2. CalendarTypeOK'
    BY <1>1, <1>4, <2>1 DEF CalendarInv, CalendarTypeOK
  <2>3. SetupInv'
    BY <1>1, <1>3, <1>4, CalendarNulls DEF CalendarInv, SetupInv
  <2> QED BY <2>2, <2>3
<1>6. IsFiniteSet(Defaults') /\ Cardinality(Defaults') <= 1 /\ Defaults' # {}
  BY <1>3, FS_Singleton
<1> QED BY <1>1, <1>4, <1>5, <1>6, CalendarsMove

(* The commands of the operator.                                           *)
LEMMA PreflightMoves ==
  ASSUME CalendarInv, PreflightCommits
  PROVE  CalendarInv'
<1> DEFINE h == setup.held
           t == setup.target
<1>1. /\ setup # None /\ setup.next = "commit" /\ setup \in Setups
      /\ t \in Known /\ h \in Known \cup {None}
      /\ recruiter # None /\ recruiter \in RecruiterRows
  BY DEF PreflightCommits, CalendarInv, CalendarTypeOK, SetupInv
<1>2. /\ calendar' = [c \in Calendars |->
           IF h # t /\ c \in {h, t} THEN [calendar[c] EXCEPT !.default = c = t] ELSE calendar[c]]
      /\ OneDefault(calendar')
      /\ \E url \in {recruiter.url, t} : recruiter' = [recruiter EXCEPT !.url = url]
      /\ setup' = [setup EXCEPT !.next = "notion"]
      /\ listed' = listed /\ discovery' = discovery /\ scan' = scan
  BY DEF PreflightCommits
<1> HIDE DEF h, t
<1>3. Known \subseteq Calendars
  BY DEF Known
<1>4. ASSUME NEW c \in Calendars
      PROVE  /\ calendar'[c] \in CalendarRows \cup {None}
             /\ c \in Known => calendar'[c] \in CalendarRows /\ calendar'[c] # None
             /\ h # t /\ c = t => calendar'[c].default
             /\ calendar'[c] # None /\ calendar'[c].default =>
                  c = t \/ (c \in Known /\ calendar[c].default)
             /\ h = t => calendar'[c] = calendar[c]
             /\ c \in Known /\ c # h /\ calendar[c].default => calendar'[c].default
  <2>1. /\ c \in Known <=> calendar[c] # None
        /\ calendar[c] \in CalendarRows \cup {None}
    BY DEF CalendarInv, CalendarTypeOK, Known
  <2>2. CASE h # t /\ c \in {h, t}
    <3> DEFINE b == c = t
    <3>1. calendar'[c] = [calendar[c] EXCEPT !.default = b] /\ b \in BOOLEAN
      BY <1>2, <2>2
    <3>2. b <=> c = t
      OBVIOUS
    <3>3. c \in Known
      BY <1>1, <2>2, CalendarNulls
    <3>4. calendar[c] \in CalendarRows
      BY <2>1, <3>3
    <3> HIDE DEF b
    <3>5. calendar'[c] \in CalendarRows /\ calendar'[c].default = b
      BY <3>1, <3>4 DEF CalendarRows
    <3> QED BY <2>2, <3>2, <3>3, <3>5, CalendarNulls
  <2>3. CASE ~(h # t /\ c \in {h, t})
    <3>1. calendar'[c] = calendar[c]
      BY <1>2, <2>3
    <3> QED BY <2>1, <2>3, <3>1, CalendarNulls
  <2> QED BY <2>2, <2>3
<1>5. Known \subseteq Known'
  BY <1>3, <1>4 DEF Known
<1>6. Defaults' \subseteq Defaults \cup {t}
  BY <1>4 DEF Defaults, Known
<1>7. IsFiniteSet(Defaults') /\ Cardinality(Defaults') <= 1
  <2>1. IsFiniteSet(Defaults \cup {t})
    BY FS_AddElement DEF CalendarInv, DefaultInv
  <2> QED BY <1>2, <1>6, <2>1, FS_Subset, IndexOnDefaults
<1>8. Defaults # {} => Defaults' # {}
  <2>1. CASE h = t
    <3>1. Defaults \subseteq Defaults'
      BY <1>3, <1>4, <1>5, <2>1 DEF Defaults
    <3> QED BY <3>1
  <2>2. CASE h # t
    <3>1. t \in Defaults'
      BY <1>1, <1>3, <1>4, <1>5, <2>2 DEF Defaults
    <3> QED BY <3>1
  <2> QED BY <2>1, <2>2
<1>9. recruiter' \in RecruiterRows /\ recruiter'.active = recruiter.active
  BY <1>1, <1>2, <1>3 DEF RecruiterRows
<1>10. setup' \in Setups /\ setup'.next = "notion"
  BY <1>1, <1>2 DEF Setups
<1>11. CalendarTypeOK' /\ SetupInv'
  <2>1. calendar' \in [Calendars -> CalendarRows \cup {None}]
    BY <1>2, <1>4
  <2>2. CalendarTypeOK'
    BY <1>2, <1>9, <1>10, <2>1 DEF CalendarInv, CalendarTypeOK
  <2>3. SetupInv'
    BY <1>1, <1>2, <1>9, <1>10, CalendarNulls DEF CalendarInv, SetupInv
  <2> QED BY <2>2, <2>3
<1> QED BY <1>1, <1>7, <1>8, <1>9, <1>10, <1>11, CalendarsMove

LEMMA CommandsMove ==
  ASSUME CalendarInv,
         \/ Configure \/ StartPreflight \/ PreflightVerifies \/ StartActivate \/ ActivateCommits
         \/ SetupFails \/ \E c \in Calendars : PreflightChooses(c)
  PROVE  CalendarInv'
<1>1. calendar' = calendar /\ listed' = listed /\ discovery' = discovery /\ scan' = scan
  BY DEF Configure, StartPreflight, PreflightVerifies, StartActivate, ActivateCommits, SetupFails,
         PreflightChooses, StartsWith
<1>2. Known' = Known /\ Known \subseteq Calendars /\ Defaults \subseteq Known
  BY <1>1 DEF Known, Defaults
<1>3. CASE Configure
  <2> DEFINE new == [active |-> FALSE, verified |-> FALSE, url |-> None]
  <2>1. new \in RecruiterRows /\ ~new.active /\ recruiter' = new /\ setup' = setup /\ setup = None
    BY <1>3 DEF Configure, RecruiterRows
  <2> HIDE DEF new
  <2>2. CalendarTypeOK' /\ SetupInv'
    BY <1>1, <2>1, CalendarNulls DEF CalendarInv, CalendarTypeOK, SetupInv
  <2> QED BY <1>1, <2>1, <2>2, CalendarsStay
<1>4. ASSUME NEW next \in {"discover", "activate"}, StartsWith(next),
             next = "activate" => Cardinality(Defaults \cap Listable) = 1
      PROVE  CalendarInv'
  <2> DEFINE new == [next |-> next, held |-> None, target |-> None]
  <2>1. /\ new \in Setups /\ new.next = next /\ setup' = new /\ setup = None
        /\ recruiter' = recruiter /\ recruiter # None
    BY <1>4 DEF StartsWith, Inactive, Setups
  <2> HIDE DEF new
  <2>2. CalendarTypeOK' /\ SetupInv'
    BY <1>1, <2>1, CalendarNulls DEF CalendarInv, CalendarTypeOK, SetupInv
  <2> QED BY <1>1, <1>4, <2>1, <2>2, CalendarsStay
<1>5. CASE PreflightVerifies
  <2>1. recruiter \in RecruiterRows /\ recruiter' = [recruiter EXCEPT !.verified = TRUE] /\ setup' = None
        /\ setup # None /\ setup.next = "notion" /\ recruiter # None
    BY <1>5 DEF PreflightVerifies, CalendarInv, CalendarTypeOK, Inactive
  <2>2. recruiter' \in RecruiterRows /\ recruiter'.active = recruiter.active
    BY <2>1 DEF RecruiterRows
  <2>3. CalendarTypeOK'
    BY <1>1, <2>1, <2>2 DEF CalendarInv, CalendarTypeOK
  <2>4. SetupInv'
    BY <1>1, <2>1 DEF CalendarInv, SetupInv
  <2> QED BY <1>1, <2>1, <2>2, <2>3, <2>4, CalendarsStay
<1>6. CASE ActivateCommits
  <2>1. /\ setup # None /\ setup.next = "activate" /\ setup' = None
        /\ recruiter' = [recruiter EXCEPT !.active = TRUE] /\ recruiter \in RecruiterRows
    BY <1>6 DEF ActivateCommits, CalendarInv, CalendarTypeOK, SetupInv
  <2>2. recruiter' \in RecruiterRows
    BY <2>1 DEF RecruiterRows
  <2>3. CalendarTypeOK' /\ SetupInv'
    BY <1>1, <2>1, <2>2 DEF CalendarInv, CalendarTypeOK, SetupInv
  <2> QED BY <1>1, <2>1, <2>3, CalendarsStay
<1>7. CASE SetupFails
  <2>1. setup' = None /\ recruiter' = recruiter /\ discovery["setup"] = None
    BY <1>7 DEF SetupFails
  <2>2. CalendarTypeOK' /\ SetupInv'
    BY <1>1, <2>1 DEF CalendarInv, CalendarTypeOK, SetupInv
  <2> QED BY <1>1, <2>1, <2>2, CalendarsStay
<1>8. ASSUME NEW c \in Calendars, PreflightChooses(c) PROVE CalendarInv'
  <2>1. PICK held \in (IF Defaults = {} THEN {None} ELSE Defaults) :
          setup' = [setup EXCEPT !.next = "commit", !.held = held, !.target = c]
    BY <1>8 DEF PreflightChooses
  <2>2. /\ held \in Known \cup {None} /\ c \in Known
        /\ setup # None /\ setup \in Setups /\ setup.next = "choose" /\ recruiter' = recruiter
    BY <1>2, <1>8 DEF PreflightChooses, Listable, CalendarInv, CalendarTypeOK
  <2>3. setup' \in Setups /\ setup'.next = "commit" /\ setup'.held = held /\ setup'.target = c
    BY <1>2, <2>1, <2>2 DEF Setups
  <2>4. CalendarTypeOK'
    BY <1>1, <2>2, <2>3 DEF CalendarInv, CalendarTypeOK
  <2>5. SetupInv'
    BY <1>1, <1>2, <2>2, <2>3 DEF CalendarInv, SetupInv
  <2> QED BY <1>1, <2>2, <2>3, <2>4, <2>5, CalendarsStay
<1> QED BY <1>3, <1>4, <1>5, <1>6, <1>7, <1>8 DEF StartPreflight, StartActivate

LEMMA ScansCalendars ==
  ASSUME CalendarInv, CaldavChanges \/ ScanStarts \/ FindEvents \/ ScanFinishes \/ UNCHANGED calendarVars
  PROVE  CalendarInv'
<1>1. /\ calendar' = calendar /\ recruiter' = recruiter /\ discovery' = discovery /\ setup' = setup
      /\ Known' = Known
  BY DEF CaldavChanges, ScanStarts, FindEvents, ScanFinishes, calendarVars, Known
<1>2. listed' \subseteq Calendars /\ scan' \in {"idle", "refresh", "snapshot", "complete"}
  BY DEF CaldavChanges, ScanStarts, FindEvents, ScanFinishes, calendarVars, CalendarInv, CalendarTypeOK
<1>3. CalendarTypeOK' /\ SetupInv'
  BY <1>1, <1>2 DEF CalendarInv, CalendarTypeOK, SetupInv
<1> QED BY <1>1, <1>3, CalendarsStay

LEMMA CalendarSteps == CalendarInv /\ [CalendarNext]_calendarVars => CalendarInv'
BY DiscoversCalendars, CommitsDiscovery, SelectsCalendars, SetsDefault, PreflightMoves, CommandsMove,
   ScansCalendars DEF CalendarNext

LEMMA CalendarStarts == CalendarInit => CalendarInv
<1> SUFFICES ASSUME CalendarInit PROVE CalendarInv
  OBVIOUS
<1>1. Defaults = {}
  BY DEF CalendarInit, Defaults, Known
<1>2. recruiter = None \/ (recruiter \in RecruiterRows /\ ~recruiter.active)
  BY DEF CalendarInit, RecruiterRows
<1>3. DefaultInv
  BY <1>1, <1>2, FS_EmptySet DEF DefaultInv, CalendarInit
<1>4. SetupInv
  BY DEF CalendarInit, SetupInv, Clients
<1>5. CalendarTypeOK
  BY <1>2 DEF CalendarInit, CalendarTypeOK
<1> QED BY <1>3, <1>4, <1>5 DEF CalendarInv

THEOREM CalendarInvariant == CalendarSpec => []CalendarInv
BY CalendarStarts, CalendarSteps, PTL DEF CalendarSpec

(* Rows, discoveries and commands keep their shape.                        *)
THEOREM CalendarsTypeCorrect == CalendarSpec => []CalendarTypeOK
<1>1. CalendarInv => CalendarTypeOK
  BY DEF CalendarInv
<1> QED BY CalendarInvariant, <1>1, PTL

(* An active recruiter has exactly one default calendar, whatever the      *)
(* commands, endpoints and scans do to any number of calendars.            *)
THEOREM ActiveRecruitersHaveDefaults == CalendarSpec => []ActiveHasDefault
<1>1. CalendarInv => ActiveHasDefault
  <2> SUFFICES ASSUME CalendarInv, recruiter # None, recruiter.active
               PROVE  Cardinality(Defaults) = 1
    BY DEF ActiveHasDefault
  <2>1. /\ IsFiniteSet(Defaults) /\ Cardinality(Defaults) <= 1 /\ Defaults # {}
    BY DEF CalendarInv, DefaultInv
  <2>2. Cardinality(Defaults) \in Nat /\ Cardinality(Defaults) # 0
    BY <2>1, FS_CardinalityType, FS_EmptySet
  <2> QED BY <2>1, <2>2
<1> QED BY CalendarInvariant, <1>1, PTL
-----------------------------------------------------------------------------
(* Matching.                                                               *)

(* Until an event and a card are chosen there is none; what is chosen is   *)
(* unambiguous.                                                            *)
MatchInv ==
  /\ MatchingTypeOK /\ AutomaticIsUnambiguous
  /\ found.status = "found" => found.event = None
  /\ found.status = "calendar_event_found" => found.event \in Events
  /\ found.status \in {"found", "calendar_event_found"} => page = None

LEMMA MatchNulls == None \notin EventReasons /\ None \notin Events /\ None \notin Nat
BY NoneIsNoMatch

LEMMA LeastNumber ==
  ASSUME NEW T \in SUBSET Nat, T # {}
  PROVE  \E x \in T : \A y \in T : x <= y
<1>1. PICK x \in T : \A y \in T : ~(<<y, x>> \in OpToRel(<, Nat))
  BY WFMin, NatLessThanWellFounded
<1>2. \A y \in T : ~(y < x)
  BY <1>1 DEF OpToRel
<1> QED BY <1>2

(* Every compatible event is in the pool, or an event of its key before it. *)
LEMMA PoolCovers ==
  ASSUME snapshot \in Seq(Events), NEW n \in DOMAIN snapshot, Compatible(snapshot[n])
  PROVE  \E e \in Pool(snapshot) : SameKey(e, snapshot[n])
<1> DEFINE T == {i \in DOMAIN snapshot : Compatible(snapshot[i]) /\ SameKey(snapshot[i], snapshot[n])}
<1>1. T \in SUBSET Nat /\ n \in T
  BY DEF SameKey
<1>2. PICK i \in T : \A j \in T : i <= j
  BY <1>1, LeastNumber
<1>3. /\ i \in DOMAIN snapshot /\ Compatible(snapshot[i]) /\ SameKey(snapshot[i], snapshot[n])
  BY <1>2
<1>4. ASSUME NEW j \in 1..(i - 1), Compatible(snapshot[j]), SameKey(snapshot[j], snapshot[i])
      PROVE  FALSE
  <2>1. j \in DOMAIN snapshot /\ j < i
    BY <1>3
  <2>2. SameKey(snapshot[j], snapshot[n])
    BY <1>3, <1>4 DEF SameKey
  <2>3. j \in T /\ j \in Nat /\ i \in Nat
    BY <1>1, <1>4, <2>1, <2>2
  <2>4. i <= j
    BY <1>2, <2>3
  <2> QED BY <2>1, <2>3, <2>4
<1>5. snapshot[i] \in Pool(snapshot)
  BY <1>3, <1>4 DEF Pool
<1> QED BY <1>3, <1>5

LEMMA PoolType ==
  ASSUME snapshot \in Seq(Events)
  PROVE  /\ Pool(snapshot) \subseteq Events /\ \A e \in Pool(snapshot) : Compatible(e)
         /\ IsFiniteSet(Pool(snapshot))
<1> DEFINE R == {snapshot[n] : n \in DOMAIN snapshot}
           f == [n \in DOMAIN snapshot |-> snapshot[n]]
<1>1. DOMAIN snapshot = 1..Len(snapshot) /\ Len(snapshot) \in Nat
  OBVIOUS
<1>2. IsFiniteSet(DOMAIN snapshot)
  BY <1>1, FS_Interval
<1>3. f \in Surjection(DOMAIN snapshot, R)
  BY DEF Surjection
<1>4. IsFiniteSet(R)
  BY <1>2, <1>3, FS_Surjection
<1>5. Pool(snapshot) \subseteq R
  BY DEF Pool
<1>6. IsFiniteSet(Pool(snapshot))
  BY <1>4, <1>5, FS_Subset
<1>7. \A e \in Pool(snapshot) : e \in Events /\ Compatible(e)
  BY DEF Pool
<1> QED BY <1>6, <1>7

(* Without a reason to ask, the pool is one event with a sufficient score. *)
LEMMA ReasonSays ==
  ASSUME NEW pool, pool \subseteq Events, IsFiniteSet(pool)
  PROVE  /\ EventReason(pool) \in EventReasons \cup {None}
         /\ EventReason(pool) = None =>
              \E e \in pool : pool = {e} /\ FromMonitored(e) /\ Score(e) >= ConfidenceThreshold
<1> DEFINE eligible == {e \in pool : FromMonitored(e)}
<1>1. eligible \subseteq pool /\ IsFiniteSet(eligible) /\ Cardinality(eligible) \in Nat
  BY FS_Subset, FS_CardinalityType
<1>2. Cardinality(eligible) = 0 => eligible = {}
  BY <1>1, FS_EmptySet
<1>3. Cardinality(eligible) = 1 => \E e \in eligible : eligible = {e}
  BY <1>1, FS_Singleton
<1>4. None # "no_compatible_event" /\ None # "unmonitored_only" /\ None # "multiple_eligible_events"
      /\ None # "unmonitored_collision" /\ None # "low_confidence"
  BY MatchNulls DEF EventReasons
<1>5. EventReason(pool) =
        CASE pool = {}                  -> "no_compatible_event"
          [] pool # {} /\ eligible = {} -> "unmonitored_only"
          [] Cardinality(eligible) > 1  -> "multiple_eligible_events"
          [] Cardinality(eligible) = 1 /\ eligible # pool -> "unmonitored_collision"
          [] \E e \in pool : pool = {e} /\ FromMonitored(e) ->
               IF \E e \in pool : Score(e) < ConfidenceThreshold THEN "low_confidence" ELSE None
  BY DEF EventReason
<1>6. CASE Cardinality(eligible) = 1 /\ eligible = pool
  <2>1. PICK e \in pool : pool = {e} /\ FromMonitored(e)
    BY <1>3, <1>6
  <2>2. Score(e) \in Int /\ ConfidenceThreshold \in Int
    BY DEF Score, ConfidenceThreshold, Events
  <2>3. eligible # {} /\ pool # {} /\ ~(Cardinality(eligible) > 1)
    BY <1>6, <2>1
  <2>4. EventReason(pool) =
          IF \E x \in pool : Score(x) < ConfidenceThreshold THEN "low_confidence" ELSE None
    <3> HIDE DEF eligible
    <3> QED BY <1>5, <1>6, <2>1, <2>3
  <2>5. EventReason(pool) \in EventReasons \cup {None}
    BY <2>4 DEF EventReasons
  <2>6. EventReason(pool) = None => ~(\E x \in pool : Score(x) < ConfidenceThreshold)
    BY <1>4, <2>4
  <2> QED BY <2>1, <2>2, <2>5, <2>6
<1>7. CASE ~(Cardinality(eligible) = 1 /\ eligible = pool)
  <2>1. ~\E e \in pool : pool = {e} /\ FromMonitored(e)
    <3>1. ASSUME NEW e \in pool, pool = {e}, FromMonitored(e) PROVE FALSE
      <4>1. eligible = {e}
        BY <3>1
      <4> QED BY <1>7, <3>1, <4>1, FS_Singleton
    <3> QED BY <3>1
  <2>2. \/ pool = {}
        \/ pool # {} /\ eligible = {}
        \/ Cardinality(eligible) > 1
        \/ Cardinality(eligible) = 1 /\ eligible # pool
    <3> HIDE DEF eligible
    <3> QED BY <1>1, <1>2, <1>7
  <2>3. eligible = {} => ~(Cardinality(eligible) > 1) /\ Cardinality(eligible) # 1
    <3>1. eligible = {} => Cardinality(eligible) = 0
      BY FS_EmptySet
    <3> HIDE DEF eligible
    <3> QED BY <3>1
  <2>4. pool = {} => eligible = {}
    OBVIOUS
  <2> HIDE DEF eligible
  <2>5. EventReason(pool) \in {"no_compatible_event", "unmonitored_only", "multiple_eligible_events",
                               "unmonitored_collision"}
    BY <1>1, <1>5, <2>1, <2>2, <2>3, <2>4
  <2>6. EventReason(pool) \in EventReasons
    BY <2>5 DEF EventReasons
  <2> QED BY <2>6, MatchNulls
<1> QED BY <1>6, <1>7

LEMMA MatchesEvent ==
  ASSUME MatchInv, MatchEvent
  PROVE  MatchInv'
<1> DEFINE pool == Pool(snapshot)
           event == CHOOSE e \in pool : TRUE
<1>1. /\ snapshot \in Seq(Events) /\ found.status = "found" /\ found.event = None /\ page = None
      /\ snapshot' = snapshot /\ cards' = cards /\ page' = page /\ filename' = filename
      /\ MatchingTypeOK
  BY DEF MatchInv, MatchingTypeOK, MatchEvent
<1>2. /\ pool \subseteq Events /\ IsFiniteSet(pool)
      /\ \A e \in pool : Compatible(e)
  BY <1>1, PoolType
<1>3. CASE EventReason(pool) # None
  <2>1. found' = Review(EventReason(pool))
    BY <1>3 DEF MatchEvent
  <2>2. EventReason(pool) \in EventReasons
    BY <1>2, <1>3, ReasonSays
  <2>3. /\ found'.status = "manual_review_required" /\ found'.event = None
        /\ found' \in Matches
    BY <2>1, <2>2 DEF Review, Matches
  <2>4. MatchingTypeOK'
    BY <1>1, <2>3 DEF MatchingTypeOK
  <2> QED BY <1>1, <2>3, <2>4 DEF MatchInv, AutomaticIsUnambiguous
<1>4. CASE EventReason(pool) = None
  <2>1. found' = [status |-> "calendar_event_found", reason |-> None, event |-> event]
    BY <1>4 DEF MatchEvent
  <2>2. PICK e \in pool : pool = {e} /\ FromMonitored(e) /\ Score(e) >= ConfidenceThreshold
    BY <1>2, <1>4, ReasonSays
  <2>3. event = e /\ e \in Events /\ Compatible(e)
    BY <1>2, <2>2
  <2>4. \A n \in DOMAIN snapshot : snapshot[n].fits # "no" =>
          snapshot[n].calendar = e.calendar /\ snapshot[n].meeting = e.meeting
    <3>1. ASSUME NEW n \in DOMAIN snapshot, snapshot[n].fits # "no" PROVE SameKey(e, snapshot[n])
      BY <1>1, <2>2, <3>1, PoolCovers DEF Compatible
    <3> QED BY <3>1 DEF SameKey
  <2>5. IF e.fits = "booking" THEN e.name \/ e.marks > 0 ELSE e.name /\ e.marks = 2
    <3>1. e.name \in BOOLEAN /\ e.marks \in 0..2 /\ e.fits \in {"title", "booking"}
      BY <2>3 DEF Events, Compatible
    <3> QED BY <2>2, <3>1 DEF Score, ConfidenceThreshold
  <2> HIDE DEF pool, event
  <2>6. /\ found' \in Matches /\ found'.event = e /\ found'.status = "calendar_event_found"
    BY <2>1, <2>3 DEF Matches
  <2>7. MatchingTypeOK'
    BY <1>1, <2>6 DEF MatchingTypeOK
  <2>8. AutomaticIsUnambiguous'
    BY <1>1, <2>2, <2>4, <2>5, <2>6 DEF AutomaticIsUnambiguous, FromMonitored
  <2> QED BY <1>1, <2>3, <2>6, <2>7, <2>8 DEF MatchInv
<1> QED BY <1>3, <1>4

(* A card that needs no question is the only one, or the only one with the *)
(* address.                                                                *)
LEMMA DecidedIsOne ==
  ASSUME NEW i \in DOMAIN cards', Decided(i)
  PROVE  \A j \in DOMAIN cards' \ {i} : cards'[i].email /\ ~cards'[j].email
<1>1. Asked = {i}
  BY DEF Decided
<1>2. CASE Cardinality(ByEmail) = 1
  <2>1. ByEmail = {i}
    BY <1>1, <1>2 DEF Asked
  <2> QED BY <2>1 DEF ByEmail
<1>3. CASE Cardinality(ByEmail) # 1
  <2>1. DOMAIN cards' = {i}
    BY <1>1, <1>3 DEF Asked
  <2> QED BY <2>1
<1> QED BY <1>2, <1>3

LEMMA AnswersCards ==
  ASSUME MatchInv, CardsAnswered
  PROVE  MatchInv'
<1>1. /\ found.status = "calendar_event_found" /\ found \in Matches /\ found.event \in Events
      /\ page = None /\ filename' = filename /\ snapshot' = snapshot /\ snapshot \in Seq(Events)
      /\ MatchingTypeOK
  BY DEF CardsAnswered, MatchInv, MatchingTypeOK
<1>2. cards' \in Seq(Cards) /\ Len(cards') <= MaxCards /\ DOMAIN cards' \subseteq Nat
  <2>1. PICK n \in 0..MaxCards : cards' \in [1..n -> Cards]
    BY DEF CardsAnswered
  <2>2. n \in Nat /\ n <= MaxCards
    BY <2>1, MatchingAssumption
  <2>3. cards' \in Seq(Cards) /\ Len(cards') = n
    BY <2>1, <2>2
  <2> QED BY <2>2, <2>3
<1>3. CASE \E i \in DOMAIN cards' :
             /\ Decided(i) /\ page' = i /\ found' = [found EXCEPT !.status = "candidate_matched"]
  <2>1. PICK i \in DOMAIN cards' :
          /\ Decided(i) /\ page' = i /\ found' = [found EXCEPT !.status = "candidate_matched"]
    BY <1>3
  <2>2. /\ found' \in Matches /\ found'.event = found.event /\ found'.status = "candidate_matched"
    BY <1>1, <2>1 DEF Matches
  <2>3. MatchingTypeOK'
    BY <1>1, <1>2, <2>1, <2>2 DEF MatchingTypeOK
  <2>4. AutomaticIsUnambiguous'
    BY <1>1, <2>1, <2>2, DecidedIsOne DEF MatchInv, AutomaticIsUnambiguous
  <2> QED BY <2>2, <2>3, <2>4 DEF MatchInv
<1>4. ASSUME NEW reason \in CardReasons, found' = Review(reason), page' = page
      PROVE  MatchInv'
  <2>1. /\ found'.event = None /\ found'.status = "manual_review_required" /\ found' \in Matches
    BY <1>4 DEF Review, Matches
  <2>2. MatchingTypeOK'
    BY <1>1, <1>2, <1>4, <2>1 DEF MatchingTypeOK
  <2> QED BY <1>1, <1>4, <2>1, <2>2 DEF MatchInv, AutomaticIsUnambiguous
<1>5. CASE found' = Review("invalid_selected_spot_identity") /\ page' = page
  <2>1. "invalid_selected_spot_identity" \in CardReasons
    BY DEF CardReasons
  <2> QED BY <1>4, <1>5, <2>1
<1>6. CASE found' = Review(CardReason) /\ page' = page
  <2>1. found.event.name \in BOOLEAN
    BY <1>1 DEF Events
  <2>2. CardReason \in CardReasons
    BY <2>1 DEF CardReason, CardReasons
  <2> QED BY <1>4, <1>6, <2>2
<1> QED BY <1>3, <1>5, <1>6 DEF CardsAnswered

LEMMA MatchSteps == MatchInv /\ [MatchingNext]_matchVars => MatchInv'
<1> SUFFICES ASSUME MatchInv, [MatchingNext]_matchVars PROVE MatchInv'
  OBVIOUS
<1>1. /\ snapshot \in Seq(Events) /\ Len(snapshot) <= MaxEvents /\ found \in Matches
  BY DEF MatchInv, MatchingTypeOK
<1>2. CASE EventReported
  <2>1. PICK e \in Events : snapshot' = Append(snapshot, e)
    BY <1>2 DEF EventReported
  <2>2. snapshot' \in Seq(Events) /\ Len(snapshot') = Len(snapshot) + 1
    BY <1>1, <2>1
  <2>3. Len(snapshot) < MaxEvents /\ MaxEvents \in Nat /\ Len(snapshot) \in Nat
    BY <1>1, <1>2, MatchingAssumption DEF EventReported
  <2>4. /\ filename' = filename /\ found' = found /\ cards' = cards /\ page' = page
        /\ found.status = "found" /\ found.event = None /\ page = None
    BY <1>2 DEF EventReported, MatchInv
  <2>5. MatchingTypeOK'
    BY <2>2, <2>3, <2>4 DEF MatchInv, MatchingTypeOK
  <2> QED BY <2>4, <2>5 DEF MatchInv, AutomaticIsUnambiguous
<1>3. CASE SnapshotIncomplete
  <2>1. /\ filename' = filename /\ found' = found /\ cards' = cards /\ page' = page
        /\ found.status = "found" /\ found.event = None /\ page = None /\ snapshot' = <<>>
    BY <1>3 DEF SnapshotIncomplete, MatchInv
  <2>2. snapshot' \in Seq(Events) /\ Len(snapshot') = 0
    BY <2>1
  <2>3. MatchingTypeOK'
    BY <2>1, <2>2, MatchingAssumption DEF MatchInv, MatchingTypeOK
  <2> QED BY <2>1, <2>3 DEF MatchInv, AutomaticIsUnambiguous
<1>4. CASE NotMatched
  <2>1. /\ filename' = filename /\ snapshot' = snapshot /\ cards' = cards /\ page' = page
        /\ found.status = "found" /\ found.event = None /\ page = None
    BY <1>4 DEF NotMatched, MatchInv
  <2>2. /\ found' \in Matches /\ found'.event = None
        /\ found'.status \in {"manual_review_required", "failed"}
    BY <1>1, <1>4, <2>1 DEF NotMatched, Review, Matches, EventReasons
  <2>3. MatchingTypeOK'
    BY <2>1, <2>2 DEF MatchInv, MatchingTypeOK
  <2> QED BY <2>1, <2>2, <2>3 DEF MatchInv, AutomaticIsUnambiguous
<1>5. CASE CardsFail
  <2>1. /\ filename' = filename /\ snapshot' = snapshot /\ cards' = cards /\ page' = page
        /\ found' = [found EXCEPT !.status = "failed"]
    BY <1>5 DEF CardsFail
  <2>2. /\ found' \in Matches /\ found'.event = found.event /\ found'.status = "failed"
    BY <1>1, <2>1 DEF Matches
  <2>3. MatchingTypeOK'
    BY <2>1, <2>2 DEF MatchInv, MatchingTypeOK
  <2>4. AutomaticIsUnambiguous'
    BY <2>1, <2>2 DEF MatchInv, AutomaticIsUnambiguous
  <2> QED BY <2>2, <2>3, <2>4 DEF MatchInv
<1>6. CASE UNCHANGED matchVars
  <2>1. /\ filename' = filename /\ snapshot' = snapshot /\ cards' = cards /\ page' = page
        /\ found' = found
    BY <1>6 DEF matchVars
  <2> QED BY <2>1 DEF MatchInv, MatchingTypeOK, AutomaticIsUnambiguous
<1> QED BY <1>2, <1>3, <1>4, <1>5, <1>6, MatchesEvent, AnswersCards DEF MatchingNext

LEMMA MatchStarts == MatchingInit => MatchInv
<1> SUFFICES ASSUME MatchingInit PROVE MatchInv
  OBVIOUS
<1>1. /\ filename \in BOOLEAN /\ snapshot = <<>> /\ cards = <<>> /\ page = None
      /\ found.status = "found" /\ found.event = None /\ found \in Matches
  BY DEF MatchingInit, Matches
<1>2. /\ snapshot \in Seq(Events) /\ cards \in Seq(Cards) /\ Len(snapshot) = 0 /\ Len(cards) = 0
  BY <1>1
<1>3. MatchingTypeOK
  BY <1>1, <1>2, MatchingAssumption DEF MatchingTypeOK
<1> QED BY <1>1, <1>3 DEF MatchInv, AutomaticIsUnambiguous

THEOREM MatchInvariant == MatchingSpec => []MatchInv
BY MatchStarts, MatchSteps, PTL DEF MatchingSpec

(* Snapshots, cards and the recording keep their shape.                    *)
THEOREM MatchingTypeCorrect == MatchingSpec => []MatchingTypeOK
<1>1. MatchInv => MatchingTypeOK
  BY DEF MatchInv
<1> QED BY MatchInvariant, <1>1, PTL

(* In no snapshot of any calendars, and of no cards, is one chosen without *)
(* asking where there was something to ask.                                *)
THEOREM AutomaticMatchesAreUnambiguous == MatchingSpec => []AutomaticIsUnambiguous
<1>1. MatchInv => AutomaticIsUnambiguous
  BY DEF MatchInv
<1> QED BY MatchInvariant, <1>1, PTL
-----------------------------------------------------------------------------
(* NotionSources.                                                          *)

(* A cache of the right size without a key twice.                          *)
IsCache(cache) ==
  /\ cache \in Seq(Entries) /\ Len(cache) <= SourceCacheSize
  /\ \A m, n \in DOMAIN cache : cache[m].key = cache[n].key => m = n

(* A task in _inflight exists, someone waits for it, and no other has its  *)
(* key.                                                                    *)
InflightInv ==
  /\ inflight \in Seq(LookupIds) /\ Len(inflight) <= SourceCacheSize
  /\ \A n \in DOMAIN inflight :
       /\ lookup[inflight[n]] # None
       /\ \E s \in Searchers :
            search[s] # None /\ search[s].next = "await" /\ search[s].task = inflight[n]
  /\ \A m, n \in DOMAIN inflight :
       lookup[inflight[m]].key = lookup[inflight[n]].key => m = n

LookupInv ==
  /\ lookup \in [LookupIds -> Lookups \cup {None}]
  /\ \A i \in LookupIds :
       lookup[i] # None /\ lookup[i].state = "done" => lookup[i].id \in SourceIds

(* What a request waits for exists as long as it waits.                    *)
Waits(req) ==
  /\ req.next \in {"await", "capacity"} => req.task \in LookupIds
  /\ req.next = "await" => lookup[req.task] # None
  /\ req.next = "query" => req.id \in SourceIds

SearchInv ==
  /\ search \in [Searchers -> Searches \cup {None}]
  /\ \A s \in Searchers : search[s] # None => Waits(search[s])

SourcesInv ==
  /\ source \in SourceIds
  /\ IsCache(sources) /\ InflightInv /\ LookupInv /\ SearchInv
-----------------------------------------------------------------------------
(* The entries of t come from different places in seq, at N none.          *)
Taken(t, seq, N) ==
  \E at \in [DOMAIN t -> DOMAIN seq \ N] :
    /\ \A m \in DOMAIN t : t[m] = seq[at[m]]
    /\ \A m, k \in DOMAIN t : at[k] = at[m] => k = m

LEMMA WithoutPlaces ==
  ASSUME NEW S, NEW seq \in Seq(S), NEW N \in SUBSET DOMAIN seq,
         \A m, n \in N : m = n
  PROVE  /\ Without(seq, N) \in Seq(S)
         /\ Len(Without(seq, N)) <= Len(seq)
         /\ N # {} => Len(Without(seq, N)) = Len(seq) - 1
         /\ Taken(Without(seq, N), seq, N)
<1>1. DOMAIN seq = 1..Len(seq) /\ Len(seq) \in Nat
  OBVIOUS
<1>2. CASE N = {}
  <2>1. Without(seq, N) = seq
    BY <1>2 DEF Without
  <2>2. [m \in DOMAIN seq |-> m] \in [DOMAIN seq -> DOMAIN seq \ N]
    BY <1>2
  <2>3. Taken(seq, seq, N)
    BY <1>2, <2>2 DEF Taken
  <2> QED BY <1>1, <1>2, <2>1, <2>3
<1>3. CASE N # {}
  <2> DEFINE n == CHOOSE m \in N : TRUE
             left == SubSeq(seq, 1, n - 1)
             right == SubSeq(seq, n + 1, Len(seq))
             t == left \o right
             at == [m \in 1..(Len(seq) - 1) |-> IF m < n THEN m ELSE m + 1]
  <2>1. n \in N /\ n \in 1..Len(seq) /\ N = {n}
    BY <1>1, <1>3
  <2>2. Without(seq, N) = t
    BY <1>3 DEF Without
  <2> HIDE DEF n
  <2>3. left \in Seq(S) /\ Len(left) = n - 1 /\ \A m \in 1..(n - 1) : left[m] = seq[m]
    BY <1>1, <2>1
  <2>4. right \in Seq(S) /\ Len(right) = Len(seq) - n
          /\ \A m \in 1..(Len(seq) - n) : right[m] = seq[m + n]
    BY <1>1, <2>1
  <2> HIDE DEF left, right
  <2>9. t \in Seq(S) /\ Len(t) = Len(left) + Len(right)
    BY <2>3, <2>4
  <2>5. t \in Seq(S) /\ Len(t) = Len(seq) - 1 /\ DOMAIN t = 1..(Len(seq) - 1)
    <3>1. Len(t) = Len(seq) - 1
      BY <1>1, <2>1, <2>3, <2>4, <2>9
    <3>2. DOMAIN t = 1..Len(t)
      BY <2>9
    <3> QED BY <2>9, <3>1, <3>2
  <2>6. \A m \in 1..(Len(seq) - 1) : t[m] = seq[at[m]]
    <3> TAKE m \in 1..(Len(seq) - 1)
    <3>1. CASE m < n
      BY <1>1, <2>1, <2>3, <2>4, <3>1
    <3>2. CASE ~(m < n)
      <4>1. t[m] = right[m - (n - 1)]
        BY <1>1, <2>1, <2>3, <2>4, <3>2
      <4>2. m - (n - 1) \in 1..(Len(seq) - n)
        BY <1>1, <2>1, <3>2
      <4>3. right[m - (n - 1)] = seq[(m - (n - 1)) + n]
        BY <2>4, <4>2
      <4>4. (m - (n - 1)) + n = m + 1 /\ at[m] = m + 1
        BY <1>1, <2>1, <3>2
      <4> QED BY <4>1, <4>3, <4>4
    <3> QED BY <3>1, <3>2
  <2>7. at \in [1..(Len(seq) - 1) -> DOMAIN seq \ N]
    BY <1>1, <2>1
  <2>8. \A m, k \in 1..(Len(seq) - 1) : at[k] = at[m] => k = m
    BY <1>1, <2>1
  <2> HIDE DEF t, at
  <2>10. Taken(t, seq, N)
    BY <2>5, <2>6, <2>7, <2>8 DEF Taken
  <2> QED BY <1>1, <2>2, <2>5, <2>10
<1> QED BY <1>2, <1>3

LEMMA UsedIsCache ==
  ASSUME NEW cache, IsCache(cache), NEW n \in DOMAIN cache
  PROVE  IsCache(Used(cache, n))
<1> DEFINE t == Without(cache, {n})
<1>1. cache \in Seq(Entries) /\ cache[n] \in Entries /\ Len(cache) \in Nat
        /\ SourceCacheSize \in Nat
  BY SourcesAssumption DEF IsCache
<1>2. t \in Seq(Entries) /\ Len(t) = Len(cache) - 1
  BY <1>1, WithoutPlaces
<1>3. Taken(t, cache, {n})
  BY <1>1, WithoutPlaces
<1> HIDE DEF t
<1>4. Append(t, cache[n]) \in Seq(Entries) /\ Len(Append(t, cache[n])) = Len(cache)
  BY <1>1, <1>2
<1>5. ASSUME NEW k \in DOMAIN Append(t, cache[n])
      PROVE  \/ k \in DOMAIN t /\ Append(t, cache[n])[k] = t[k]
             \/ k = Len(cache) /\ k \notin DOMAIN t /\ Append(t, cache[n])[k] = cache[n]
  BY <1>1, <1>2
<1>6. \A k, m \in DOMAIN t : t[k].key = t[m].key => k = m
  BY <1>3 DEF IsCache, Taken
<1>7. \A k \in DOMAIN t : t[k].key # cache[n].key
  BY <1>3 DEF IsCache, Taken
<1>8. Len(Append(t, cache[n])) <= SourceCacheSize
  BY <1>4 DEF IsCache
<1>9. \A k, m \in DOMAIN Append(t, cache[n]) :
        Append(t, cache[n])[k].key = Append(t, cache[n])[m].key => k = m
  BY <1>5, <1>6, <1>7
<1> QED BY <1>4, <1>8, <1>9 DEF IsCache, Used, t

LEMMA StoredIsCache ==
  ASSUME NEW cache, IsCache(cache), NEW e \in Entries
  PROVE  IsCache(Stored(cache, e))
<1> DEFINE old == {n \in DOMAIN cache : cache[n].key = e.key}
           t == Without(cache, old)
           all == Append(t, e)
<1>1. cache \in Seq(Entries) /\ Len(cache) \in Nat /\ SourceCacheSize \in Nat \ {0}
        /\ Len(cache) <= SourceCacheSize
  BY SourcesAssumption DEF IsCache
<1>2. old \in SUBSET DOMAIN cache /\ \A m, n \in old : m = n
  BY DEF IsCache
<1>3. t \in Seq(Entries) /\ Len(t) <= Len(cache)
  BY <1>1, <1>2, WithoutPlaces
<1>4. Taken(t, cache, old)
  BY <1>1, <1>2, WithoutPlaces
<1>5. \A k, m \in DOMAIN t : t[k].key = t[m].key => k = m
  <2> HIDE DEF old, t
  <2> QED BY <1>4 DEF IsCache, Taken
<1>6. \A k \in DOMAIN t : t[k].key # e.key
  <2> SUFFICES ASSUME NEW k \in DOMAIN t PROVE t[k].key # e.key
    OBVIOUS
  <2> HIDE DEF t
  <2>1. PICK n \in DOMAIN cache \ old : t[k] = cache[n]
    BY <1>4 DEF Taken
  <2> QED BY <2>1
<1>10. Stored(cache, e) = IF Len(all) > SourceCacheSize THEN Tail(all) ELSE all
  BY DEF Stored
<1> HIDE DEF old, t
<1>7. all \in Seq(Entries) /\ Len(all) = Len(t) + 1 /\ DOMAIN t = 1..Len(t) /\ Len(t) \in Nat
  BY <1>3
<1>8. ASSUME NEW k \in DOMAIN all
      PROVE  \/ k \in DOMAIN t /\ all[k] = t[k]
             \/ k = Len(all) /\ k \notin DOMAIN t /\ all[k] = e
  BY <1>7
<1>9. \A k, m \in DOMAIN all : all[k].key = all[m].key => k = m
  BY <1>5, <1>6, <1>8
<1> HIDE DEF all
<1>11. CASE Len(all) > SourceCacheSize
  <2>1. Tail(all) \in Seq(Entries) /\ Len(Tail(all)) = Len(all) - 1
          /\ \A m \in DOMAIN Tail(all) : m + 1 \in DOMAIN all /\ Tail(all)[m] = all[m + 1]
    BY <1>1, <1>7, <1>11
  <2>2. \A k, m \in DOMAIN Tail(all) : Tail(all)[k].key = Tail(all)[m].key => k = m
    <3> TAKE k, m \in DOMAIN Tail(all)
    <3> HAVE Tail(all)[k].key = Tail(all)[m].key
    <3>1. k + 1 = m + 1
      BY <1>9, <2>1
    <3>2. k \in Nat /\ m \in Nat
      BY <2>1
    <3> QED BY <3>1, <3>2
  <2>3. Len(Tail(all)) <= SourceCacheSize
    BY <1>1, <1>3, <1>7, <2>1
  <2> QED BY <1>10, <1>11, <2>1, <2>2, <2>3 DEF IsCache
<1>12. CASE ~(Len(all) > SourceCacheSize)
  BY <1>1, <1>7, <1>9, <1>10, <1>12 DEF IsCache
<1> QED BY <1>11, <1>12

LEMMA InvalidatedIsCache ==
  ASSUME NEW cache, IsCache(cache), NEW e
  PROVE  IsCache(Invalidated(cache, e))
<1> DEFINE old == {n \in DOMAIN cache : cache[n] = e}
           t == Without(cache, old)
<1>1. cache \in Seq(Entries) /\ Len(cache) \in Nat /\ SourceCacheSize \in Nat
        /\ Len(cache) <= SourceCacheSize
  BY SourcesAssumption DEF IsCache
<1>2. old \in SUBSET DOMAIN cache /\ \A m, n \in old : m = n
  BY DEF IsCache
<1>3. t \in Seq(Entries) /\ Len(t) <= Len(cache)
  BY <1>1, <1>2, WithoutPlaces
<1>4. Taken(t, cache, old)
  BY <1>1, <1>2, WithoutPlaces
<1>6. Invalidated(cache, e) = t
  BY DEF Invalidated
<1> HIDE DEF old, t
<1>5. \A k, m \in DOMAIN t : t[k].key = t[m].key => k = m
  BY <1>4 DEF IsCache, Taken
<1>7. Len(t) <= SourceCacheSize
  BY <1>1, <1>3
<1> QED BY <1>3, <1>5, <1>6, <1>7 DEF IsCache
-----------------------------------------------------------------------------
(* A request that waits for no task goes on as new says.                   *)
LEMMA SearcherMoves ==
  ASSUME InflightInv, LookupInv, SearchInv, UNCHANGED <<inflight, lookup>>,
         NEW s \in Searchers, search[s] = None \/ search[s].next # "await",
         NEW new \in Searches \cup {None}, new # None => Waits(new),
         search' = [search EXCEPT ![s] = new]
  PROVE  InflightInv' /\ LookupInv' /\ SearchInv'
<1>1. search' \in [Searchers -> Searches \cup {None}] /\ search'[s] = new
        /\ \A u \in Searchers \ {s} : search'[u] = search[u]
  BY DEF SearchInv
<1>2. SearchInv'
  <2> SUFFICES ASSUME NEW u \in Searchers, search'[u] # None PROVE Waits(search[u])'
    BY <1>1 DEF SearchInv
  <2>1. Waits(search'[u])
    BY <1>1 DEF SearchInv
  <2> QED BY <2>1 DEF Waits
<1>3. \A u \in Searchers :
        search[u] # None /\ search[u].next = "await" => u # s /\ search'[u] = search[u]
  BY <1>1
<1>4. \A n \in DOMAIN inflight : \E u \in Searchers :
        search'[u] # None /\ search'[u].next = "await" /\ search'[u].task = inflight[n]
  BY <1>3 DEF InflightInv
<1>5. InflightInv'
  BY <1>4 DEF InflightInv
<1> QED BY <1>2, <1>5 DEF LookupInv

(* What another request names is not free, and one number always is.       *)
LEMMA FreeTask ==
  ASSUME SearchInv, NEW s \in Searchers
  PROVE  LookupIds \ Referred(s) # {}
<1> DEFINE others == Searchers \ {s}
           N == Cardinality(Searchers)
<1>1. IsFiniteSet(Searchers) /\ N \in Nat /\ IsFiniteSet(others) /\ Cardinality(others) = N - 1
        /\ N > 0
  BY SourcesAssumption, FS_RemoveElement, FS_CardinalityType, FS_EmptySet
<1>2. IsFiniteSet(LookupIds) /\ Cardinality(LookupIds) = N
  BY <1>1, FS_Interval DEF LookupIds
<1> SUFFICES ASSUME LookupIds \subseteq Referred(s) PROVE FALSE
  OBVIOUS
<1> DEFINE of == [i \in LookupIds |->
                    CHOOSE t \in others : search[t] # None /\ search[t].task = i]
<1>3. \A i \in LookupIds : of[i] \in others /\ search[of[i]].task = i
  <2> TAKE i \in LookupIds
  <2>1. \E t \in others : search[t] # None /\ search[t].task = i
    BY DEF Referred
  <2> QED BY <2>1
<1> HIDE DEF of, others, N
<1>4. of \in [LookupIds -> others]
  BY <1>3 DEF of
<1>5. PICK i, j \in LookupIds : i # j /\ of[i] = of[j]
  BY <1>1, <1>2, <1>4, FS_PigeonHole
<1> QED BY <1>3, <1>5

(* The fields of a request are in their ranges.                            *)
LEMMA SearchFields ==
  ASSUME NEW req \in Searches
  PROVE  /\ req.key \in SourceKeys /\ req.kind \in {"search", "propose"}
         /\ req.next \in {"await", "capacity", "query"} /\ req.again \in BOOLEAN
         /\ req # None
  BY NoneIsNoSearch DEF Searches

LEMMA ResolveOK ==
  ASSUME SourcesInv, source' = source,
         NEW s \in Searchers, search[s] = None \/ search[s].next # "await",
         NEW req, req.key \in SourceKeys, req.kind \in {"search", "propose"}, req.again \in BOOLEAN,
         NEW cache, IsCache(cache), ResolveSource(s, req, cache)
  PROVE  SourcesInv'
<1> USE DEF SourcesInv
<1> DEFINE new(next, task, id, retry) ==
      [key |-> req.key, kind |-> req.kind, next |-> next, task |-> task, id |-> id,
       again |-> req.again, retry |-> retry]
    hits == {n \in DOMAIN cache : cache[n].key = req.key}
    once == (req.kind = "search" /\ ~req.again)
<1>1. CASE \E n \in hits : /\ sources' = Used(cache, n)
                           /\ search' = [search EXCEPT ![s] = new("query", None, cache[n].id, once)]
                           /\ UNCHANGED <<inflight, lookup>>
  <2>1. PICK n \in hits : /\ sources' = Used(cache, n)
                          /\ search' = [search EXCEPT ![s] = new("query", None, cache[n].id, once)]
                          /\ UNCHANGED <<inflight, lookup>>
    BY <1>1
  <2>2. cache[n].id \in SourceIds
    <3> HIDE DEF SourcesInv, new, once
    <3>1. cache \in Seq(Entries) /\ n \in DOMAIN cache
      BY <2>1 DEF IsCache
    <3>2. cache[n] \in Entries
      BY <3>1
    <3> QED BY <3>2 DEF Entries
  <2>3. once \in BOOLEAN
    OBVIOUS
  <2> DEFINE to == new("query", None, cache[n].id, once)
  <2> HIDE DEF once
  <2>4. to \in Searches /\ Waits(to)
    BY <2>2, <2>3 DEF Searches, Waits
  <2>5. search' = [search EXCEPT ![s] = to]
    BY <2>1
  <2> HIDE DEF to
  <2>6. InflightInv' /\ LookupInv' /\ SearchInv'
    BY <2>1, <2>4, <2>5, SearcherMoves
  <2>7. IsCache(sources')
    BY <2>1, UsedIsCache
  <2> QED BY <2>6, <2>7 DEF IsCache
<1>2. CASE \E n \in Searching(req.key) :
             /\ sources' = cache
             /\ search' = [search EXCEPT ![s] = new("await", inflight[n], None, FALSE)]
             /\ UNCHANGED <<inflight, lookup>>
  <2>1. PICK n \in DOMAIN inflight :
             /\ sources' = cache
             /\ search' = [search EXCEPT ![s] = new("await", inflight[n], None, FALSE)]
             /\ UNCHANGED <<inflight, lookup>>
    BY <1>2 DEF Searching
  <2>2. inflight[n] \in LookupIds /\ lookup[inflight[n]] # None
    BY DEF InflightInv
  <2> DEFINE to == new("await", inflight[n], None, FALSE)
  <2>4. to \in Searches /\ Waits(to)
    BY <2>2 DEF Searches, Waits
  <2>5. search' = [search EXCEPT ![s] = to]
    BY <2>1
  <2> HIDE DEF to
  <2>6. InflightInv' /\ LookupInv' /\ SearchInv'
    BY <2>1, <2>4, <2>5, SearcherMoves
  <2> QED BY <2>1, <2>6 DEF IsCache
<1>3. CASE /\ sources' = cache
           /\ Searching(req.key) = {} /\ Len(inflight) = SourceCacheSize
           /\ search' = [search EXCEPT ![s] = new("capacity", Head(inflight), None, FALSE)]
           /\ UNCHANGED <<inflight, lookup>>
  <2>2. Head(inflight) \in LookupIds
    <3>1. Len(inflight) > 0 /\ inflight \in Seq(LookupIds)
      BY <1>3, SourcesAssumption DEF InflightInv
    <3> QED BY <3>1
  <2> DEFINE to == new("capacity", Head(inflight), None, FALSE)
  <2>4. to \in Searches /\ Waits(to)
    BY <2>2 DEF Searches, Waits
  <2>5. search' = [search EXCEPT ![s] = to]
    BY <1>3
  <2> HIDE DEF to
  <2>6. InflightInv' /\ LookupInv' /\ SearchInv'
    BY <1>3, <2>4, <2>5, SearcherMoves
  <2> QED BY <1>3, <2>6 DEF IsCache
<1>4. CASE /\ sources' = cache
           /\ Searching(req.key) = {} /\ Len(inflight) < SourceCacheSize
           /\ \E i \in LookupIds \ Referred(s) :
                /\ lookup' = [lookup EXCEPT ![i] =
                     [key |-> req.key, state |-> "asking", id |-> None]]
                /\ inflight' = Append(inflight, i)
                /\ search' = [search EXCEPT ![s] = new("await", i, None, FALSE)]
  <2>1. PICK i \in LookupIds \ Referred(s) :
                /\ lookup' = [lookup EXCEPT ![i] =
                     [key |-> req.key, state |-> "asking", id |-> None]]
                /\ inflight' = Append(inflight, i)
                /\ search' = [search EXCEPT ![s] = new("await", i, None, FALSE)]
    BY <1>4
  <2> DEFINE task == [key |-> req.key, state |-> "asking", id |-> None]
             to == new("await", i, None, FALSE)
  <2>2. task \in Lookups /\ task # None /\ task.key = req.key /\ task.state = "asking"
    BY NoneIsNoSearch DEF Lookups
  <2>3. /\ to \in Searches /\ to # None /\ to.next = "await" /\ to.task = i
    <3>1. i \in LookupIds
      OBVIOUS
    <3>2. to \in Searches
      BY <3>1 DEF Searches
    <3>3. to # None
      BY <3>2, NoneIsNoSearch
    <3> QED BY <3>2, <3>3
  <2>4. lookup' = [lookup EXCEPT ![i] = task] /\ search' = [search EXCEPT ![s] = to]
    BY <2>1
  <2> HIDE DEF task, to, new, hits
  <2>5. /\ lookup' \in [LookupIds -> Lookups \cup {None}] /\ lookup'[i] = task
        /\ \A j \in LookupIds \ {i} : lookup'[j] = lookup[j]
    BY <2>2, <2>4 DEF LookupInv
  <2>6. /\ search' \in [Searchers -> Searches \cup {None}] /\ search'[s] = to
        /\ \A u \in Searchers \ {s} : search'[u] = search[u]
    BY <2>3, <2>4 DEF SearchInv
  <2>7. ASSUME NEW u \in Searchers, search[u] # None, search[u].next = "await"
        PROVE  u # s /\ search[u].task # i
    BY <2>7 DEF Referred
  <2>8. ASSUME NEW n \in DOMAIN inflight
        PROVE  /\ inflight[n] \in LookupIds \ {i} /\ lookup[inflight[n]] # None
               /\ lookup[inflight[n]].key # req.key
               /\ \E u \in Searchers \ {s} : search[u] # None /\ search[u].next = "await"
                                             /\ search[u].task = inflight[n]
    <3>1. inflight[n] \in LookupIds
      BY DEF InflightInv
    <3>2. lookup[inflight[n]].key # req.key
      BY <1>4 DEF Searching
    <3> QED BY <2>7, <3>1, <3>2 DEF InflightInv
  <2>9. /\ inflight' \in Seq(LookupIds) /\ Len(inflight') = Len(inflight) + 1
        /\ DOMAIN inflight = 1..Len(inflight) /\ DOMAIN inflight' = 1..(Len(inflight) + 1)
        /\ Len(inflight) \in Nat /\ inflight'[Len(inflight) + 1] = i
        /\ \A n \in DOMAIN inflight : inflight'[n] = inflight[n]
    BY <2>1 DEF InflightInv
  <2>10. ASSUME NEW n \in DOMAIN inflight'
         PROVE  \/ n \in DOMAIN inflight /\ inflight'[n] = inflight[n]
                \/ n = Len(inflight) + 1 /\ n \notin DOMAIN inflight /\ inflight'[n] = i
    BY <2>9
  <2>11. \A n \in DOMAIN inflight' :
           /\ lookup'[inflight'[n]] # None
           /\ \E u \in Searchers : search'[u] # None /\ search'[u].next = "await"
                                     /\ search'[u].task = inflight'[n]
    <3> TAKE n \in DOMAIN inflight'
    <3>1. CASE n \in DOMAIN inflight /\ inflight'[n] = inflight[n]
      BY <2>5, <2>6, <2>8, <3>1
    <3>2. CASE inflight'[n] = i
      BY <2>2, <2>3, <2>5, <2>6, <3>2
    <3> QED BY <2>10, <3>1, <3>2
  <2>12. \A n \in DOMAIN inflight : lookup'[inflight[n]] = lookup[inflight[n]]
    BY <2>5, <2>8
  <2>13. \A m, n \in DOMAIN inflight' :
           lookup'[inflight'[m]].key = lookup'[inflight'[n]].key => m = n
    <3> TAKE m, n \in DOMAIN inflight'
    <3>1. CASE m \in DOMAIN inflight /\ n \in DOMAIN inflight
      BY <2>9, <2>12, <3>1 DEF InflightInv
    <3>2. CASE m \in DOMAIN inflight /\ n \notin DOMAIN inflight
      BY <2>2, <2>5, <2>8, <2>9, <2>10, <2>12, <3>2
    <3>3. CASE m \notin DOMAIN inflight /\ n \in DOMAIN inflight
      BY <2>2, <2>5, <2>8, <2>9, <2>10, <2>12, <3>3
    <3>4. CASE m \notin DOMAIN inflight /\ n \notin DOMAIN inflight
      BY <2>10, <3>4
    <3> QED BY <3>1, <3>2, <3>3, <3>4
  <2>14. Len(inflight') <= SourceCacheSize
    BY <1>4, <2>9, SourcesAssumption
  <2>15. InflightInv'
    BY <2>9, <2>11, <2>13, <2>14 DEF InflightInv
  <2>16. LookupInv'
    BY <2>2, <2>5 DEF LookupInv
  <2>17. SearchInv'
    <3> SUFFICES ASSUME NEW u \in Searchers, search'[u] # None PROVE Waits(search[u])'
      BY <2>6 DEF SearchInv
    <3>1. CASE u = s
      BY <2>2, <2>3, <2>5, <2>6, <3>1 DEF Waits
    <3>2. CASE u # s
      <4>1. search'[u] = search[u] /\ Waits(search[u])
        BY <2>6, <3>2 DEF SearchInv
      <4>2. search[u].next = "await" => search[u].task \in LookupIds \ {i}
        BY <2>7, <4>1 DEF Waits
      <4> QED BY <2>5, <4>1, <4>2 DEF Waits
    <3> QED BY <3>1, <3>2
  <2> QED BY <1>4, <2>15, <2>16, <2>17 DEF IsCache
<1>5. LET i == CHOOSE j \in LookupIds \ Referred(s) : TRUE IN i \in LookupIds \ Referred(s)
  BY FreeTask
<1> QED BY <1>1, <1>2, <1>3, <1>4, <1>5 DEF ResolveSource
-----------------------------------------------------------------------------
(* A task gets its answer: nothing else about it changes.                  *)
LEMMA TaskEnds ==
  ASSUME SourcesInv, NEW i \in LookupIds, lookup[i] # None,
         NEW task \in Lookups, task.key = lookup[i].key,
         task.state = "done" => task.id \in SourceIds,
         lookup' = [lookup EXCEPT ![i] = task],
         UNCHANGED <<source, sources, inflight, search>>
  PROVE  SourcesInv'
<1>1. task # None
  BY NoneIsNoSearch
<1>2. /\ lookup' \in [LookupIds -> Lookups \cup {None}] /\ lookup'[i] = task
      /\ \A j \in LookupIds \ {i} : lookup'[j] = lookup[j]
  BY DEF SourcesInv, LookupInv
<1>3. \A j \in LookupIds : /\ lookup'[j] = None <=> lookup[j] = None
                           /\ lookup[j] # None => lookup'[j].key = lookup[j].key
  BY <1>1, <1>2
<1>4. LookupInv'
  BY <1>2 DEF SourcesInv, LookupInv
<1>5. InflightInv'
  <2>1. \A n \in DOMAIN inflight : inflight[n] \in LookupIds /\ lookup[inflight[n]] # None
    BY DEF SourcesInv, InflightInv
  <2>2. \A n \in DOMAIN inflight : /\ lookup'[inflight[n]] # None
                                   /\ lookup'[inflight[n]].key = lookup[inflight[n]].key
    BY <1>3, <2>1
  <2> QED BY <2>2 DEF SourcesInv, InflightInv
<1>6. SearchInv'
  <2> SUFFICES ASSUME NEW u \in Searchers, search[u] # None PROVE Waits(search[u])'
    BY DEF SourcesInv, SearchInv
  <2>1. Waits(search[u]) /\ search[u].next \in {"await", "capacity", "query"}
    BY SearchFields DEF SourcesInv, SearchInv
  <2> QED BY <1>3, <2>1 DEF Waits
<1> QED BY <1>4, <1>5, <1>6 DEF SourcesInv, IsCache

LEMMA AwaitedOK ==
  ASSUME SourcesInv, NEW s \in Searchers, SourceAwaited(s)
  PROVE  SourcesInv'
<1> DEFINE i == search[s].task
           N == {n \in DOMAIN inflight : inflight[n] = i}
<1>1. /\ search[s] \in Searches /\ search[s] # None /\ search[s].next = "await"
      /\ i \in LookupIds /\ lookup[i] # None
  BY DEF SourceAwaited, SourcesInv, SearchInv, Waits
<1>2. /\ inflight' = Without(inflight, N) /\ lookup' = Released(s, i) /\ source' = source
  BY DEF SourceAwaited
<1>3. \/ /\ lookup[i].state = "done"
         /\ sources' = Stored(sources, [key |-> search[s].key, id |-> lookup[i].id])
         /\ search' = [search EXCEPT ![s].next = "query", ![s].task = None,
                                     ![s].id = lookup[i].id]
      \/ /\ sources' = sources
         /\ search' = [search EXCEPT ![s] = None]
  BY DEF SourceAwaited
<1> HIDE DEF i
<1>4. /\ search' \in [Searchers -> Searches \cup {None}]
      /\ \A u \in Searchers \ {s} : search'[u] = search[u]
      /\ search'[s] # None => search'[s].next = "query" /\ search'[s].id \in SourceIds
  <2>1. CASE search' = [search EXCEPT ![s] = None]
    BY <2>1 DEF SourcesInv, SearchInv
  <2>2. CASE /\ lookup[i].state = "done"
             /\ search' = [search EXCEPT ![s].next = "query", ![s].task = None,
                                         ![s].id = lookup[i].id]
    <3> DEFINE to == [search[s] EXCEPT !.next = "query", !.task = None, !.id = lookup[i].id]
    <3>1. lookup[i].id \in SourceIds
      BY <1>1, <2>2 DEF SourcesInv, LookupInv
    <3>2. to \in Searches /\ to.next = "query" /\ to.id \in SourceIds
      BY <1>1, <3>1 DEF Searches
    <3>3. search' = [search EXCEPT ![s] = to]
      BY <1>1, <2>2 DEF SourcesInv, SearchInv
    <3> HIDE DEF to
    <3> QED BY <3>2, <3>3 DEF SourcesInv, SearchInv
  <2> QED BY <1>3, <2>1, <2>2
<1>5. IsCache(sources')
  <2>1. CASE sources' = sources
    BY <2>1 DEF SourcesInv
  <2>2. CASE /\ lookup[i].state = "done"
             /\ sources' = Stored(sources, [key |-> search[s].key, id |-> lookup[i].id])
    <3>1. lookup[i].id \in SourceIds
      BY <1>1, <2>2 DEF SourcesInv, LookupInv
    <3>2. [key |-> search[s].key, id |-> lookup[i].id] \in Entries
      BY <1>1, <3>1, SearchFields DEF Entries
    <3> QED BY <2>2, <3>2, StoredIsCache DEF SourcesInv
  <2> QED BY <1>3, <2>1, <2>2
<1>6. /\ lookup' \in [LookupIds -> Lookups \cup {None}]
      /\ \A j \in LookupIds \ {i} : lookup'[j] = lookup[j]
      /\ lookup'[i] \in {lookup[i], None}
      /\ i \in Referred(s) => lookup' = lookup
  BY <1>1, <1>2 DEF Released, SourcesInv, LookupInv
<1>7. LookupInv'
  BY <1>6 DEF SourcesInv, LookupInv
<1>8. SearchInv'
  <2> SUFFICES ASSUME NEW u \in Searchers, search'[u] # None PROVE Waits(search[u])'
    BY <1>4 DEF SearchInv
  <2>1. CASE u = s
    BY <1>4, <2>1 DEF Waits
  <2>2. CASE u # s
    <3>1. search'[u] = search[u] /\ Waits(search[u])
      BY <1>4, <2>2 DEF SourcesInv, SearchInv
    <3>2. search[u].task = i => i \in Referred(s)
      BY <2>2, <3>1 DEF Referred
    <3> QED BY <1>6, <3>1, <3>2 DEF Waits
  <2> QED BY <2>1, <2>2
<1>9. inflight \in Seq(LookupIds) /\ N \in SUBSET DOMAIN inflight /\ \A m, n \in N : m = n
  BY DEF SourcesInv, InflightInv
<1>10. /\ inflight' \in Seq(LookupIds) /\ Len(inflight') <= Len(inflight)
       /\ Taken(inflight', inflight, N)
  BY <1>2, <1>9, WithoutPlaces
<1>11. PICK at \in [DOMAIN inflight' -> DOMAIN inflight \ N] :
         /\ \A m \in DOMAIN inflight' : inflight'[m] = inflight[at[m]]
         /\ \A m, k \in DOMAIN inflight' : at[k] = at[m] => k = m
  BY <1>10 DEF Taken
<1>12. ASSUME NEW m \in DOMAIN inflight'
       PROVE  /\ at[m] \in DOMAIN inflight /\ inflight'[m] = inflight[at[m]]
              /\ lookup'[inflight'[m]] = lookup[inflight[at[m]]]
              /\ lookup'[inflight'[m]] # None
              /\ \E u \in Searchers : search'[u] # None /\ search'[u].next = "await"
                                        /\ search'[u].task = inflight'[m]
  <2>1. at[m] \in DOMAIN inflight /\ inflight[at[m]] # i /\ inflight'[m] = inflight[at[m]]
    BY <1>11
  <2>2. inflight[at[m]] \in LookupIds /\ lookup[inflight[at[m]]] # None
    BY <2>1 DEF SourcesInv, InflightInv
  <2>3. PICK u \in Searchers : /\ search[u] # None /\ search[u].next = "await"
                               /\ search[u].task = inflight[at[m]]
    BY <2>1 DEF SourcesInv, InflightInv
  <2>4. u # s
    BY <2>1, <2>3 DEF i
  <2> QED BY <1>4, <1>6, <2>1, <2>2, <2>3, <2>4
<1>13. \A m, n \in DOMAIN inflight' :
         lookup'[inflight'[m]].key = lookup'[inflight'[n]].key => m = n
  <2> TAKE m, n \in DOMAIN inflight'
  <2> HAVE lookup'[inflight'[m]].key = lookup'[inflight'[n]].key
  <2>1. at[m] = at[n]
    BY <1>12 DEF SourcesInv, InflightInv
  <2> QED BY <1>11, <2>1
<1>14. Len(inflight') <= SourceCacheSize
  BY <1>9, <1>10, SourcesAssumption DEF SourcesInv, InflightInv
<1>15. InflightInv'
  BY <1>10, <1>12, <1>13, <1>14 DEF InflightInv
<1> QED BY <1>2, <1>5, <1>7, <1>8, <1>15 DEF SourcesInv, IsCache

LEMMA SourcesNextOK == SourcesInv /\ [SourcesNext]_sourceVars => SourcesInv'
<1> SUFFICES ASSUME SourcesInv, [SourcesNext]_sourceVars PROVE SourcesInv'
  OBVIOUS
<1>1. ASSUME NEW s \in Searchers, StartSearch(s) PROVE SourcesInv'
  <2>1. PICK k \in SourceKeys, kind \in {"search", "propose"} :
          ResolveSource(s, [key |-> k, kind |-> kind, again |-> FALSE], sources)
    BY <1>1 DEF StartSearch
  <2> DEFINE req == [key |-> k, kind |-> kind, again |-> FALSE]
  <2>2. req.key \in SourceKeys /\ req.kind \in {"search", "propose"} /\ req.again \in BOOLEAN
    OBVIOUS
  <2>3. ResolveSource(s, req, sources) /\ search[s] = None /\ source' = source
    BY <1>1, <2>1 DEF StartSearch
  <2> HIDE DEF req
  <2> QED BY <2>2, <2>3, ResolveOK DEF SourcesInv
<1>2. ASSUME NEW s \in Searchers, CapacityFrees(s) PROVE SourcesInv'
  <2> DEFINE req == [key |-> search[s].key, kind |-> search[s].kind, again |-> search[s].again]
  <2>1. ResolveSource(s, req, sources) /\ search[s].next = "capacity" /\ source' = source
    BY <1>2 DEF CapacityFrees
  <2>2. req.key \in SourceKeys /\ req.kind \in {"search", "propose"} /\ req.again \in BOOLEAN
    BY <1>2, SearchFields DEF CapacityFrees, SourcesInv, SearchInv
  <2> HIDE DEF req
  <2> QED BY <2>1, <2>2, ResolveOK DEF SourcesInv
<1>3. ASSUME NEW s \in Searchers, SearchRetries(s) PROVE SourcesInv'
  <2> DEFINE req == [key |-> search[s].key, kind |-> search[s].kind, again |-> TRUE]
             cache == Invalidated(sources, [key |-> search[s].key, id |-> search[s].id])
  <2>1. ResolveSource(s, req, cache) /\ search[s].next = "query" /\ source' = source
    BY <1>3 DEF SearchRetries, Queries
  <2>2. req.key \in SourceKeys /\ req.kind \in {"search", "propose"} /\ req.again \in BOOLEAN
    BY <1>3, SearchFields DEF SearchRetries, Queries, SourcesInv, SearchInv
  <2>3. IsCache(cache)
    BY InvalidatedIsCache DEF SourcesInv
  <2> HIDE DEF req, cache
  <2> QED BY <2>1, <2>2, <2>3, ResolveOK
<1>4. ASSUME NEW s \in Searchers, SearchAnswered(s) \/ SearchLost(s) PROVE SourcesInv'
  <2>1. /\ search' = [search EXCEPT ![s] = None] /\ search[s].next # "await"
        /\ UNCHANGED <<source, sources, inflight, lookup>>
    BY <1>4 DEF SearchAnswered, SearchLost, Queries
  <2>2. InflightInv' /\ LookupInv' /\ SearchInv'
    BY <2>1, SearcherMoves DEF SourcesInv
  <2> QED BY <2>1, <2>2 DEF SourcesInv, IsCache
<1>5. ASSUME NEW i \in LookupIds, SourceFound(i) \/ LookupFails(i) PROVE SourcesInv'
  <2>1. lookup[i] \in Lookups /\ lookup[i] # None
    BY <1>5 DEF SourceFound, LookupFails, SourcesInv, LookupInv
  <2>2. CASE SourceFound(i)
    <3> DEFINE task == [lookup[i] EXCEPT !.state = "done", !.id = source]
    <3>1. task \in Lookups /\ task.key = lookup[i].key /\ task.id \in SourceIds
      BY <2>1 DEF Lookups, SourcesInv
    <3>2. lookup' = [lookup EXCEPT ![i] = task] /\ UNCHANGED <<source, sources, inflight, search>>
      BY <2>1, <2>2 DEF SourceFound, SourcesInv, LookupInv
    <3> HIDE DEF task
    <3> QED BY <2>1, <3>1, <3>2, TaskEnds
  <2>3. CASE LookupFails(i)
    <3> DEFINE task == [lookup[i] EXCEPT !.state = "failed"]
    <3>1. task \in Lookups /\ task.key = lookup[i].key /\ task.state # "done"
      BY <2>1 DEF Lookups
    <3>2. lookup' = [lookup EXCEPT ![i] = task] /\ UNCHANGED <<source, sources, inflight, search>>
      BY <2>3 DEF LookupFails
    <3> HIDE DEF task
    <3> QED BY <2>1, <3>1, <3>2, TaskEnds
  <2> QED BY <1>5, <2>2, <2>3
<1>6. CASE SourceReplaced
  <2>1. source' \in SourceIds /\ UNCHANGED <<sources, inflight, lookup, search>>
    BY <1>6, SourcesAssumption DEF SourceReplaced, SourcesInv, SourceIds
  <2> QED BY <2>1 DEF SourcesInv, IsCache, InflightInv, LookupInv, SearchInv, Waits
<1>7. CASE UNCHANGED sourceVars
  BY <1>7 DEF sourceVars, SourcesInv, IsCache, InflightInv, LookupInv, SearchInv, Waits
<1> QED BY <1>1, <1>2, <1>3, <1>4, <1>5, <1>6, <1>7, AwaitedOK DEF SourcesNext

LEMMA SourcesInitOK == SourcesInit => SourcesInv
<1> SUFFICES ASSUME SourcesInit PROVE SourcesInv
  OBVIOUS
<1>1. source \in SourceIds
  BY SourcesAssumption DEF SourcesInit, SourceIds
<1>2. IsCache(sources) /\ InflightInv
  BY SourcesAssumption DEF SourcesInit, IsCache, InflightInv
<1>3. LookupInv /\ SearchInv
  BY DEF SourcesInit, LookupInv, SearchInv
<1> QED BY <1>1, <1>2, <1>3 DEF SourcesInv

(* A set of which all elements are equal has at most one.                  *)
LEMMA AtMostOne ==
  ASSUME NEW S, \A x, y \in S : x = y
  PROVE  Cardinality(S) <= 1
<1>1. CASE S = {}
  BY <1>1, FS_EmptySet
<1>2. CASE S # {}
  <2>1. PICK x : S = {x}
    BY <1>2
  <2> QED BY <2>1, FS_Singleton
<1> QED BY <1>1, <1>2

LEMMA SourcesTyped == SourcesInv => SourcesTypeOK
<1> SUFFICES ASSUME SourcesInv PROVE SourcesTypeOK
  OBVIOUS
<1>1. ASSUME NEW k \in SourceKeys
      PROVE  Cardinality(Cached(k)) <= 1 /\ Cardinality(Searching(k)) <= 1
  <2>1. \A m, n \in Cached(k) : m = n
    BY DEF SourcesInv, IsCache, Cached
  <2>2. \A m, n \in Searching(k) : m = n
    BY DEF SourcesInv, InflightInv, Searching
  <2> QED BY <2>1, <2>2, AtMostOne
<1> QED BY <1>1 DEF SourcesTypeOK, SourcesInv, IsCache, InflightInv, LookupInv, SearchInv

(* A key is cached at most once and discovered at most once at a time, and *)
(* there are never more cached sources or discoveries than the cache is    *)
(* large, for any number of requests that share, wait for and retry them   *)
(* (notion.py:726-756, 1161-1175).                                         *)
THEOREM SourcesTypeCorrect == SourcesSpec => []SourcesTypeOK
  BY SourcesInitOK, SourcesNextOK, SourcesTyped, PTL DEF SourcesSpec
-----------------------------------------------------------------------------
(* The services beside each other.                                         *)
AllInv ==
  /\ JobsInv /\ CleanupInv /\ IntentInv /\ TokenInv /\ CalendarInv /\ SourcesInv /\ MatchInv

(* At most one service moves, and those that do not stutter.               *)
LEMMA ServicesStep ==
  ASSUME [ServicesNext]_serviceVars
  PROVE  /\ [JobsNext]_jobVars /\ [CleanupNext]_cleanupVars /\ [IntentNext]_intentVars
         /\ [TokenNext]_tokenVars /\ [CalendarNext]_calendarVars /\ [SourcesNext]_sourceVars
         /\ [MatchingNext]_matchVars
<1>1. CASE UNCHANGED serviceVars
  BY <1>1 DEF serviceVars
<1>2. CASE ServicesNext
  <2>1. [JobsNext]_jobVars /\ [CleanupNext]_cleanupVars /\ [IntentNext]_intentVars
    BY <1>2 DEF ServicesNext
  <2>2. [TokenNext]_tokenVars /\ [CalendarNext]_calendarVars
    BY <1>2 DEF ServicesNext
  <2>3. [SourcesNext]_sourceVars /\ [MatchingNext]_matchVars
    BY <1>2 DEF ServicesNext
  <2> QED BY <2>1, <2>2, <2>3
<1> QED BY <1>1, <1>2

(* All seven services keep their types.                                    *)
THEOREM ServicesTypeCorrect == ServicesSpec => []ServicesTypeOK
<1>1. ServicesInit => AllInv
  BY JobsInitial, CleanupInitially, IntentInitially, TokenInitially, CalendarStarts,
     SourcesInitOK, MatchStarts DEF ServicesInit, AllInv
<1>2. AllInv /\ [ServicesNext]_serviceVars => AllInv'
  BY ServicesStep, JobsInductive, CleanupStep, IntentStep, TokenStep, CalendarSteps,
     SourcesNextOK, MatchSteps DEF AllInv
<1>3. AllInv => ServicesTypeOK
  BY SourcesTyped DEF AllInv, ServicesTypeOK, JobsInv, CleanupInv, IntentInv, TokenInv,
     CalendarInv, MatchInv
<1> QED BY <1>1, <1>2, <1>3, PTL DEF ServicesSpec
=============================================================================
