------------------------------- MODULE Tokens -------------------------------
(***************************************************************************)
(* app/services/yandex_token_manager.py and the request of                 *)
(* app/tools/disk.py that uses it, for one recruiter: a call takes the     *)
(* stored access token while it is fresh; a token that is refused (401) is *)
(* refreshed once, and the call is sent again.  Refreshes are one at a     *)
(* time: an asyncio lock in the process, and the row FOR UPDATE.           *)
(***************************************************************************)
EXTENDS Naturals, FiniteSets, Common

CONSTANTS
  Callers,      \* concurrent requests to Yandex Disk
  MaxTokens     \* bound on access tokens granted

ASSUME TokensAssumption == MaxTokens \in Nat

VARIABLES
  token,      \* the YandexToken row: the token and whether it is fresh
  granted,    \* access tokens granted so far
  refused,    \* tokens that Yandex does not take (any more)
  spoiled,    \* tokens that ran out, were revoked while stored, or were lost
  caller      \* caller[c]: what request c does next, with which tokens

tokenVars == <<token, granted, refused, spoiled, caller>>

AccessTokens == 1..MaxTokens

ASSUME NoneIsNoToken == None \notin AccessTokens

CallerRows ==
  [ next  : {"idle", "send", "refresh", "grant", "resend", "ok", "error"},
    token : AccessTokens \cup {None},      \* sent with the request
    stale : AccessTokens \cup {None} ]     \* stale_access_token

TokenTypeOK ==
  /\ token \in [access : AccessTokens \cup {None}, fresh : BOOLEAN]
  /\ granted \in 0..MaxTokens
  /\ refused \subseteq AccessTokens
  /\ spoiled \subseteq AccessTokens
  /\ caller \in [Callers -> CallerRows]

(* The row holds only the configured refresh token (_seed_token_row).      *)
TokenInit ==
  /\ token = [access |-> None, fresh |-> FALSE]
  /\ granted = 0
  /\ refused = {}
  /\ spoiled = {}
  /\ caller = [c \in Callers |-> [next |-> "idle", token |-> None, stale |-> None]]

CallerDoes(c, next) == caller' = [caller EXCEPT ![c].next = next]
-----------------------------------------------------------------------------
(* get_access_token: the stored token while it is fresh for five minutes.  *)
StartCall(c) ==
  /\ caller[c].next \in {"idle", "ok", "error"}
  /\ caller' = [caller EXCEPT ![c] =
       IF token.fresh THEN [next |-> "send", token |-> token.access, stale |-> None]
       ELSE [next |-> "refresh", token |-> None, stale |-> None]]
  /\ UNCHANGED <<token, granted, refused, spoiled>>

(* _request: a first 401 asks for another token, a second one is an error. *)
SendCall(c) ==
  /\ caller[c].next = "send"
  /\ caller' = [caller EXCEPT ![c] =
       IF caller[c].token \in refused
         THEN [next |-> "refresh", token |-> None, stale |-> caller[c].token]
         ELSE [@ EXCEPT !.next = "ok"]]
  /\ UNCHANGED <<token, granted, refused, spoiled>>

ResendCall(c) ==
  /\ caller[c].next = "resend"
  /\ CallerDoes(c, IF caller[c].token \in refused THEN "error" ELSE "ok")
  /\ UNCHANGED <<token, granted, refused, spoiled>>

HoldsLock(c) == caller[c].next = "grant"

(* Mutant of StillGood: nobody else may have refreshed it meanwhile.       *)
StillGoodNever(c) == FALSE

(* Under the locks: another request has replaced the stale token already.  *)
StillGood(c) == token.fresh /\ token.access # caller[c].stale

(* The token goes to a first request, or to the second of a refused one.   *)
WithToken(c, t) ==
  caller' = [caller EXCEPT ![c] =
    [@ EXCEPT !.token = t, !.next = IF caller[c].stale = None THEN "send" ELSE "resend"]]

LockToken(c) ==
  /\ caller[c].next = "refresh" /\ \A d \in Callers : ~HoldsLock(d)
  /\ IF StillGood(c) THEN WithToken(c, token.access) ELSE CallerDoes(c, "grant")
  /\ UNCHANGED <<token, granted, refused, spoiled>>

(* Yandex grants a token, which is committed.  One that get_access_token   *)
(* refreshed is sent for the first time: a 401 refreshes it again.         *)
GrantToken(c) ==
  /\ HoldsLock(c) /\ granted < MaxTokens
  /\ granted' = granted + 1
  /\ token' = [access |-> granted + 1, fresh |-> TRUE]
  /\ WithToken(c, granted + 1)
  /\ UNCHANGED <<refused, spoiled>>

(* The grant fails, or is lost before the commit.                          *)
GrantFails(c) ==
  /\ HoldsLock(c)
  /\ \/ UNCHANGED <<granted, spoiled>>
     \/ /\ granted < MaxTokens
        /\ granted' = granted + 1 /\ spoiled' = spoiled \cup {granted + 1}
  /\ CallerDoes(c, "error")
  /\ UNCHANGED <<token, refused>>
-----------------------------------------------------------------------------
(* Time, and Yandex.  Sometimes a token is refused before it runs out.     *)
TokenAges ==
  /\ token.fresh
  /\ token' = [token EXCEPT !.fresh = FALSE]
  /\ spoiled' = spoiled \cup {token.access}
  /\ UNCHANGED <<granted, refused, caller>>

TokenRefused(t) ==
  /\ t \in 1..granted \ refused
  /\ refused' = refused \cup {t}
  /\ spoiled' = spoiled \cup {t}
  /\ UNCHANGED <<token, granted, caller>>

TokenNext ==
  \/ \E c \in Callers :
       StartCall(c) \/ SendCall(c) \/ ResendCall(c) \/ LockToken(c) \/ GrantToken(c) \/ GrantFails(c)
  \/ TokenAges
  \/ \E t \in AccessTokens : TokenRefused(t)

TokenSpec == TokenInit /\ [][TokenNext]_tokenVars
-----------------------------------------------------------------------------
(* Properties.                                                             *)

(* Requests that meet the same stale token, or none, refresh it once: all  *)
(* tokens but the last were granted because the one before had run out,    *)
(* was refused, or got lost.                                               *)
NoNeedlessGrant == granted > 0 => 1..(granted - 1) \subseteq spoiled
=============================================================================
