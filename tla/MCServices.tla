----------------------------- MODULE MCServices -----------------------------
(***************************************************************************)
(* The services beside the pipeline for TLC, each on a small instance of   *)
(* its own: a behaviour is about one of them, the others do not move.      *)
(* Calendars has two: "setup" without scans and selections, where CalDAV  *)
(* only adds calendars; "calendars" with all of these, but with changes of *)
(* CalDAV and discoveries of the endpoint once the recruiter is active.    *)
(* Of two recordings in "jobs" the recruiter handles one: the job of the   *)
(* other waits behind what becomes stale by that.                          *)
(* The cards of Matching, which do not depend on the snapshot, are asked   *)
(* for after snapshots of one event.                                       *)
(***************************************************************************)
EXTENDS RoutingJobs, Cleanup, Intents, Tokens, Calendars, NotionSources, Matching

CONSTANT Handled     \* the recordings that the recruiter routes or touches

VARIABLE active

serviceVars ==
  <<active, jobVars, cleanupVars, intentVars, tokenVars, calendarVars, sourceVars,
    matchVars>>

ServicesInit ==
  /\ active \in {"jobs", "cleanup", "intents", "tokens", "setup", "calendars", "sources",
                 "matching"}
  /\ JobsInit /\ CleanupInit /\ IntentInit /\ TokenInit /\ CalendarInit /\ SourcesInit
  /\ MatchingInit
  /\ active \in {"setup", "calendars"} \/ (listed = {} /\ recruiter = None)
  /\ active = "matching" \/ filename

ServicesNext ==
  /\ UNCHANGED active
  /\ active = "jobs" \/ UNCHANGED jobVars
  /\ active = "cleanup" \/ UNCHANGED cleanupVars
  /\ active = "intents" \/ UNCHANGED intentVars
  /\ active = "tokens" \/ UNCHANGED tokenVars
  /\ active \in {"setup", "calendars"} \/ UNCHANGED calendarVars
  /\ active = "sources" \/ UNCHANGED sourceVars
  /\ active = "matching" \/ UNCHANGED matchVars
  /\ \/ /\ active = "jobs" /\ JobsNext
        /\ \A r \in Tracks \ Handled : ~RouteTrack(r) /\ ~TouchTrack(r)
     \/ active = "cleanup" /\ CleanupNext
     \/ active = "intents" /\ IntentNext
     \/ active = "tokens" /\ TokenNext
     \/ active = "sources" /\ SourcesNext
     \/ active = "matching" /\ MatchingNext /\ (Len(snapshot) = 1 \/ UNCHANGED cards)
     \/ /\ active = "setup" /\ CalendarNext
        /\ scan' = "idle" /\ Selected' = {} /\ listed \subseteq listed'
     \/ /\ active = "calendars" /\ CalendarNext
        /\ \/ recruiter # None /\ recruiter.active
           \/ discovery'["endpoint"] = None /\ UNCHANGED listed

ServicesSpec ==
  /\ ServicesInit /\ [][ServicesNext]_serviceVars
  /\ \/ active = "jobs" /\ JobsFairness
     \/ active = "cleanup" /\ CleanupFairness
     \/ active = "calendars" /\ CalendarFairness
     \/ active \in {"intents", "tokens", "setup", "sources", "matching"}

ServicesTypeOK ==
  /\ JobsTypeOK /\ CleanupTypeOK /\ IntentTypeOK /\ TokenTypeOK /\ CalendarTypeOK
  /\ SourcesTypeOK /\ MatchingTypeOK

(* The liveness of Calendars, where its fairness holds.                    *)
ScansRecover == active = "calendars" => ScanRecovers
=============================================================================
