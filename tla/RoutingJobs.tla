---------------------------- MODULE RoutingJobs ----------------------------
(***************************************************************************)
(* Autonomous routing: app/services/routing_jobs.py, the endpoints of      *)
(* app/routers/routing_jobs.py and the branch of app/scheduler/cron.py     *)
(* that queues the jobs.  A scan that has matched a recording leaves a job *)
(* for it; a dispatcher outside the backend leases the oldest job that is  *)
(* free to a worker, with a fresh nonce for five minutes; the worker       *)
(* activates the job, then resolves it to a folder or defers it to the     *)
(* recruiter, who may route the recording without any job.                 *)
(*                                                                         *)
(* A request locks the job, and reads the recording without a lock: what   *)
(* it writes after it waited, for Synology or the database, is counted     *)
(* from that reading.  A request with an older nonce changes nothing.      *)
(***************************************************************************)
EXTENDS Naturals, FiniteSets, Common

CONSTANTS
  Tracks,            \* recordings of one recruiter
  Workers,           \* concurrent requests of workers
  MaxJobs,           \* bound on jobs
  MaxTrackVersion    \* bound on the versions reached by others than jobs

ASSUME JobsAssumption == {MaxJobs, MaxTrackVersion} \subseteq Nat

VARIABLES
  track,      \* track[r]: status, version and whether a folder is set
  job,        \* job[j]: the RoutingJob row j, or None
  scanning,   \* the matched recording a scan discovers folders for, or None
  work        \* work[w]: the decision of request w that is not committed, or None

jobVars == <<track, job, scanning, work>>

JobIds        == 1..MaxJobs
TrackVersions == 0..(MaxTrackVersion + 2)    \* the match, and a decision, come on top

TrackRows ==
  [ status  : {"found", "matched", "review", "running", "failed", "settled"},
    version : TrackVersions,
    routed  : BOOLEAN ]      \* storage_destination_id is set

Jobs ==
  [ track   : Tracks,
    version : TrackVersions,       \* recording_version
    status  : {"queued", "dispatched", "active", "resolved", "deferred"},
    live    : BOOLEAN ]            \* dispatch_lease_expires_at is in the future

ASSUME NoneIsNoJob == None \notin Jobs

Works ==
  [ job : JobIds, decision : {"resolved", "deferred"} ]

JobsTypeOK ==
  /\ track \in [Tracks -> TrackRows]
  /\ job \in [JobIds -> Jobs \cup {None}]
  /\ scanning \in [track : Tracks, version : TrackVersions] \cup {None}
  /\ work \in [Workers -> Works \cup {None}]

JobsInit ==
  /\ track = [r \in Tracks |-> [status |-> "found", version |-> 0, routed |-> FALSE]]
  /\ job = [j \in JobIds |-> None]
  /\ scanning = None
  /\ work = [w \in Workers |-> None]

Unused    == {j \in JobIds : job[j] = None}
OpenState == {"queued", "dispatched", "active"}
OpenJobs(r) == {j \in JobIds \ Unused : job[j].track = r /\ job[j].status \in OpenState}
-----------------------------------------------------------------------------
(* The scan.                                                               *)

(* The candidate is known (or an answer named it): the commit of           *)
(* candidate_matched, after which the scan waits for Synology unlocked.    *)
MatchTrack(r) ==
  LET v == IF track[r].status = "found" THEN track[r].version + 1 ELSE track[r].version IN
  /\ scanning = None /\ ~track[r].routed
  /\ track[r].status \in {"found", "matched"}
  /\ track' = [track EXCEPT ![r].status = "matched", ![r].version = v]
  /\ scanning' = [track |-> r, version |-> v]
  /\ UNCHANGED <<job, work>>

(* Mutant of Reusable: an open job is not looked for.                      *)
ReusableNever(r) == {}

Reusable(r) == OpenJobs(r)

(* create_or_reuse, on the copy the scan holds since its commit.  The      *)
(* SELECT of an open job is FOR UPDATE: it waits for a worker's commit.    *)
CreateOrReuse ==
  /\ scanning # None
  /\ \A w \in Workers : work[w] # None => job[work[w].job].track # scanning.track
  /\ \/ Reusable(scanning.track) # {} /\ UNCHANGED job
     \/ /\ Reusable(scanning.track) = {}
        /\ \E j \in Unused :
             /\ \A k \in Unused : j <= k
             /\ job' = [job EXCEPT ![j] =
                  [ track |-> scanning.track, version |-> scanning.version,
                    status |-> "queued", live |-> FALSE ]]
     \/ Reusable(scanning.track) = {} /\ Unused = {} /\ UNCHANGED job    \* bound
  /\ scanning' = None
  /\ UNCHANGED <<track, work>>

(* No folders: manual review, written over whatever the status is by now.  *)
DiscoveryRejected ==
  /\ scanning # None
  /\ track' = [track EXCEPT ![scanning.track].status = "review"]
  /\ scanning' = None
  /\ UNCHANGED <<job, work>>

(* Synology fails (_fail_recording reads the row again), or a restart.     *)
DiscoveryFails ==
  /\ scanning # None
  /\ \/ UNCHANGED track
     \/ /\ track[scanning.track].status \in {"matched", "review", "running"}
        /\ track' = [track EXCEPT ![scanning.track].status = "failed"]
  /\ scanning' = None
  /\ UNCHANGED <<job, work>>
-----------------------------------------------------------------------------
(* The dispatcher.                                                         *)

Locked(j) == \E w \in Workers : work[w] # None /\ work[w].job = j

(* Mutant of Dispatchable: a job whose worker went away is not leased again. *)
DispatchableQueued(j) == job[j] # None /\ job[j].status = "queued"

(* Queued, or its lease has run out; SKIP LOCKED.                          *)
Dispatchable(j) ==
  /\ job[j] # None /\ ~Locked(j)
  /\ job[j].status = "queued" \/ (job[j].status \in OpenState /\ ~job[j].live)

(* dispatch_next takes the oldest: the nonces given out before are void.   *)
Dispatch(j) ==
  /\ Dispatchable(j) /\ \A k \in JobIds : Dispatchable(k) => j <= k
  /\ job' = [job EXCEPT ![j].status = "dispatched", ![j].live = TRUE]
  /\ UNCHANGED <<track, scanning, work>>

LeaseEnds(j) ==
  /\ job[j] # None /\ job[j].live /\ job[j].status \in OpenState
  /\ job' = [job EXCEPT ![j].live = FALSE]
  /\ UNCHANGED <<track, scanning, work>>
-----------------------------------------------------------------------------
(* The worker with the last nonce of the job: no other is let in.          *)

(* _lease_owned_job, holding the row of the job from here on.              *)
Owned(j) == job[j] # None /\ job[j].live /\ ~Locked(j)

Current(j) ==
  /\ track[job[j].track].status = "matched"
  /\ track[job[j].track].version = job[j].version

(* A stale job is rejected, and what was written rolled back.              *)
Activate(j) ==
  /\ Owned(j) /\ job[j].status = "dispatched" /\ Current(j)
  /\ job' = [job EXCEPT ![j].status = "active"]
  /\ UNCHANGED <<track, scanning, work>>

(* resolve and defer up to their writing: resolve waits for the live       *)
(* validation of the folder, defer only loads the recruiter.               *)
Decide(w, j) ==
  /\ work[w] = None
  /\ Owned(j) /\ job[j].status = "active" /\ Current(j)
  /\ \E decision \in {"resolved", "deferred"} :
       work' = [work EXCEPT ![w] = [job |-> j, decision |-> decision]]
  /\ UNCHANGED <<track, job, scanning>>

(* One commit for the job, the recording, and the question of a defer.     *)
CommitDecision(w) ==
  /\ work[w] # None
  /\ LET j == work[w].job
         r == job[j].track IN
     /\ job' = [job EXCEPT ![j].status = work[w].decision]
     /\ track' = [track EXCEPT
          ![r].status  = IF work[w].decision = "resolved" THEN "running" ELSE "review",
          ![r].version = job[j].version + 1,
          ![r].routed  = @ \/ work[w].decision = "resolved"]
  /\ work' = [work EXCEPT ![w] = None]
  /\ UNCHANGED scanning

(* The folder is gone, Mattermost rejects, or the request dies.            *)
AbandonDecision(w) ==
  /\ work[w] # None
  /\ work' = [work EXCEPT ![w] = None]
  /\ UNCHANGED <<track, job, scanning>>
-----------------------------------------------------------------------------
(* The rest of the system.                                                 *)

(* route-interview does not look for a job: it stays open.                 *)
RouteTrack(r) ==
  /\ track[r].status \in {"matched", "review", "failed"} /\ track[r].version < MaxTrackVersion
  /\ track' = [track EXCEPT ![r] =
       [status |-> "running", version |-> @.version + 1, routed |-> TRUE]]
  /\ UNCHANGED <<job, scanning, work>>

(* submit_summary, and answers of questions asked beside the status.       *)
TouchTrack(r) ==
  /\ track[r].status # "failed" /\ track[r].version < MaxTrackVersion
  /\ track' = [track EXCEPT ![r].version = @ + 1]
  /\ UNCHANGED <<job, scanning, work>>

TransferEnds(r) ==
  /\ track[r].status = "running"
  /\ \E s \in {"settled", "failed", "review"} : track' = [track EXCEPT ![r].status = s]
  /\ UNCHANGED <<job, scanning, work>>
-----------------------------------------------------------------------------
JobsNext ==
  \/ \E r \in Tracks : MatchTrack(r) \/ RouteTrack(r) \/ TouchTrack(r) \/ TransferEnds(r)
  \/ CreateOrReuse \/ DiscoveryRejected \/ DiscoveryFails
  \/ \E j \in JobIds : Dispatch(j) \/ LeaseEnds(j) \/ Activate(j)
  \/ \E w \in Workers :
       (\E j \in JobIds : Decide(w, j)) \/ CommitDecision(w) \/ AbandonDecision(w)

(* The dispatcher polls every two minutes and takes what is oldest: that   *)
(* is no fairness for a job behind others.  A request ends one way or the  *)
(* other; workers that are started again and again activate a job and      *)
(* decide one at last.                                                     *)
WorkerActivates == \E j \in JobIds : Activate(j)
WorkerDecides   == \E w \in Workers, j \in JobIds : Decide(w, j)
DecisionCommits == \E w \in Workers : CommitDecision(w)
DecisionEnds    == DecisionCommits \/ \E w \in Workers : AbandonDecision(w)

JobsFairness ==
  /\ WF_jobVars(\E j \in JobIds : Dispatch(j))
  /\ \A j \in JobIds : WF_jobVars(LeaseEnds(j))
  /\ SF_jobVars(WorkerActivates) /\ SF_jobVars(WorkerDecides)
  /\ SF_jobVars(DecisionCommits) /\ WF_jobVars(DecisionEnds)

JobsSpec == JobsInit /\ [][JobsNext]_jobVars /\ JobsFairness
-----------------------------------------------------------------------------
(* Properties.                                                             *)

(* "One scan creates at most one durable routing job": a recording has at  *)
(* most one job that a worker may still get, without the help of the       *)
(* unique index, although scans, workers and the recruiter overlap.        *)
OneOpenJob == \A r \in Tracks : Cardinality(OpenJobs(r)) <= 1

IsOpen(j)  == job[j] # None /\ job[j].status \in OpenState
Waiting(j) == IsOpen(j) /\ Current(j)

(* A job whose recording moved on without it: no worker can decide it, and *)
(* nothing but a decision closes it.                                       *)
Stale(j) == IsOpen(j) /\ ~Current(j)

(* A recording waiting for a worker, with a job for its version, is        *)
(* decided in the end: leases end and workers die, the job is dispatched   *)
(* again.  Only jobs before it that are stale for ever may hold it up:     *)
(* with the oldest first, each of them costs it one lease after another.   *)
JobsDecide ==
  \A j \in JobIds :
    []<>(~Waiting(j)) \/ <>[](\E k \in JobIds : k < j /\ Stale(k))

(* "Reject ... stale job/recording": a worker's folder is not written over *)
(* the one that somebody else chose since the worker's request read the    *)
(* recording.                                                              *)
RouteStands ==
  [][\A w \in Workers :
       (CommitDecision(w) /\ work[w].decision = "resolved")
         => ~track[job[work[w].job].track].routed]_jobVars
=============================================================================
