----------------------- MODULE RecordingPipelineProofs -----------------------
(***************************************************************************)
(* What holds of the recording pipeline for every set of recordings,       *)
(* destinations, workers and handlers.                                     *)
(***************************************************************************)
EXTENDS RecordingPipeline, TLAPS

(* TypeOK in two parts: what the building blocks change, and the rest.     *)
ActiveOK ==
  /\ row \in [Recordings -> Rows]
  /\ lock \in [Recordings -> Processes \cup {None}]
  /\ pc \in [Processes -> Steps]
  /\ rec \in [Processes -> Recordings \cup {None}]
  /\ \A p \in Processes : pc[p] # "idle" => rec[p] # None
  /\ mem \in [Processes -> Copies]
  /\ fresh \in SUBSET Workers

ExternalOK ==
  /\ owner \in [Destinations -> Recordings \cup {None}]
  /\ file \in [Destinations -> {"absent", "partial", "complete"}]
  /\ card \in [Recordings -> Places]
  /\ marked \in SUBSET Recordings
  /\ late \in SUBSET Recordings
  /\ provider \in {"synology", "minio"}
  /\ mutation \in BOOLEAN
  /\ faults \in 0..MaxFaults

(* A process that is not idle works on a recording.                        *)
LEMMA Busy ==
  ASSUME ActiveOK, NEW p \in Processes, pc[p] # "idle"
  PROVE  rec[p] \in Recordings /\ row[rec[p]] \in Rows /\ mem[p] \in Copies
  BY DEF ActiveOK

LEMMA WorkersAreProcesses == Workers \subseteq Processes /\ Handlers \subseteq Processes
  BY DEF Processes

LEMMA NewRowType == NewRow \in Rows /\ CopyOf(NewRow) \in Copies
  BY DEF NewRow, Rows, Copies, CopyOf, Asks, Places, Lifecycle!Statuses

LEMMA CopyType == ASSUME NEW x \in Rows PROVE CopyOf(x) \in Copies
  BY DEF Rows, Copies, CopyOf, Places

LEMMA RowUpdate ==
  ASSUME NEW f \in [Recordings -> Rows], NEW r \in Recordings, NEW v \in Rows
  PROVE  [f EXCEPT ![r] = v] \in [Recordings -> Rows]
  OBVIOUS

LEMMA FaultType ==
  ASSUME faults \in 0..MaxFaults, Fault
  PROVE  faults' \in 0..MaxFaults
  BY FaultsAssumption DEF Fault
-----------------------------------------------------------------------------
(* The building blocks preserve the types of what they change.             *)

LEMMA LeaveType ==
  ASSUME ActiveOK, NEW p \in Processes, pc[p] # "idle", Leave(p)
  PROVE  ActiveOK'
  BY DEF ActiveOK, Leave, Unlock, Goto, Steps

LEMMA SettleType ==
  ASSUME ActiveOK, NEW p \in Processes, pc[p] # "idle",
         NEW s \in Lifecycle!Statuses, NEW ask \in Asks, Settle(p, s, ask)
  PROVE  ActiveOK'
<1> DEFINE v == [row[rec[p]] EXCEPT !.status = s, !.ask = ask]
<1>1. rec[p] \in Recordings /\ row[rec[p]] \in Rows
  BY Busy
<1>2. v \in Rows
  BY <1>1 DEF Rows
<1>3. row' = [row EXCEPT ![rec[p]] = v]
  BY DEF Settle
<1> HIDE DEF v
<1>4. row' \in [Recordings -> Rows]
  BY <1>1, <1>2, <1>3, RowUpdate DEF ActiveOK
<1>5. lock' \in [Recordings -> Processes \cup {None}] /\ pc' \in [Processes -> Steps]
  BY DEF ActiveOK, Settle, Unlock, Goto, Steps
<1>6. \A q \in Processes : pc'[q] # "idle" => rec'[q] # None
  BY DEF ActiveOK, Settle, Goto
<1> QED BY <1>4, <1>5, <1>6 DEF ActiveOK, Settle

LEMMA CommitType ==
  ASSUME ActiveOK, NEW p \in Processes, pc[p] # "idle",
         NEW s \in Lifecycle!Statuses, NEW x \in Rows, NEW y \in Copies,
         NEW step \in Steps, Commit(p, s, x, y, step)
  PROVE  ActiveOK'
<1> DEFINE v == [x EXCEPT !.status = s]
<1>1. rec[p] \in Recordings
  BY Busy
<1>2. v \in Rows
  BY DEF Rows
<1>3. row' = [row EXCEPT ![rec[p]] = v]
  BY DEF Commit
<1> HIDE DEF v
<1>4. row' \in [Recordings -> Rows]
  BY <1>1, <1>2, <1>3, RowUpdate DEF ActiveOK
<1>5. mem' \in [Processes -> Copies]
  BY DEF ActiveOK, Commit, Copies
<1>6. lock' \in [Recordings -> Processes \cup {None}] /\ pc' \in [Processes -> Steps]
  BY DEF ActiveOK, Commit, Unlock, Goto
<1>7. \A q \in Processes : pc'[q] # "idle" => rec'[q] # None
  BY DEF ActiveOK, Commit, Goto
<1> QED BY <1>4, <1>5, <1>6, <1>7 DEF ActiveOK, Commit

LEMMA RaisedType ==
  ASSUME ActiveOK, NEW p \in Processes, Raised(p)
  PROVE  ActiveOK'
  BY NewRowType DEF ActiveOK, Raised, Goto, Steps

LEMMA CollideType ==
  ASSUME ActiveOK, NEW p \in Processes, pc[p] # "idle", Collide(p)
  PROVE  ActiveOK'
<1>1. "manual_review" \in Lifecycle!Statuses /\ "nothing" \in Asks
  BY DEF Lifecycle!Statuses, Asks
<1> QED BY <1>1, RaisedType, SettleType DEF Collide
-----------------------------------------------------------------------------
(* The storage steps, of a worker or of a handler.                         *)

LEMMA CommitUploadType ==
  ASSUME ActiveOK, NEW p \in Processes, CommitUpload(p)
  PROVE  ActiveOK'
<1> DEFINE x == [row[rec[p]] EXCEPT !.path = mem[p].dest]
           y == [mem[p] EXCEPT !.path = mem[p].dest]
<1>1. "uploaded" \in Lifecycle!Statuses /\ "share" \in Steps
  BY DEF Lifecycle!Statuses, Steps
<1>2. pc[p] # "idle" /\ Commit(p, "uploaded", x, y, "share")
  BY DEF CommitUpload
<1>3. row[rec[p]] \in Rows /\ mem[p] \in Copies
  BY <1>2, Busy
<1>4. x \in Rows /\ y \in Copies
  BY <1>3 DEF Rows, Copies
<1> HIDE DEF x, y
<1> QED BY <1>1, <1>2, <1>4, CommitType

LEMMA StorageStepActive ==
  ASSUME ActiveOK, NEW p \in Processes, StorageStep(p)
  PROVE  ActiveOK'
<1>1. CASE StorageReused(p)
  BY <1>1 DEF ActiveOK, StorageReused, Goto, Steps, db
<1>2. CASE StorageClaimed(p)
  BY <1>2 DEF ActiveOK, StorageClaimed, Goto, Steps, db
<1>3. CASE StorageCollision(p)
  BY <1>3, CollideType DEF StorageCollision
<1>4. CASE UploadBegins(p)
  BY <1>4 DEF ActiveOK, UploadBegins, Goto, Steps, db
<1>5. CASE UploadEnds(p)
  BY <1>5 DEF ActiveOK, UploadEnds, Goto, Steps, db
<1>6. CASE UploadBreaks(p)
  <2>1. "failed" \in Lifecycle!Statuses /\ "nothing" \in Asks
    BY DEF Lifecycle!Statuses, Asks
  <2>2. pc[p] # "idle" /\ (Collide(p) \/ Settle(p, "failed", "nothing"))
    BY <1>6 DEF UploadBreaks
  <2> QED BY <2>1, <2>2, CollideType, SettleType
<1>7. CASE PutObject(p)
  BY <1>7 DEF ActiveOK, PutObject, Goto, Steps, db
<1>8. CASE CommitUpload(p)
  BY <1>8, CommitUploadType
<1> QED BY <1>1, <1>2, <1>3, <1>4, <1>5, <1>6, <1>7, <1>8 DEF StorageStep

LEMMA StorageStepExternal ==
  ASSUME TypeOK, NEW p \in Processes, StorageStep(p)
  PROVE  ExternalOK'
<1> USE DEF TypeOK
<1>1. CASE StorageReused(p)
  BY <1>1 DEF ExternalOK, StorageReused, external, settings
<1>2. CASE StorageClaimed(p)
  <2>1. owner' \in [Destinations -> Recordings \cup {None}]
    BY <1>2 DEF StorageClaimed
  <2> QED BY <1>2, <2>1 DEF ExternalOK, StorageClaimed, settings
<1>3. CASE StorageCollision(p)
  BY <1>3 DEF ExternalOK, StorageCollision, external, settings
<1>4. CASE UploadBegins(p)
  BY <1>4 DEF ExternalOK, UploadBegins, settings
<1>5. CASE UploadEnds(p)
  BY <1>5 DEF ExternalOK, UploadEnds, settings
<1>6. CASE UploadBreaks(p)
  <2>1. faults' \in 0..MaxFaults
    BY <1>6, FaultType DEF UploadBreaks
  <2>2. file' \in [Destinations -> {"absent", "partial", "complete"}]
    BY <1>6 DEF UploadBreaks
  <2> QED BY <1>6, <2>1, <2>2 DEF ExternalOK, UploadBreaks, settings
<1>7. CASE PutObject(p)
  <2>1. owner' \in [Destinations -> Recordings \cup {None}]
    BY <1>7 DEF PutObject
  <2> QED BY <1>7, <2>1 DEF ExternalOK, PutObject, settings
<1>8. CASE CommitUpload(p)
  BY <1>8 DEF ExternalOK, CommitUpload, external, settings
<1> QED BY <1>1, <1>2, <1>3, <1>4, <1>5, <1>6, <1>7, <1>8 DEF StorageStep
-----------------------------------------------------------------------------
(* The steps of a run.                                                     *)

LEMMA LoadFoundType ==
  ASSUME ActiveOK, NEW w \in Processes, LoadFound(w)
  PROVE  ActiveOK'
<1>1. CopyOf(row[rec[w]]) \in Copies
  BY Busy, CopyType DEF LoadFound
<1> QED BY <1>1 DEF ActiveOK, LoadFound, Goto, Steps, db

LEMMA LoadLockedType ==
  ASSUME ActiveOK, NEW w \in Workers, LoadLocked(w)
  PROVE  ActiveOK'
<1>1. w \in Processes /\ pc[w] # "idle"
  BY WorkersAreProcesses DEF LoadLocked
<1>2. CopyOf(row[rec[w]]) \in Copies
  BY <1>1, Busy, CopyType
<1>3. FirstStep[row[rec[w]].status] \in Steps
  BY DEF LoadLocked, TransferResumable, FirstStep, Steps
<1>4. pc' \in [Processes -> Steps] /\ lock' \in [Recordings -> Processes \cup {None}]
  BY <1>1, <1>3 DEF ActiveOK, LoadLocked, Goto
<1>5. mem' \in [Processes -> Copies]
  BY <1>2 DEF ActiveOK, LoadLocked
<1>6. \A q \in Processes : pc'[q] # "idle" => rec'[q] # None
  BY <1>1 DEF ActiveOK, LoadLocked, Goto
<1> QED BY <1>4, <1>5, <1>6 DEF ActiveOK, LoadLocked

LEMMA ReleaseType ==
  ASSUME ActiveOK, NEW w \in Workers, Release(w)
  PROVE  ActiveOK'
<1> DEFINE v == [row[rec[w]] EXCEPT !.lease = None, !.expired = FALSE]
<1>1. w \in Processes /\ rec[w] \in Recordings /\ row[rec[w]] \in Rows
  BY Busy, WorkersAreProcesses DEF Release
<1>2. v \in Rows
  BY <1>1 DEF Rows
<1>3. row' = [row EXCEPT ![rec[w]] = v] \/ row' = row
  BY DEF Release
<1> HIDE DEF v
<1>4. row' \in [Recordings -> Rows]
  BY <1>1, <1>2, <1>3, RowUpdate DEF ActiveOK
<1>5. mem' \in [Processes -> Copies]
  BY NewRowType DEF ActiveOK, Release
<1>6. /\ pc' \in [Processes -> Steps] /\ rec' \in [Processes -> Recordings \cup {None}]
      /\ \A q \in Processes : pc'[q] # "idle" => rec'[q] # None
  BY <1>1 DEF ActiveOK, Release, Goto, Steps
<1> QED BY <1>4, <1>5, <1>6 DEF ActiveOK, Release

LEMMA FailFoundType ==
  ASSUME ActiveOK, NEW w \in Workers, FailFound(w)
  PROVE  ActiveOK'
<1> DEFINE v == [row[rec[w]] EXCEPT !.status = "failed"]
<1>1. w \in Processes /\ rec[w] \in Recordings /\ row[rec[w]] \in Rows
  BY Busy, WorkersAreProcesses DEF FailFound
<1>2. v \in Rows
  BY <1>1 DEF Rows, Lifecycle!Statuses
<1>3. row' = [row EXCEPT ![rec[w]] = v] \/ row' = row
  BY DEF FailFound
<1> HIDE DEF v
<1>4. row' \in [Recordings -> Rows]
  BY <1>1, <1>2, <1>3, RowUpdate DEF ActiveOK
<1>5. /\ pc' \in [Processes -> Steps] /\ rec' \in [Processes -> Recordings \cup {None}]
      /\ \A q \in Processes : pc'[q] # "idle" => rec'[q] # None
  BY <1>1 DEF ActiveOK, FailFound, Goto, Steps
<1> QED BY <1>4, <1>5 DEF ActiveOK, FailFound

LEMMA LookupMatchedType ==
  ASSUME ActiveOK, NEW w \in Processes, LookupMatched(w)
  PROVE  ActiveOK'
<1>1. pc[w] # "idle" /\ row[rec[w]] \in Rows /\ mem[w] \in Copies
  BY Busy DEF LookupMatched
<1>2. PICK d \in Identities(rec[w]) :
        Commit(w, "candidate_matched", [row[rec[w]] EXCEPT !.page = TRUE, !.dest = d],
               [mem[w] EXCEPT !.dest = d], "route")
  BY DEF LookupMatched
<1>3. d \in Places
  BY <1>1 DEF Identities, Rows, Places
<1> DEFINE x == [row[rec[w]] EXCEPT !.page = TRUE, !.dest = d]
           y == [mem[w] EXCEPT !.dest = d]
<1>4. x \in Rows /\ y \in Copies
  BY <1>1, <1>3 DEF Rows, Copies
<1>5. Commit(w, "candidate_matched", x, y, "route")
  BY <1>2
<1> HIDE DEF x, y
<1>6. "candidate_matched" \in Lifecycle!Statuses /\ "route" \in Steps
  BY DEF Lifecycle!Statuses, Steps
<1> QED BY <1>1, <1>4, <1>5, <1>6, CommitType

LEMMA ResolveType ==
  ASSUME ActiveOK, NEW w \in Processes, Resolve(w)
  PROVE  ActiveOK'
<1>1. rec[w] \in Recordings /\ row[rec[w]] \in Rows /\ mem[w] \in Copies
  BY Busy DEF Resolve
<1>2. PICK d \in Identities(rec[w]) :
        /\ row' = [row EXCEPT ![rec[w]] = [@ EXCEPT !.dest = d]]
        /\ mem' = [mem EXCEPT ![w] = [@ EXCEPT !.dest = d]]
  BY DEF Resolve
<1>3. d \in Places
  BY <1>1 DEF Identities, Rows, Places
<1> DEFINE x == [row[rec[w]] EXCEPT !.dest = d]
<1>4. x \in Rows
  BY <1>1, <1>3 DEF Rows
<1>5. row' = [row EXCEPT ![rec[w]] = x]
  BY <1>2
<1> HIDE DEF x
<1>6. row' \in [Recordings -> Rows]
  BY <1>1, <1>4, <1>5, RowUpdate DEF ActiveOK
<1>7. mem' \in [Processes -> Copies]
  BY <1>2, <1>3 DEF ActiveOK, Copies
<1> QED BY <1>6, <1>7 DEF ActiveOK, Resolve, Unlock, Goto, Steps

LEMMA RouteType ==
  ASSUME ActiveOK, NEW w \in Processes, Route(w)
  PROVE  ActiveOK'
<1>1. pc[w] # "idle" /\ row[rec[w]] \in Rows /\ mem[w] \in Copies
  BY Busy DEF Route
<1>2. {"manual_review", "transfer_started"} \subseteq Lifecycle!Statuses
      /\ "nothing" \in Asks /\ "claim_storage" \in Steps
  BY DEF Lifecycle!Statuses, Asks, Steps
<1> QED BY <1>1, <1>2, SettleType, CommitType DEF Route

LEMMA ShareType ==
  ASSUME ActiveOK, NEW w \in Processes, Share(w)
  PROVE  ActiveOK'
<1>1. pc[w] # "idle" /\ row[rec[w]] \in Rows /\ mem[w] \in Copies
  BY Busy DEF Share
<1> DEFINE kept == IF row[rec[w]].artifact = None /\ provider = "synology"
                     THEN mem[w].path ELSE row[rec[w]].artifact
           x == [row[rec[w]] EXCEPT !.link = mem[w].path, !.artifact = kept]
           y == [mem[w] EXCEPT !.link = mem[w].path]
<1>2. kept \in Places /\ mem[w].path \in Places
  BY <1>1 DEF Rows, Copies
<1>3. x \in Rows /\ y \in Copies
  <2> HIDE DEF kept
  <2> QED BY <1>1, <1>2 DEF Rows, Copies
<1>4. Commit(w, "link_created", x, y, "card")
  BY DEF Share
<1> HIDE DEF x, y
<1>5. "link_created" \in Lifecycle!Statuses /\ "card" \in Steps
  BY DEF Lifecycle!Statuses, Steps
<1> QED BY <1>1, <1>3, <1>4, <1>5, CommitType

LEMMA RunStepActive ==
  ASSUME ActiveOK, NEW w \in Workers, RunStep(w)
  PROVE  ActiveOK'
<1>1. w \in Processes
  BY WorkersAreProcesses
<1>2. /\ { "calendar_event_found", "manual_review", "failed", "notion_updated",
           "awaiting_summary_email", "source_marked", "completed" } \subseteq Lifecycle!Statuses
      /\ {"nothing", "event", "card"} \subseteq Asks
      /\ {"mark", "await", "search", "complete"} \subseteq Steps
  BY DEF Lifecycle!Statuses, Asks, Steps
<1>3. pc[w] # "idle" => row[rec[w]] \in Rows /\ mem[w] \in Copies
  BY <1>1, Busy
<1>4. CASE LoadFound(w)
  BY <1>1, <1>4, LoadFoundType
<1>5. CASE LoadLocked(w)
  BY <1>1, <1>5, LoadLockedType
<1>6. CASE LoadGone(w)
  BY <1>1, <1>6, LeaveType DEF LoadGone
<1>7. CASE Release(w)
  BY <1>1, <1>7, ReleaseType
<1>8. CASE Calendar(w)
  BY <1>1, <1>2, <1>8, SettleType DEF Calendar
<1>9. CASE CalendarUnavailable(w)
  BY <1>1, <1>9 DEF ActiveOK, CalendarUnavailable, Goto, Steps, db
<1>10. CASE CalendarRejected(w)
  BY <1>1, <1>10 DEF ActiveOK, CalendarRejected, Goto, Steps, db
<1>11. CASE FailFound(w)
  BY <1>1, <1>11, FailFoundType
<1>12. CASE LookupMatched(w)
  BY <1>1, <1>12, LookupMatchedType
<1>13. CASE LookupUnresolved(w)
  BY <1>1, <1>2, <1>13, SettleType DEF LookupUnresolved
<1>14. CASE LookupDeferred(w)
  BY <1>1, <1>14, LeaveType DEF LookupDeferred
<1>15. CASE Resolve(w)
  BY <1>1, <1>15, ResolveType
<1>16. CASE ResolveRejected(w)
  BY <1>1, <1>2, <1>16, SettleType DEF ResolveRejected
<1>17. CASE Route(w)
  BY <1>1, <1>17, RouteType
<1>18. CASE StorageStep(w)
  BY <1>1, <1>18, StorageStepActive
<1>19. CASE Share(w)
  BY <1>1, <1>19, ShareType
<1>20. CASE WriteCard(w)
  BY <1>1, <1>20 DEF ActiveOK, WriteCard, Goto, Steps, db
<1>21. CASE SkipCard(w)
  BY <1>1, <1>2, <1>21, SettleType DEF SkipCard
<1>22. CASE CardDeferred(w)
  BY <1>1, <1>22, LeaveType DEF CardDeferred
<1>23. CASE CommitCard(w)
  BY <1>1, <1>2, <1>3, <1>23, CommitType DEF CommitCard
<1>24. CASE Await(w)
  BY <1>1, <1>2, <1>3, <1>24, CommitType DEF Await
<1>25. CASE SearchEnds(w)
  BY <1>1, <1>25 DEF ActiveOK, SearchEnds, Unlock, Goto, Steps
<1>26. CASE SearchWaits(w)
  BY <1>1, <1>26, LeaveType DEF SearchWaits
<1>27. CASE CompleteUnmarked(w)
  BY <1>1, <1>2, <1>27, SettleType DEF CompleteUnmarked
<1>28. CASE MarkSource(w)
  BY <1>1, <1>28 DEF ActiveOK, MarkSource, Goto, Steps, db
<1>29. CASE CommitMark(w)
  BY <1>1, <1>2, <1>3, <1>29, CommitType DEF CommitMark
<1>30. CASE Complete(w)
  BY <1>1, <1>2, <1>30, SettleType DEF Complete
<1>31. CASE StepFails(w)
  BY <1>1, <1>2, <1>31, SettleType DEF StepFails
<1> QED
  BY <1>4, <1>5, <1>6, <1>7, <1>8, <1>9, <1>10, <1>11, <1>12, <1>13, <1>14, <1>15, <1>16, <1>17, <1>18, <1>19, <1>20, <1>21, <1>22, <1>23, <1>24, <1>25, <1>26, <1>27, <1>28, <1>29, <1>30, <1>31 DEF RunStep

LEMMA RunStepExternal ==
  ASSUME TypeOK, NEW w \in Workers, RunStep(w)
  PROVE  ExternalOK'
<1> USE DEF TypeOK
<1>1. w \in Processes
  BY WorkersAreProcesses
<1>2. CASE LoadFound(w)
  BY <1>2 DEF ExternalOK, LoadFound, external, settings
<1>3. CASE LoadLocked(w)
  BY <1>3 DEF ExternalOK, LoadLocked, external, settings
<1>4. CASE LoadGone(w)
  BY <1>4 DEF ExternalOK, LoadGone, external, settings
<1>5. CASE Release(w)
  BY <1>5 DEF ExternalOK, Release, external, settings
<1>6. CASE Calendar(w)
  BY <1>6 DEF ExternalOK, Calendar, external, settings
<1>7. CASE CalendarUnavailable(w)
  BY <1>7, FaultType DEF ExternalOK, CalendarUnavailable, external, settings
<1>8. CASE CalendarRejected(w)
  BY <1>8 DEF ExternalOK, CalendarRejected, external, settings
<1>9. CASE FailFound(w)
  BY <1>9 DEF ExternalOK, FailFound, external, settings
<1>10. CASE LookupMatched(w)
  BY <1>10 DEF ExternalOK, LookupMatched, external, settings
<1>11. CASE LookupUnresolved(w)
  BY <1>11 DEF ExternalOK, LookupUnresolved, external, settings
<1>12. CASE LookupDeferred(w)
  BY <1>12, FaultType DEF ExternalOK, LookupDeferred, external, settings
<1>13. CASE Resolve(w)
  BY <1>13 DEF ExternalOK, Resolve, external, settings
<1>14. CASE ResolveRejected(w)
  BY <1>14 DEF ExternalOK, ResolveRejected, external, settings
<1>15. CASE Route(w)
  BY <1>15 DEF ExternalOK, Route, external, settings
<1>16. CASE StorageStep(w)
  BY <1>1, <1>16, StorageStepExternal
<1>17. CASE Share(w)
  BY <1>17 DEF ExternalOK, Share, external, settings
<1>18. CASE WriteCard(w)
  <2>1. mem[w].link \in Places
    BY <1>1, <1>18, Busy DEF ActiveOK, WriteCard, Copies
  <2> QED BY <1>18, <2>1 DEF ExternalOK, WriteCard, settings
<1>19. CASE SkipCard(w)
  BY <1>19 DEF ExternalOK, SkipCard, external, settings
<1>20. CASE CardDeferred(w)
  BY <1>20, FaultType DEF ExternalOK, CardDeferred, external, settings
<1>21. CASE CommitCard(w)
  BY <1>21 DEF ExternalOK, CommitCard, external, settings
<1>22. CASE Await(w)
  BY <1>22 DEF ExternalOK, Await, external, settings
<1>23. CASE SearchEnds(w)
  BY <1>23 DEF ExternalOK, SearchEnds, external, settings
<1>24. CASE SearchWaits(w)
  BY <1>24 DEF ExternalOK, SearchWaits, external, settings
<1>25. CASE CompleteUnmarked(w)
  BY <1>25 DEF ExternalOK, CompleteUnmarked, external, settings
<1>26. CASE MarkSource(w)
  <2>1. rec[w] \in Recordings
    BY <1>1, <1>26, Busy DEF ActiveOK, MarkSource
  <2> QED BY <1>26, <2>1 DEF ExternalOK, MarkSource, settings
<1>27. CASE CommitMark(w)
  BY <1>27 DEF ExternalOK, CommitMark, external, settings
<1>28. CASE Complete(w)
  BY <1>28 DEF ExternalOK, Complete, external, settings
<1>29. CASE StepFails(w)
  <2>1. rec[w] \in Recordings /\ mem[w].link \in Places
    BY <1>1, <1>29, Busy DEF ActiveOK, StepFails, Copies
  <2>2. card' \in [Recordings -> Places]
    BY <1>29, <2>1 DEF StepFails
  <2>3. marked' \in SUBSET Recordings
    BY <1>29, <2>1 DEF StepFails
  <2> QED BY <1>29, <2>2, <2>3 DEF ExternalOK, StepFails, settings
<1> QED
  BY <1>2, <1>3, <1>4, <1>5, <1>6, <1>7, <1>8, <1>9, <1>10, <1>11, <1>12, <1>13, <1>14, <1>15, <1>16, <1>17, <1>18, <1>19, <1>20, <1>21, <1>22, <1>23, <1>24, <1>25, <1>26, <1>27, <1>28, <1>29 DEF RunStep
-----------------------------------------------------------------------------
(* Requests, crashes and the passing of time.                              *)

LEMMA HandlerStepType ==
  ASSUME TypeOK, NEW h \in Handlers, HandlerStep(h)
  PROVE  TypeOK'
<1>1. h \in Processes /\ ActiveOK /\ ExternalOK
  BY WorkersAreProcesses DEF TypeOK, ActiveOK, ExternalOK
<1> SUFFICES ActiveOK' /\ ExternalOK'
  BY DEF TypeOK, ActiveOK, ExternalOK
<1>2. CASE Begin(h)
  <2>1. CopyOf(row[rec[h]]) \in Copies
    BY <1>1, <1>2, Busy, CopyType DEF Begin
  <2>2. ActiveOK'
    BY <1>1, <1>2, <2>1 DEF ActiveOK, Begin, Goto, Steps, db
  <2> QED BY <1>1, <1>2, <2>2 DEF ExternalOK, Begin, external, settings
<1>3. CASE StorageStep(h)
  BY <1>1, <1>3, StorageStepActive, StorageStepExternal
<1>4. CASE CommitRefused(h)
  BY <1>1, <1>4, RaisedType DEF ExternalOK, CommitRefused, external, settings
<1>5. CASE ShareAndComplete(h)
  <2> DEFINE v == [row[rec[h]] EXCEPT !.status = "completed", !.link = mem[h].path]
  <2>1. rec[h] \in Recordings /\ row[rec[h]] \in Rows /\ mem[h] \in Copies
    BY <1>1, <1>5, Busy DEF ShareAndComplete
  <2>2. v \in Rows
    BY <2>1 DEF Rows, Copies, Lifecycle!Statuses
  <2>3. row' = [row EXCEPT ![rec[h]] = v]
    BY <1>5 DEF ShareAndComplete
  <2> HIDE DEF v
  <2>4. row' \in [Recordings -> Rows]
    BY <1>1, <2>1, <2>2, <2>3, RowUpdate DEF ActiveOK
  <2>5. mem' \in [Processes -> Copies]
    BY <1>1, <1>5, NewRowType DEF ActiveOK, ShareAndComplete
  <2>6. ActiveOK'
    BY <1>1, <1>5, <2>4, <2>5 DEF ActiveOK, ShareAndComplete, Goto, Steps
  <2> QED BY <1>1, <1>5, <2>6 DEF ExternalOK, ShareAndComplete, external, settings
<1>6. CASE HandlerRaises(h)
  BY <1>1, <1>6, RaisedType DEF ExternalOK, HandlerRaises, external, settings
<1> QED BY <1>2, <1>3, <1>4, <1>5, <1>6 DEF HandlerStep

LEMMA ResetType == ASSUME NEW x \in Rows PROVE Reset(x) \in Rows
  BY DEF Reset, Rows, Places

LEMMA DecisionType ==
  ASSUME TypeOK, NEW r \in Recordings, Decision(r)
  PROVE  TypeOK'
<1>1. ActiveOK /\ ExternalOK /\ row[r] \in Rows
  BY DEF TypeOK, ActiveOK, ExternalOK
<1> SUFFICES ActiveOK' /\ ExternalOK'
  BY DEF TypeOK, ActiveOK, ExternalOK
<1>2. /\ {"calendar_event_found", "candidate_matched", "ignored", "transfer_started"}
            \subseteq Lifecycle!Statuses
      /\ "nothing" \in Asks
  BY DEF Lifecycle!Statuses, Asks
<1>3. CASE Answer(r)
  <2>1. PICK v : v \in Rows /\ row' = [row EXCEPT ![r] = v]
    <3>1. /\ [row[r] EXCEPT !.status = "calendar_event_found", !.ask = "nothing"] \in Rows
          /\ [row[r] EXCEPT !.status = "candidate_matched", !.page = TRUE,
                            !.ask = "nothing"] \in Rows
          /\ [row[r] EXCEPT !.status = "ignored", !.ask = "nothing"] \in Rows
      BY <1>1, <1>2 DEF Rows
    <3> QED BY <1>3, <3>1 DEF Answer
  <2>2. row' \in [Recordings -> Rows]
    BY <1>1, <2>1, RowUpdate DEF ActiveOK
  <2>3. ActiveOK'
    BY <1>1, <1>3, <2>2 DEF ActiveOK, Answer, local
  <2> QED BY <1>1, <1>3, <2>3 DEF ExternalOK, Answer, external, settings
<1>4. ASSUME NEW d \in Destinations, RouteInterview(r, d) PROVE ActiveOK' /\ ExternalOK'
  <2> DEFINE v == [Reset(row[r]) EXCEPT !.status = "transfer_started", !.dest = d,
                                        !.ask = "nothing"]
  <2>1. v \in Rows
    BY <1>1, <1>2, ResetType DEF Rows, Places
  <2>2. row' = [row EXCEPT ![r] = v]
    BY <1>4 DEF RouteInterview
  <2> HIDE DEF v
  <2>3. row' \in [Recordings -> Rows]
    BY <1>1, <2>1, <2>2, RowUpdate DEF ActiveOK
  <2>4. ActiveOK'
    BY <1>1, <1>4, <2>3 DEF ActiveOK, RouteInterview, local
  <2> QED BY <1>1, <1>4, <2>4 DEF ExternalOK, RouteInterview, external, settings
<1>5. ASSUME NEW h \in Handlers, NEW d \in Destinations, RouteNonInterview(h, r, d)
      PROVE  ActiveOK' /\ ExternalOK'
  <2> DEFINE v == [Reset(row[r]) EXCEPT !.status = "transfer_started", !.dest = d,
                                        !.route = "non_interview", !.ask = "nothing"]
  <2>1. v \in Rows
    BY <1>1, <1>2, ResetType DEF Rows, Places
  <2>2. row' = [row EXCEPT ![r] = v]
    BY <1>5 DEF RouteNonInterview
  <2> HIDE DEF v
  <2>3. row' \in [Recordings -> Rows]
    BY <1>1, <2>1, <2>2, RowUpdate DEF ActiveOK
  <2>4. r # None
    BY NoneAssumption
  <2>5. ActiveOK'
    BY <1>1, <1>5, <2>3, <2>4 DEF ActiveOK, RouteNonInterview, Goto, Steps
  <2> QED BY <1>1, <1>5, <2>5 DEF ExternalOK, RouteNonInterview, external, settings
<1> QED BY <1>3, <1>4, <1>5 DEF Decision

LEMMA ClaimType ==
  ASSUME TypeOK, NEW w \in Workers, NEW r \in Recordings, Claim(w, r)
  PROVE  TypeOK'
<1>1. w \in Processes /\ ActiveOK /\ ExternalOK /\ row[r] \in Rows /\ r # None
  BY WorkersAreProcesses, NoneAssumption DEF TypeOK, ActiveOK, ExternalOK
<1> DEFINE v == [row[r] EXCEPT !.lease = w, !.expired = FALSE]
<1>2. v \in Rows
  BY <1>1 DEF Rows
<1>3. row' = [row EXCEPT ![r] = v]
  BY DEF Claim
<1> HIDE DEF v
<1>4. row' \in [Recordings -> Rows]
  BY <1>1, <1>2, <1>3, RowUpdate DEF ActiveOK
<1>5. ActiveOK'
  BY <1>1, <1>4 DEF ActiveOK, Claim, Goto, Steps
<1>6. ExternalOK'
  BY <1>1 DEF ExternalOK, Claim, external, settings
<1> QED BY <1>5, <1>6 DEF TypeOK, ActiveOK, ExternalOK

LEMMA CrashType ==
  ASSUME TypeOK, NEW p \in Processes, Crash(p)
  PROVE  TypeOK'
<1>1. ActiveOK /\ ExternalOK
  BY DEF TypeOK, ActiveOK, ExternalOK
<1>2. ActiveOK'
  BY <1>1, NewRowType DEF ActiveOK, Crash, Goto, Steps
<1>3. ExternalOK'
  BY <1>1, FaultType DEF ExternalOK, Crash, external, settings
<1> QED BY <1>2, <1>3 DEF TypeOK, ActiveOK, ExternalOK

LEMMA TimeType ==
  ASSUME TypeOK, NEW r \in Recordings, ExpireLease(r) \/ DeadlinePasses(r)
  PROVE  TypeOK'
<1>1. CASE ExpireLease(r)
  <2> DEFINE v == [row[r] EXCEPT !.expired = TRUE]
  <2>1. row[r] \in Rows
    BY DEF TypeOK
  <2>2. v \in Rows
    BY <2>1 DEF Rows
  <2>3. row' = [row EXCEPT ![r] = v]
    BY <1>1 DEF ExpireLease
  <2> HIDE DEF v
  <2>4. row' \in [Recordings -> Rows]
    BY <2>2, <2>3, RowUpdate DEF TypeOK
  <2> QED BY <1>1, <2>4 DEF TypeOK, ExpireLease, local, external, settings
<1>2. CASE DeadlinePasses(r)
  BY <1>2 DEF TypeOK, DeadlinePasses, db, local, external, settings
<1> QED BY <1>1, <1>2

LEMMA InitType == Init => TypeOK
<1> SUFFICES ASSUME Init PROVE TypeOK
  OBVIOUS
<1>1. row \in [Recordings -> Rows] /\ mem \in [Processes -> Copies]
  BY NewRowType DEF Init
<1> QED BY <1>1, FaultsAssumption DEF Init, TypeOK, Steps, Places

LEMMA NextType == TypeOK /\ [Next]_vars => TypeOK'
<1> SUFFICES ASSUME TypeOK, [Next]_vars PROVE TypeOK'
  OBVIOUS
<1>1. ActiveOK
  BY DEF TypeOK, ActiveOK
<1>2. ASSUME NEW w \in Workers, RunStep(w) PROVE TypeOK'
  <2>1. ActiveOK' /\ ExternalOK'
    BY <1>1, <1>2, RunStepActive, RunStepExternal
  <2> QED BY <2>1 DEF TypeOK, ActiveOK, ExternalOK
<1>3. CASE UNCHANGED vars
  BY <1>3 DEF TypeOK, vars
<1> QED BY <1>2, <1>3, ClaimType, HandlerStepType, CrashType, TimeType, DecisionType DEF Next

(* The row, every process and the external stores keep their types.        *)
THEOREM TypeCorrect == Spec => []TypeOK
BY InitType, NextType, PTL DEF Spec
-----------------------------------------------------------------------------
(* The lease keeps two runs off one recording, for any number of workers,  *)
(* scanners, handlers and recordings, as long as no run outlives the six   *)
(* hours of its lease.                                                     *)

(* The row says who works on it: a run past its claim and before its       *)
(* release is named by an unexpired lease.                                 *)
LeaseInv ==
  \A w \in Workers :
    /\ pc[w] = "idle" => rec[w] = None
    /\ pc[w] \notin {"idle", "fail_found"} =>
         row[rec[w]].lease = w /\ ~row[rec[w]].expired

LEMMA LeaseExcludes == ASSUME TypeOK, LeaseInv PROVE OneRunPerRecording
<1> SUFFICES ASSUME NEW v \in Workers, NEW w \in Workers, v # w, rec[v] = rec[w], rec[v] # None
             PROVE  pc[v] = "fail_found" \/ pc[w] = "fail_found"
  BY DEF OneRunPerRecording
<1> QED BY DEF LeaseInv

LEMMA LeaseInit == Init => LeaseInv
  BY WorkersAreProcesses DEF Init, LeaseInv

(* The lease columns of every row are left alone.                          *)
LeasesKept ==
  \A r \in Recordings : row'[r].lease = row[r].lease /\ row'[r].expired = row[r].expired

(* A run in progress takes a step and stays in progress.                   *)
LEMMA InProgress ==
  ASSUME TypeOK, LeaseInv, NEW p \in Processes, LeasesKept, UNCHANGED rec,
         pc[p] \notin {"idle", "fail_found"}, NEW step, step \notin {"idle", "fail_found"},
         Goto(p, step)
  PROVE  LeaseInv'
<1>1. \A w \in Workers : pc'[w] = pc[w] \/ (w = p /\ pc'[w] = step)
  BY WorkersAreProcesses DEF Goto, TypeOK
<1>2. \A w \in Workers : pc[w] # "idle" => rec[w] \in Recordings
  BY WorkersAreProcesses DEF TypeOK
<1> QED BY <1>1, <1>2 DEF LeaseInv, LeasesKept

LEMMA SettleLease ==
  ASSUME TypeOK, LeaseInv, NEW p \in Processes, pc[p] \notin {"idle", "fail_found"},
         NEW s, NEW ask, Settle(p, s, ask)
  PROVE  LeaseInv'
<1>1. LeasesKept
  BY DEF LeasesKept, Settle, TypeOK, Rows
<1> QED BY <1>1, InProgress DEF Settle

LEMMA CommitLease ==
  ASSUME TypeOK, LeaseInv, NEW p \in Processes, pc[p] \notin {"idle", "fail_found"},
         NEW s, NEW x \in Rows, NEW y, NEW step, step \notin {"idle", "fail_found"},
         Commit(p, s, x, y, step),
         x.lease = row[rec[p]].lease, x.expired = row[rec[p]].expired
  PROVE  LeaseInv'
<1>1. LeasesKept
  <2>1. rec[p] \in Recordings
    BY DEF TypeOK
  <2>2. row'[rec[p]].lease = x.lease /\ row'[rec[p]].expired = x.expired
    BY <2>1 DEF Commit, TypeOK, Rows
  <2>3. \A r \in Recordings \ {rec[p]} : row'[r] = row[r]
    BY DEF Commit, TypeOK
  <2> QED BY <2>2, <2>3 DEF LeasesKept
<1> QED BY <1>1, InProgress DEF Commit

LEMMA PlainCommitLease ==
  ASSUME TypeOK, LeaseInv, NEW p \in Processes, pc[p] \notin {"idle", "fail_found"},
         NEW s, NEW step, step \notin {"idle", "fail_found"},
         Commit(p, s, row[rec[p]], mem[p], step)
  PROVE  LeaseInv'
<1>1. row[rec[p]] \in Rows
  BY DEF TypeOK
<1> QED BY <1>1, CommitLease

(* A step within a run that touches no row.                                *)
LEMMA QuietLease ==
  ASSUME TypeOK, LeaseInv, NEW p \in Processes, pc[p] \notin {"idle", "fail_found"},
         UNCHANGED <<row, rec>>, NEW step, step \notin {"idle", "fail_found"}, Goto(p, step)
  PROVE  LeaseInv'
<1>1. LeasesKept
  BY DEF LeasesKept
<1> QED BY <1>1, InProgress

LEMMA LeaveLease ==
  ASSUME TypeOK, LeaseInv, NEW p \in Processes, pc[p] \notin {"idle", "fail_found"}, Leave(p)
  PROVE  LeaseInv'
  BY QuietLease DEF Leave

(* A handler, or nobody, moves: the workers and the leases stay.           *)
LEMMA OthersLease ==
  ASSUME TypeOK, LeaseInv, LeasesKept,
         \A w \in Workers : pc'[w] = pc[w] /\ rec'[w] = rec[w]
  PROVE  LeaseInv'
<1>1. \A w \in Workers : pc[w] # "idle" => rec[w] \in Recordings
  BY WorkersAreProcesses DEF TypeOK
<1> QED BY <1>1 DEF LeaseInv, LeasesKept

LEMMA RaisedLease ==
  ASSUME TypeOK, LeaseInv, NEW p \in Processes, Raised(p)
  PROVE  LeaseInv'
<1>1. \A w \in Workers : pc[w] # "idle" => rec[w] \in Recordings
  BY WorkersAreProcesses DEF TypeOK
<1>2. \A w \in Workers : \/ pc'[w] = pc[w] /\ rec'[w] = rec[w]
                         \/ pc'[w] = "idle" /\ rec'[w] = None
  BY WorkersAreProcesses DEF Raised, Goto, TypeOK
<1> QED BY <1>1, <1>2 DEF LeaseInv, Raised
-----------------------------------------------------------------------------
(* Storage steps.                                                          *)

LEMMA CommitUploadLease ==
  ASSUME TypeOK, LeaseInv, NEW p \in Processes, CommitUpload(p)
  PROVE  LeaseInv'
<1> DEFINE x == [row[rec[p]] EXCEPT !.path = mem[p].dest]
           y == [mem[p] EXCEPT !.path = mem[p].dest]
<1>1. pc[p] = "commit_upload" /\ Commit(p, "uploaded", x, y, "share")
  BY DEF CommitUpload
<1>2. row[rec[p]] \in Rows /\ mem[p] \in Copies
  BY <1>1 DEF TypeOK
<1>3. x \in Rows /\ x.lease = row[rec[p]].lease /\ x.expired = row[rec[p]].expired
  BY <1>2 DEF Rows, Copies
<1> HIDE DEF x, y
<1> QED BY <1>1, <1>3, CommitLease

LEMMA CollideLease ==
  ASSUME TypeOK, LeaseInv, NEW p \in Processes, pc[p] \notin {"idle", "fail_found"}, Collide(p)
  PROVE  LeaseInv'
  BY RaisedLease, SettleLease DEF Collide

LEMMA StorageStepLease ==
  ASSUME TypeOK, LeaseInv, NEW p \in Processes, StorageStep(p)
  PROVE  LeaseInv'
<1>1. CASE StorageReused(p)
  BY <1>1, QuietLease DEF StorageReused, db
<1>2. CASE StorageClaimed(p)
  BY <1>2, QuietLease DEF StorageClaimed, db
<1>3. CASE StorageCollision(p)
  BY <1>3, CollideLease DEF StorageCollision
<1>4. CASE UploadBegins(p)
  BY <1>4, QuietLease DEF UploadBegins, db
<1>5. CASE UploadEnds(p)
  BY <1>5, QuietLease DEF UploadEnds, db
<1>6. CASE UploadBreaks(p)
  BY <1>6, CollideLease, SettleLease DEF UploadBreaks
<1>7. CASE PutObject(p)
  BY <1>7, QuietLease DEF PutObject, db
<1> QED
  BY <1>1, <1>2, <1>3, <1>4, <1>5, <1>6, <1>7, CommitUploadLease DEF StorageStep
-----------------------------------------------------------------------------
(* The other steps of a run.                                               *)

LEMMA LoadLockedLease ==
  ASSUME TypeOK, LeaseInv, NEW w \in Workers, LoadLocked(w)
  PROVE  LeaseInv'
<1> DEFINE step == FirstStep[row[rec[w]].status]
<1>1. step \notin {"idle", "fail_found"}
  BY DEF LoadLocked, TransferResumable, FirstStep
<1>2. Goto(w, step) /\ pc[w] \notin {"idle", "fail_found"} /\ UNCHANGED <<row, rec>>
  BY DEF LoadLocked
<1> HIDE DEF step
<1> QED BY <1>1, <1>2, QuietLease, WorkersAreProcesses

(* The release takes the run out of play before it clears its lease.       *)
LEMMA ReleaseLease ==
  ASSUME TypeOK, LeaseInv, NEW w \in Workers, Release(w)
  PROVE  LeaseInv'
<1>1. w \in Processes /\ rec[w] \in Recordings
  BY WorkersAreProcesses DEF Release, TypeOK
<1>2. \/ pc'[w] = "idle" /\ rec'[w] = None
      \/ pc'[w] = "fail_found"
  BY <1>1 DEF Release, Goto, TypeOK
<1>3. ASSUME NEW v \in Workers \ {w}, pc[v] \notin {"idle", "fail_found"}
      PROVE  row'[rec[v]] = row[rec[v]]
  <2>1. v \in Processes /\ rec[v] \in Recordings /\ row[rec[v]].lease = v
    BY <1>3, WorkersAreProcesses DEF TypeOK, LeaseInv
  <2> QED BY <2>1 DEF Release, TypeOK
<1>4. \A v \in Workers \ {w} : pc'[v] = pc[v] /\ rec'[v] = rec[v]
  BY WorkersAreProcesses DEF Release, Goto, TypeOK
<1> QED BY <1>2, <1>3, <1>4 DEF LeaseInv

LEMMA FailFoundLease ==
  ASSUME TypeOK, LeaseInv, NEW w \in Workers, FailFound(w)
  PROVE  LeaseInv'
<1>1. LeasesKept
  BY DEF LeasesKept, FailFound, TypeOK, Rows
<1>2. pc'[w] = "idle" /\ rec'[w] = None
  BY WorkersAreProcesses DEF FailFound, Goto, TypeOK
<1>3. \A v \in Workers \ {w} : pc'[v] = pc[v] /\ rec'[v] = rec[v]
  BY WorkersAreProcesses DEF FailFound, Goto, TypeOK
<1>4. \A v \in Workers : pc[v] # "idle" => rec[v] \in Recordings
  BY WorkersAreProcesses DEF TypeOK
<1> QED BY <1>1, <1>2, <1>3, <1>4 DEF LeaseInv, LeasesKept

LEMMA LookupMatchedLease ==
  ASSUME TypeOK, LeaseInv, NEW w \in Processes, LookupMatched(w)
  PROVE  LeaseInv'
<1>1. pc[w] \notin {"idle", "fail_found"} /\ row[rec[w]] \in Rows
  BY DEF LookupMatched, TypeOK
<1>2. PICK d \in Identities(rec[w]) :
        Commit(w, "candidate_matched", [row[rec[w]] EXCEPT !.page = TRUE, !.dest = d],
               [mem[w] EXCEPT !.dest = d], "route")
  BY DEF LookupMatched
<1>3. d \in Places
  BY <1>1 DEF Identities, Rows, Places
<1> DEFINE x == [row[rec[w]] EXCEPT !.page = TRUE, !.dest = d]
           y == [mem[w] EXCEPT !.dest = d]
<1>4. x \in Rows /\ x.lease = row[rec[w]].lease /\ x.expired = row[rec[w]].expired
  BY <1>1, <1>3 DEF Rows
<1>5. Commit(w, "candidate_matched", x, y, "route")
  BY <1>2
<1> HIDE DEF x, y
<1> QED BY <1>1, <1>4, <1>5, CommitLease

LEMMA ResolveLease ==
  ASSUME TypeOK, LeaseInv, NEW w \in Processes, Resolve(w)
  PROVE  LeaseInv'
<1>1. LeasesKept
  BY DEF LeasesKept, Resolve, TypeOK, Rows
<1> QED BY <1>1, InProgress DEF Resolve

LEMMA ShareLease ==
  ASSUME TypeOK, LeaseInv, NEW w \in Processes, Share(w)
  PROVE  LeaseInv'
<1>1. pc[w] \notin {"idle", "fail_found"} /\ row[rec[w]] \in Rows /\ mem[w] \in Copies
  BY DEF Share, TypeOK
<1> DEFINE kept == IF row[rec[w]].artifact = None /\ provider = "synology"
                     THEN mem[w].path ELSE row[rec[w]].artifact
           x == [row[rec[w]] EXCEPT !.link = mem[w].path, !.artifact = kept]
           y == [mem[w] EXCEPT !.link = mem[w].path]
<1>2. kept \in Places /\ mem[w].path \in Places
  BY <1>1 DEF Rows, Copies
<1>3. x \in Rows /\ x.lease = row[rec[w]].lease /\ x.expired = row[rec[w]].expired
  <2> HIDE DEF kept
  <2> QED BY <1>1, <1>2 DEF Rows
<1>4. Commit(w, "link_created", x, y, "card")
  BY DEF Share
<1> HIDE DEF x, y
<1> QED BY <1>1, <1>3, <1>4, CommitLease

LEMMA RunStepLease ==
  ASSUME TypeOK, LeaseInv, NEW w \in Workers, RunStep(w)
  PROVE  LeaseInv'
<1>1. w \in Processes
  BY WorkersAreProcesses
<1>2. CASE LoadFound(w)
  BY <1>1, <1>2, QuietLease DEF LoadFound, db
<1>3. CASE LoadLocked(w)
  BY <1>1, <1>3, LoadLockedLease
<1>4. CASE LoadGone(w)
  BY <1>1, <1>4, LeaveLease DEF LoadGone
<1>5. CASE Release(w)
  BY <1>1, <1>5, ReleaseLease
<1>6. CASE Calendar(w)
  BY <1>1, <1>6, SettleLease DEF Calendar
<1>7. CASE CalendarUnavailable(w)
  BY <1>1, <1>7, QuietLease DEF CalendarUnavailable, db
<1>8. CASE CalendarRejected(w)
  BY <1>1, <1>8, QuietLease DEF CalendarRejected, db
<1>9. CASE FailFound(w)
  BY <1>1, <1>9, FailFoundLease
<1>10. CASE LookupMatched(w)
  BY <1>1, <1>10, LookupMatchedLease
<1>11. CASE LookupUnresolved(w)
  BY <1>1, <1>11, SettleLease DEF LookupUnresolved
<1>12. CASE LookupDeferred(w)
  BY <1>1, <1>12, LeaveLease DEF LookupDeferred
<1>13. CASE Resolve(w)
  BY <1>1, <1>13, ResolveLease
<1>14. CASE ResolveRejected(w)
  BY <1>1, <1>14, SettleLease DEF ResolveRejected
<1>15. CASE Route(w)
  BY <1>1, <1>15, SettleLease, PlainCommitLease DEF Route
<1>16. CASE StorageStep(w)
  BY <1>1, <1>16, StorageStepLease
<1>17. CASE Share(w)
  BY <1>1, <1>17, ShareLease
<1>18. CASE WriteCard(w)
  BY <1>1, <1>18, QuietLease DEF WriteCard, db
<1>19. CASE SkipCard(w)
  BY <1>1, <1>19, SettleLease DEF SkipCard
<1>20. CASE CardDeferred(w)
  BY <1>1, <1>20, LeaveLease DEF CardDeferred
<1>21. CASE CommitCard(w)
  <2> DEFINE step == IF w \in fresh THEN "mark" ELSE "await"
  <2>1. Commit(w, "notion_updated", row[rec[w]], mem[w], step) /\ pc[w] = "commit_card"
    BY <1>21 DEF CommitCard
  <2>2. step \notin {"idle", "fail_found"}
    OBVIOUS
  <2> HIDE DEF step
  <2> QED BY <1>1, <2>1, <2>2, PlainCommitLease
<1>22. CASE Await(w)
  <2>1. Commit(w, "awaiting_summary_email", row[rec[w]], mem[w], "search") /\ pc[w] = "await"
    BY <1>22 DEF Await
  <2> QED BY <1>1, <2>1, PlainCommitLease
<1>23. CASE SearchEnds(w)
  BY <1>1, <1>23, QuietLease DEF SearchEnds, db
<1>24. CASE SearchWaits(w)
  BY <1>1, <1>24, LeaveLease DEF SearchWaits
<1>25. CASE CompleteUnmarked(w)
  BY <1>1, <1>25, SettleLease DEF CompleteUnmarked
<1>26. CASE MarkSource(w)
  BY <1>1, <1>26, QuietLease DEF MarkSource, db
<1>27. CASE CommitMark(w)
  BY <1>1, <1>27, PlainCommitLease DEF CommitMark
<1>28. CASE Complete(w)
  BY <1>1, <1>28, SettleLease DEF Complete
<1>29. CASE StepFails(w)
  BY <1>1, <1>29, SettleLease DEF StepFails
<1> QED
  BY <1>2, <1>3, <1>4, <1>5, <1>6, <1>7, <1>8, <1>9, <1>10, <1>11, <1>12, <1>13, <1>14, <1>15, <1>16, <1>17, <1>18, <1>19, <1>20, <1>21, <1>22, <1>23, <1>24, <1>25, <1>26, <1>27, <1>28, <1>29 DEF RunStep
-----------------------------------------------------------------------------
(* Claims, requests, crashes and the passing of time.                      *)

(* The claim: nobody else is in progress on r, whose lease was free.       *)
LEMMA ClaimLease ==
  ASSUME TypeOK, LeaseInv, NEW w \in Workers, NEW r \in Recordings, Claim(w, r)
  PROVE  LeaseInv'
<1>1. w \in Processes /\ row[r] \in Rows
  BY WorkersAreProcesses DEF TypeOK
<1>2. pc'[w] = "claimed" /\ rec'[w] = r /\ row'[r].lease = w /\ row'[r].expired = FALSE
  BY <1>1 DEF Claim, Goto, TypeOK, Rows
<1>3. \A q \in Recordings \ {r} : row'[q] = row[q]
  BY DEF Claim, TypeOK
<1>4. ASSUME NEW v \in Workers \ {w}, pc[v] \notin {"idle", "fail_found"}
      PROVE  rec[v] \in Recordings \ {r}
  <2>1. rec[v] \in Recordings /\ row[rec[v]].lease = v /\ ~row[rec[v]].expired /\ v # None
    BY <1>4, WorkersAreProcesses, NoneAssumption DEF TypeOK, LeaseInv
  <2> QED BY <2>1 DEF Claim
<1>5. \A v \in Workers \ {w} : pc'[v] = pc[v] /\ rec'[v] = rec[v]
  BY WorkersAreProcesses DEF Claim, Goto, TypeOK
<1> QED BY <1>2, <1>3, <1>4, <1>5 DEF LeaseInv

LEMMA HandlerStepLease ==
  ASSUME TypeOK, LeaseInv, NEW h \in Handlers, HandlerStep(h)
  PROVE  LeaseInv'
<1>1. h \in Processes /\ h \notin Workers
  BY WorkersAreProcesses, DisjointAssumption
<1>2. CASE Begin(h)
  BY <1>1, <1>2, QuietLease DEF Begin, db
<1>3. CASE StorageStep(h)
  BY <1>1, <1>3, StorageStepLease
<1>4. CASE CommitRefused(h)
  BY <1>1, <1>4, RaisedLease DEF CommitRefused
<1>5. CASE ShareAndComplete(h)
  <2>1. LeasesKept
    BY <1>5 DEF ShareAndComplete, LeasesKept, TypeOK, Rows
  <2>2. \A w \in Workers : pc'[w] = pc[w] /\ rec'[w] = rec[w]
    BY <1>1, <1>5, WorkersAreProcesses DEF ShareAndComplete, Goto, TypeOK
  <2> QED BY <2>1, <2>2, OthersLease
<1>6. CASE HandlerRaises(h)
  BY <1>1, <1>6, RaisedLease DEF HandlerRaises
<1> QED BY <1>2, <1>3, <1>4, <1>5, <1>6 DEF HandlerStep

LEMMA ResetLease ==
  ASSUME NEW x \in Rows
  PROVE  Reset(x) \in Rows /\ Reset(x).lease = x.lease /\ Reset(x).expired = x.expired
  BY ResetType DEF Reset, Rows

LEMMA DecisionLease ==
  ASSUME TypeOK, LeaseInv, NEW r \in Recordings, Decision(r)
  PROVE  LeaseInv'
<1>1. row[r] \in Rows
  BY DEF TypeOK
<1>2. CASE Answer(r)
  <2>1. CASE row' = [row EXCEPT ![r] = [@ EXCEPT !.status = "calendar_event_found",
                                                 !.ask = "nothing"]]
    BY <1>2, <2>1, OthersLease DEF LeasesKept, Answer, local, TypeOK, Rows
  <2>2. CASE row' = [row EXCEPT ![r] = [@ EXCEPT !.status = "candidate_matched", !.page = TRUE,
                                                 !.ask = "nothing"]]
    BY <1>2, <2>2, OthersLease DEF LeasesKept, Answer, local, TypeOK, Rows
  <2>3. CASE row' = [row EXCEPT ![r] = [@ EXCEPT !.status = "ignored", !.ask = "nothing"]]
    BY <1>2, <2>3, OthersLease DEF LeasesKept, Answer, local, TypeOK, Rows
  <2> QED BY <1>2, <2>1, <2>2, <2>3 DEF Answer
<1>3. ASSUME NEW d \in Destinations, RouteInterview(r, d) PROVE LeaseInv'
  <2>1. row'[r].lease = row[r].lease /\ row'[r].expired = row[r].expired
    BY <1>1, <1>3, ResetLease DEF RouteInterview, TypeOK, Rows
  <2>2. \A q \in Recordings \ {r} : row'[q] = row[q]
    BY <1>3 DEF RouteInterview, TypeOK
  <2>3. LeasesKept
    BY <2>1, <2>2 DEF LeasesKept
  <2> QED BY <1>3, <2>3, OthersLease DEF RouteInterview, local
<1>4. ASSUME NEW h \in Handlers, NEW d \in Destinations, RouteNonInterview(h, r, d)
      PROVE  LeaseInv'
  <2>1. row'[r].lease = row[r].lease /\ row'[r].expired = row[r].expired
    BY <1>1, <1>4, ResetLease DEF RouteNonInterview, TypeOK, Rows
  <2>2. \A q \in Recordings \ {r} : row'[q] = row[q]
    BY <1>4 DEF RouteNonInterview, TypeOK
  <2>3. LeasesKept
    BY <2>1, <2>2 DEF LeasesKept
  <2>4. h \notin Workers
    BY DisjointAssumption
  <2>5. \A w \in Workers : pc'[w] = pc[w] /\ rec'[w] = rec[w]
    BY <1>4, <2>4, WorkersAreProcesses DEF RouteNonInterview, Goto, TypeOK
  <2> QED BY <2>3, <2>5, OthersLease
<1> QED BY <1>2, <1>3, <1>4 DEF Decision

LEMMA CrashLease ==
  ASSUME TypeOK, LeaseInv, NEW p \in Processes, Crash(p)
  PROVE  LeaseInv'
<1>1. \A w \in Workers : \/ pc'[w] = pc[w] /\ rec'[w] = rec[w]
                         \/ pc'[w] = "idle" /\ rec'[w] = None
  BY WorkersAreProcesses DEF Crash, Goto, TypeOK
<1> QED BY <1>1 DEF LeaseInv, Crash

(* A lease runs out only when its run is over: here SlowRuns matters.      *)
LEMMA TimeLease ==
  ASSUME SlowRuns = FALSE, TypeOK, LeaseInv, NEW r \in Recordings,
         ExpireLease(r) \/ DeadlinePasses(r)
  PROVE  LeaseInv'
<1>1. CASE ExpireLease(r)
  <2>1. ASSUME NEW w \in Workers, pc[w] \notin {"idle", "fail_found"} PROVE rec[w] # r
    BY <1>1, <2>1 DEF ExpireLease, LeaseInv
  <2>2. \A q \in Recordings \ {r} : row'[q] = row[q]
    BY <1>1 DEF ExpireLease, TypeOK
  <2>3. \A w \in Workers : pc[w] # "idle" => rec[w] \in Recordings
    BY WorkersAreProcesses DEF TypeOK
  <2> QED BY <1>1, <2>1, <2>2, <2>3 DEF ExpireLease, local, LeaseInv
<1>2. CASE DeadlinePasses(r)
  BY <1>2 DEF DeadlinePasses, LeaseInv, db, local
<1> QED BY <1>1, <1>2

LEMMA NextLease ==
  ASSUME SlowRuns = FALSE, TypeOK, LeaseInv, [Next]_vars
  PROVE  LeaseInv'
<1>1. CASE UNCHANGED vars
  BY <1>1 DEF LeaseInv, vars
<1> QED
  BY <1>1, RunStepLease, HandlerStepLease, ClaimLease, CrashLease, TimeLease, DecisionLease
  DEF Next

(* Past the claim at most one run works on a recording, whatever crashes,  *)
(* provided that no run takes longer than its lease.                       *)
THEOREM OneRun ==
  ASSUME SlowRuns = FALSE
  PROVE  Spec => []OneRunPerRecording
<1>1. Init => TypeOK /\ LeaseInv
  BY InitType, LeaseInit
<1>2. TypeOK /\ LeaseInv /\ [Next]_vars => (TypeOK /\ LeaseInv)'
  BY NextType, NextLease
<1>3. TypeOK /\ LeaseInv => OneRunPerRecording
  BY LeaseExcludes
<1> QED BY <1>1, <1>2, <1>3, PTL DEF Spec
=============================================================================
