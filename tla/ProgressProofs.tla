---------------------------- MODULE ProgressProofs ----------------------------
(***************************************************************************)
(* What a committed status says is true, for any number of workers,        *)
(* scanners, handlers and recordings: the argument joins the lease (nobody *)
(* else works on the recording) and the stores (what a process remembers   *)
(* of a file is so) with the agreement of a run's copy and its row.        *)
(* Recordings stored without a lease come second: there run and request    *)
(* agree on the folder, and it does not matter which of them commits last. *)
(***************************************************************************)
EXTENDS StorageProofs

(* The statuses a run's copy can have before each of its steps.            *)
StepStatus ==
  [ calendar      |-> {"found"},             lookup      |-> {"calendar_event_found"},
    resolve       |-> {"candidate_matched"}, route       |-> {"candidate_matched"},
    claim_storage |-> {"transfer_started"},  upload      |-> {"transfer_started"},
    uploading     |-> {"transfer_started"},  commit_upload |-> {"transfer_started"},
    share         |-> {"uploaded"},          card        |-> {"link_created"},
    commit_card   |-> {"link_created"},      await       |-> {"notion_updated"},
    search        |-> {"awaiting_summary_email"},
    mark          |-> {"notion_updated", "awaiting_summary_email"},
    commit_mark   |-> {"notion_updated", "awaiting_summary_email"},
    complete      |-> {"source_marked"} ]

(* A run has read its row and has not yet given it back.                   *)
Loaded ==
  { "calendar", "lookup", "resolve", "route", "claim_storage", "upload", "uploading",
    "commit_upload", "share", "card", "commit_card", "await", "search", "mark",
    "commit_mark", "complete" }

(* The steps before the transfer.                                          *)
BeforeTransfer == {"calendar", "lookup", "resolve", "route"}

(* Nothing of the copy is out of date.                                     *)
Fresh(w) == mem[w] = CopyOf(row[rec[w]])

(* What a run knows of the row of an interview.  The found run has no lock *)
(* and another instance may just have failed the recording; before the     *)
(* transfer of a Synology run a recruiter may have routed it.              *)
Knows(w) ==
  /\ pc[w] = "calendar" =>
       row[rec[w]].status \in {"found", "failed"} /\ ~row[rec[w]].page /\ row[rec[w]].dest = None
  /\ pc[w] \in {"lookup", "resolve"} => Fresh(w) /\ lock[rec[w]] = w
  /\ pc[w] = "route" =>
       \/ provider = "minio" /\ Fresh(w)
       \/ /\ provider = "synology" /\ mem[w].dest = None
          /\ row[rec[w]].status \in {"candidate_matched", "transfer_started"}
  /\ pc[w] \notin BeforeTransfer => Fresh(w)
  /\ pc[w] = "commit_card" => card[rec[w]] = mem[w].link
  /\ pc[w] = "commit_mark" => rec[w] \in marked

WorkerInv(w) ==
  pc[w] \in Loaded =>
    /\ mem[w].status \in StepStatus[pc[w]]
    /\ row[rec[w]].route = "interview" => Knows(w)
    /\ row[rec[w]].route = "non_interview" =>
         mem[w].route = "non_interview" /\ w \notin fresh /\ pc[w] \notin BeforeTransfer

(* The part of StatusIsEarned (and of FileInChosenFolder) a run commits.   *)
Earned(r) ==
  /\ row[r].status \in Stored => row[r].path # None /\ row[r].path = row[r].dest
  /\ row[r].status \in Linked => row[r].link = row[r].path
  /\ row[r].status \in Carded => card[r] = row[r].link
  /\ row[r].status = "source_marked" => r \in marked

(* Before a transfer a recording is an interview without a folder.         *)
Untouched(r) ==
  row[r].route = "interview" /\ (provider = "synology" => row[r].dest = None)

RowInv(r) ==
  /\ row[r].status \in {"found", "calendar_event_found", "candidate_matched"} => Untouched(r)
  /\ row[r].status = "manual_review" /\ row[r].ask # "nothing" => Untouched(r)
  /\ row[r].status = "found" => ~row[r].page /\ row[r].dest = None
  /\ row[r].route = "interview" => Earned(r)
  /\ row[r].route # "interview" => Handlers # {}

HandlerInv(h) == pc[h] # "idle" => row[rec[h]].route = "non_interview"

ProgressInv ==
  /\ \A w \in Workers : WorkerInv(w)
  /\ \A r \in Recordings : RowInv(r)
  /\ \A h \in Handlers : HandlerInv(h)

(* Found recordings belong to the one instance that scans.                 *)
ScanInv ==
  \A w \in Workers :
    /\ pc[w] \in {"calendar", "release_fail", "fail_found"} => w \in Scanners
    /\ pc[w] = "claimed" /\ row[rec[w]].status = "found" => w \in Scanners
    /\ pc[w] = "calendar" => row[rec[w]].status = "found"
-----------------------------------------------------------------------------
LEMMA ProgressInit == Init => ProgressInv
<1> SUFFICES ASSUME Init PROVE ProgressInv
  OBVIOUS
<1>1. \A p \in Processes : pc[p] = "idle"
  BY DEF Init
<1>2. ASSUME NEW r \in Recordings PROVE RowInv(r)
  <2>1. row[r] = NewRow
    BY DEF Init
  <2> QED BY <2>1 DEF RowInv, Untouched, Earned, Stored, Linked, Carded, NewRow
<1> QED BY <1>1, <1>2, WorkersAreProcesses DEF ProgressInv, WorkerInv, HandlerInv, Loaded

(* Two runs in progress work on different recordings.                      *)
LEMMA Apart ==
  ASSUME TypeOK, LeaseInv, NEW v \in Workers, NEW w \in Workers, v # w,
         pc[v] \notin {"idle", "fail_found"}, pc[w] \notin {"idle", "fail_found"}
  PROVE  rec[v] \in Recordings \ {rec[w]}
  BY WorkersAreProcesses DEF TypeOK, LeaseInv

(* A step of p leaves what the others know alone: the other processes, and *)
(* every other recording.                                                  *)
OthersStay(p, r) ==
  /\ provider' = provider
  /\ \A q \in Processes \ {p} :
       pc'[q] = pc[q] /\ rec'[q] = rec[q] /\ mem'[q] = mem[q] /\ (q \in fresh' => q \in fresh)
  /\ \A q \in Recordings \ {r} :
       /\ row'[q] = row[q] /\ lock'[q] = lock[q] /\ card'[q] = card[q]
       /\ q \in marked => q \in marked'

(* What a run knows stays true when neither it nor its recording moves.    *)
LEMMA WorkerStays ==
  ASSUME TypeOK, NEW v \in Workers, WorkerInv(v), provider' = provider,
         pc'[v] = pc[v], rec'[v] = rec[v], mem'[v] = mem[v], v \in fresh' => v \in fresh,
         row'[rec[v]] = row[rec[v]], lock'[rec[v]] = lock[rec[v]],
         card'[rec[v]] = card[rec[v]], rec[v] \in marked => rec[v] \in marked'
  PROVE  WorkerInv(v)'
  BY DEF WorkerInv, Knows, Fresh, CopyOf

LEMMA RowStays ==
  ASSUME NEW q \in Recordings, RowInv(q), provider' = provider, row'[q] = row[q],
         card'[q] = card[q], q \in marked => q \in marked'
  PROVE  RowInv(q)'
  BY DEF RowInv, Untouched, Earned

(* A run in progress moves on its own recording.                           *)
LEMMA OwnStep ==
  ASSUME TypeOK, LeaseInv, ProgressInv, NEW w \in Workers, pc[w] \notin {"idle", "fail_found"},
         NEW r \in Recordings, r = rec[w], OthersStay(w, r), row'[r].route = row[r].route,
         RowInv(r)', WorkerInv(w)'
  PROVE  ProgressInv'
<1>1. ASSUME NEW v \in Workers \ {w} PROVE WorkerInv(v)'
  <2>1. v \in Processes \ {w}
    BY WorkersAreProcesses
  <2>2. CASE pc[v] \in {"idle", "fail_found"}
    BY <2>1, <2>2 DEF WorkerInv, OthersStay, Loaded
  <2>3. CASE pc[v] \notin {"idle", "fail_found"}
    <3>1. rec[v] \in Recordings \ {rec[w]}
      BY <2>3, Apart
    <3> QED BY <2>1, <3>1, WorkerStays DEF OthersStay, ProgressInv
  <2> QED BY <2>2, <2>3
<1>2. ASSUME NEW q \in Recordings \ {r} PROVE RowInv(q)'
  BY <1>2, RowStays DEF ProgressInv, OthersStay
<1>3. ASSUME NEW h \in Handlers PROVE HandlerInv(h)'
  <2>1. h \in Processes \ {w}
    BY WorkersAreProcesses, DisjointAssumption
  <2>2. pc'[h] = pc[h] /\ rec'[h] = rec[h]
    BY <2>1 DEF OthersStay
  <2>3. pc[h] # "idle" => row'[rec[h]].route = row[rec[h]].route
    BY <2>1 DEF OthersStay, TypeOK
  <2> QED BY <2>2, <2>3 DEF HandlerInv, ProgressInv
<1> QED BY <1>1, <1>2, <1>3 DEF ProgressInv
-----------------------------------------------------------------------------
(* The building blocks, taken by a run in progress.                        *)

LEMMA SettleProgress ==
  ASSUME TypeOK, LeaseInv, ProgressInv, NEW w \in Workers, pc[w] \in Loaded,
         NEW r \in Recordings, r = rec[w], NEW s, NEW ask, Settle(w, s, ask), UNCHANGED provider,
         \A q \in Recordings \ {r} : card'[q] = card[q] /\ (q \in marked => q \in marked'),
         s \in {"calendar_event_found", "manual_review", "failed", "completed"},
         s = "calendar_event_found" \/ ask # "nothing" => Untouched(r),
         s = "completed" /\ row[r].route = "interview" =>
           row[r].status \in Carded /\ card'[r] = card[r]
  PROVE  ProgressInv'
<1>1. w \in Processes /\ pc[w] \notin {"idle", "fail_found"}
  BY WorkersAreProcesses DEF Loaded
<1>2. /\ pc'[w] = "release"
      /\ row'[r] = [row[r] EXCEPT !.status = s, !.ask = ask]
      /\ OthersStay(w, r)
  BY <1>1 DEF Settle, Goto, Unlock, TypeOK, OthersStay
<1>3. /\ row'[r].status = s /\ row'[r].ask = ask /\ row'[r].route = row[r].route
      /\ row'[r].dest = row[r].dest /\ row'[r].path = row[r].path /\ row'[r].link = row[r].link
      /\ row'[r].page = row[r].page
  BY <1>2 DEF TypeOK, Rows
<1>4. RowInv(r)'
  <2>1. Earned(r) \/ row[r].route # "interview"
    BY DEF ProgressInv, RowInv
  <2>2. row'[r].route = "interview" => Earned(r)'
    BY <1>3, <2>1 DEF Earned, Stored, Linked, Carded
  <2>3. Untouched(r) => Untouched(r)'
    BY <1>3 DEF Untouched
  <2> QED BY <1>3, <2>2, <2>3 DEF ProgressInv, RowInv
<1>5. WorkerInv(w)'
  BY <1>2 DEF WorkerInv, Loaded
<1> QED BY <1>1, <1>2, <1>3, <1>4, <1>5, OwnStep

(* A run stops without a word on its row.                                  *)
LEMMA StopProgress ==
  ASSUME TypeOK, LeaseInv, ProgressInv, NEW w \in Workers, pc[w] \notin {"idle", "fail_found"},
         NEW r \in Recordings, r = rec[w], NEW step, step \notin Loaded, Goto(w, step),
         UNCHANGED <<row, rec, mem, fresh, card, marked, provider>>,
         \A q \in Recordings \ {r} : lock'[q] = lock[q]
  PROVE  ProgressInv'
<1>1. w \in Processes
  BY WorkersAreProcesses
<1>2. OthersStay(w, r) /\ pc'[w] = step
  BY <1>1 DEF Goto, TypeOK, OthersStay
<1>3. RowInv(r)' /\ WorkerInv(w)'
  BY <1>2, RowStays DEF ProgressInv, WorkerInv
<1> QED BY <1>2, <1>3, OwnStep

LEMMA LeaveProgress ==
  ASSUME TypeOK, LeaseInv, ProgressInv, NEW w \in Workers, pc[w] \notin {"idle", "fail_found"},
         Leave(w), UNCHANGED <<card, marked, provider>>
  PROVE  ProgressInv'
<1>1. rec[w] \in Recordings
  BY WorkersAreProcesses DEF TypeOK
<1>2. \A q \in Recordings \ {rec[w]} : lock'[q] = lock[q]
  BY DEF Leave, Unlock, TypeOK
<1>3. "release" \notin Loaded
  BY DEF Loaded
<1> QED BY <1>1, <1>2, <1>3, StopProgress DEF Leave

(* From one external call of the transfer to the next.                     *)
LEMMA CallProgress ==
  ASSUME TypeOK, LeaseInv, ProgressInv, NEW w \in Workers, pc[w] \in Loaded \ BeforeTransfer,
         NEW r \in Recordings, r = rec[w], NEW step, Goto(w, step),
         step \in Loaded \ (BeforeTransfer \cup {"commit_card", "commit_mark"}),
         mem[w].status \in StepStatus[step],
         UNCHANGED <<row, rec, mem, fresh, card, marked, provider>>,
         \A q \in Recordings \ {r} : lock'[q] = lock[q]
  PROVE  ProgressInv'
<1>1. w \in Processes /\ pc[w] \notin {"idle", "fail_found"}
  BY WorkersAreProcesses DEF Loaded
<1>2. OthersStay(w, r) /\ pc'[w] = step
  BY <1>1 DEF Goto, TypeOK, OthersStay
<1>3. RowInv(r)'
  BY RowStays DEF ProgressInv
<1>4. WorkerInv(w)'
  BY <1>2 DEF ProgressInv, WorkerInv, Knows, Fresh, CopyOf, BeforeTransfer
<1> QED BY <1>1, <1>2, <1>3, <1>4, OwnStep

(* A commit of the transfer: the copy is the new row.                      *)
LEMMA CommitProgress ==
  ASSUME TypeOK, LeaseInv, ProgressInv, NEW w \in Workers, pc[w] \in Loaded,
         NEW r \in Recordings, r = rec[w], NEW s, NEW x \in Rows, NEW y \in Copies, NEW step,
         Commit(w, s, x, y, step), UNCHANGED <<card, marked, provider>>,
         step \in Loaded \ (BeforeTransfer \cup {"commit_card", "commit_mark"}),
         s \in StepStatus[step], x.route = row[r].route,
         x.route = "interview" => y = CopyOf(x),
         x.route = "non_interview" => y.route = "non_interview" /\ w \notin fresh,
         s \notin {"found", "calendar_event_found", "candidate_matched", "manual_review"},
         x.route = "interview" =>
           /\ s \in Stored => x.path # None /\ x.path = x.dest
           /\ s \in Linked => x.link = x.path
           /\ s \in Carded => card[r] = x.link
           /\ s = "source_marked" => r \in marked
  PROVE  ProgressInv'
<1>1. w \in Processes /\ pc[w] \notin {"idle", "fail_found"}
  BY WorkersAreProcesses DEF Loaded
<1>2. /\ pc'[w] = step /\ rec'[w] = r /\ fresh' = fresh
      /\ row'[r] = [x EXCEPT !.status = s]
      /\ mem'[w] = [y EXCEPT !.status = s]
      /\ OthersStay(w, r)
  BY <1>1 DEF Commit, Goto, Unlock, TypeOK, OthersStay
<1>3. /\ row'[r].status = s /\ row'[r].route = x.route /\ row'[r].dest = x.dest
      /\ row'[r].path = x.path /\ row'[r].link = x.link
  BY <1>2 DEF Rows
<1>4. mem'[w].status = s /\ mem'[w].route = y.route
  BY <1>2 DEF Copies
<1>5. RowInv(r)'
  BY <1>3 DEF ProgressInv, RowInv, Earned
<1>6. x.route = "interview" => Fresh(w)'
  BY <1>2, <1>3 DEF Fresh, CopyOf
<1>7. WorkerInv(w)'
  BY <1>2, <1>3, <1>4, <1>6 DEF WorkerInv, Knows, BeforeTransfer
<1> QED BY <1>1, <1>2, <1>3, <1>5, <1>7, OwnStep
-----------------------------------------------------------------------------
(* Storage steps of a run.                                                 *)

(* A run that works on a non-interview recording has left its copy behind. *)
LEMMA Knowledge ==
  ASSUME TypeOK, ProgressInv, NEW w \in Workers, pc[w] \in Loaded
  PROVE  /\ rec[w] \in Recordings /\ row[rec[w]] \in Rows /\ mem[w] \in Copies
         /\ mem[w].status \in StepStatus[pc[w]]
         /\ row[rec[w]].route = "interview" => Knows(w)
         /\ row[rec[w]].route # "interview" =>
              /\ row[rec[w]].route = "non_interview" /\ mem[w].route = "non_interview"
              /\ w \notin fresh /\ pc[w] \notin BeforeTransfer
<1>1. w \in Processes
  BY WorkersAreProcesses
<1>2. rec[w] \in Recordings /\ row[rec[w]] \in Rows /\ mem[w] \in Copies
  BY <1>1 DEF TypeOK, Loaded
<1>3. row[rec[w]].route \in {"interview", "non_interview"}
  BY <1>2 DEF Rows
<1> QED BY <1>2, <1>3 DEF ProgressInv, WorkerInv

LEMMA CollideProgress ==
  ASSUME TypeOK, LeaseInv, ProgressInv, NEW w \in Workers, pc[w] \in Loaded, Collide(w),
         UNCHANGED <<card, marked, provider>>
  PROVE  ProgressInv'
<1>1. w \notin Handlers /\ rec[w] \in Recordings
  BY Knowledge, DisjointAssumption
<1> QED BY <1>1, SettleProgress DEF Collide

LEMMA CommitUploadProgress ==
  ASSUME TypeOK, LeaseInv, StorageInv, ProgressInv, NEW w \in Workers, CommitUpload(w)
  PROVE  ProgressInv'
<1> DEFINE r == rec[w]
           x == [row[rec[w]] EXCEPT !.path = mem[w].dest]
           y == [mem[w] EXCEPT !.path = mem[w].dest]
<1>1. /\ pc[w] = "commit_upload" /\ Commit(w, "uploaded", x, y, "share")
      /\ UNCHANGED <<card, marked, provider>>
  BY DEF CommitUpload, external, settings
<1>2. /\ r \in Recordings /\ row[r] \in Rows /\ mem[w] \in Copies
      /\ row[r].route = "interview" => Fresh(w)
      /\ row[r].route = "non_interview" => mem[w].route = "non_interview" /\ w \notin fresh
  BY <1>1, Knowledge DEF Knows, Loaded, BeforeTransfer
<1>3. mem[w].dest # None
  BY <1>1, WorkersAreProcesses DEF StorageInv, ProcessInv
<1>4. /\ x \in Rows /\ x.route = row[r].route /\ x.path = mem[w].dest /\ x.dest = row[r].dest
      /\ y \in Copies /\ y.route = mem[w].route
  BY <1>2 DEF Rows, Copies
<1>5. x.route = "interview" => y = CopyOf(x) /\ x.path = x.dest
  BY <1>2, <1>4 DEF Fresh, CopyOf, Copies, Rows
<1>6. /\ "uploaded" \in StepStatus["share"] /\ "uploaded" \notin Linked /\ "uploaded" \notin Carded
      /\ "share" \in Loaded \ (BeforeTransfer \cup {"commit_card", "commit_mark"})
      /\ pc[w] \in Loaded
  BY <1>1 DEF StepStatus, Stored, Linked, Carded, Loaded, BeforeTransfer
<1> HIDE DEF r, x, y
<1> QED BY <1>1, <1>2, <1>3, <1>4, <1>5, <1>6, CommitProgress DEF r

LEMMA StorageStepProgress ==
  ASSUME TypeOK, LeaseInv, StorageInv, ProgressInv, NEW w \in Workers, StorageStep(w)
  PROVE  ProgressInv'
<1>1. CASE CommitUpload(w)
  BY <1>1, CommitUploadProgress
<1>2. CASE StorageCollision(w)
  BY <1>2, CollideProgress DEF StorageCollision, Loaded, external, settings
<1>3. CASE UploadBreaks(w)
  <2>1. pc[w] \in Loaded /\ UNCHANGED <<card, marked, provider>> /\ rec[w] \in Recordings
    BY <1>3, Knowledge DEF UploadBreaks, Loaded, settings
  <2>2. Collide(w) \/ Settle(w, "failed", "nothing")
    BY <1>3 DEF UploadBreaks
  <2> QED BY <2>1, <2>2, CollideProgress, SettleProgress
<1>4. ASSUME pc[w] \in {"claim_storage", "upload", "uploading"},
             NEW step \in {"upload", "uploading", "commit_upload"}, Goto(w, step),
             UNCHANGED <<row, lock, rec, mem, fresh, card, marked, provider>>
      PROVE  ProgressInv'
  <2>1. /\ pc[w] \in Loaded \ BeforeTransfer
        /\ step \in Loaded \ (BeforeTransfer \cup {"commit_card", "commit_mark"})
    BY <1>4 DEF Loaded, BeforeTransfer
  <2>2. rec[w] \in Recordings /\ mem[w].status \in StepStatus[step]
    BY <1>4, <2>1, Knowledge DEF StepStatus
  <2> QED BY <1>4, <2>1, <2>2, CallProgress
<1>5. CASE StorageReused(w)
  BY <1>5, <1>4 DEF StorageReused, db, external, settings
<1>6. CASE StorageClaimed(w)
  BY <1>6, <1>4 DEF StorageClaimed, db, settings
<1>7. CASE UploadBegins(w)
  BY <1>7, <1>4 DEF UploadBegins, db, settings
<1>8. CASE UploadEnds(w)
  BY <1>8, <1>4 DEF UploadEnds, db, settings
<1>9. CASE PutObject(w)
  BY <1>9, <1>4 DEF PutObject, db, settings
<1> QED BY <1>1, <1>2, <1>3, <1>5, <1>6, <1>7, <1>8, <1>9 DEF StorageStep
-----------------------------------------------------------------------------
(* The other steps of a run.                                               *)

LEMMA LoadFoundProgress ==
  ASSUME TypeOK, LeaseInv, ProgressInv, NEW w \in Workers, LoadFound(w)
  PROVE  ProgressInv'
<1> DEFINE r == rec[w]
<1>1. w \in Processes /\ r \in Recordings /\ row[r] \in Rows
  BY WorkersAreProcesses DEF LoadFound, TypeOK
<1>2. /\ pc'[w] = "calendar" /\ rec'[w] = r /\ row' = row
      /\ mem'[w] = CopyOf(row[r]) /\ UNCHANGED <<card, marked, provider>>
      /\ OthersStay(w, r)
  BY <1>1 DEF LoadFound, Goto, TypeOK, OthersStay, db, external, settings
<1>3. row[r].status = "found" /\ row[r].route = "interview" /\ ~row[r].page /\ row[r].dest = None
  BY <1>1 DEF LoadFound, ProgressInv, RowInv, Untouched
<1>4. RowInv(r)'
  BY <1>1, <1>2, RowStays DEF ProgressInv
<1>5. WorkerInv(w)'
  BY <1>2, <1>3 DEF WorkerInv, Knows, CopyOf, StepStatus, BeforeTransfer
<1> QED BY <1>1, <1>2, <1>4, <1>5, OwnStep DEF LoadFound

LEMMA LoadLockedProgress ==
  ASSUME TypeOK, LeaseInv, ProgressInv, NEW w \in Workers, LoadLocked(w)
  PROVE  ProgressInv'
<1> DEFINE r == rec[w]
           step == FirstStep[row[rec[w]].status]
<1>1. w \in Processes /\ r \in Recordings /\ row[r] \in Rows
  BY WorkersAreProcesses DEF LoadLocked, TypeOK
<1>2. /\ pc'[w] = step /\ rec'[w] = r /\ row' = row
      /\ mem'[w] = CopyOf(row[r]) /\ lock'[r] = w
      /\ fresh' = IF row[r].status \in {"calendar_event_found", "candidate_matched"}
                    THEN fresh \cup {w} ELSE fresh \ {w}
      /\ UNCHANGED <<card, marked, provider>>
      /\ OthersStay(w, r)
  BY <1>1 DEF LoadLocked, Goto, TypeOK, OthersStay, external, settings
<1>3. row[r].status \in TransferResumable /\ row[r].route \in {"interview", "non_interview"}
  BY <1>1 DEF LoadLocked, Rows
<1>4. RowInv(r)'
  BY <1>1, <1>2, RowStays DEF ProgressInv
<1>5. row[r].status \in {"calendar_event_found", "candidate_matched"} => row[r].route = "interview"
  BY <1>1 DEF ProgressInv, RowInv, Untouched
<1>6. Fresh(w)'
  BY <1>2 DEF Fresh, CopyOf
<1>7. /\ row[r].status \in StepStatus[step]
      /\ step \notin {"calendar", "route", "commit_card", "commit_mark"}
      /\ step \in BeforeTransfer => row[r].status \in {"calendar_event_found", "candidate_matched"}
  BY <1>3 DEF TransferResumable, FirstStep, StepStatus, BeforeTransfer
<1>8. WorkerInv(w)'
  <2> HIDE DEF step
  <2>1. mem'[w].status = row[r].status /\ mem'[w].route = row[r].route
    BY <1>2 DEF CopyOf
  <2>2. row'[r].route = "interview" => Knows(w)'
    BY <1>2, <1>6, <1>7 DEF Knows
  <2>3. row'[r].route = "non_interview" => w \notin fresh' /\ pc'[w] \notin BeforeTransfer
    BY <1>2, <1>5, <1>7
  <2> QED BY <1>2, <1>7, <2>1, <2>2, <2>3 DEF WorkerInv
<1> QED BY <1>1, <1>2, <1>4, <1>8, OwnStep DEF LoadLocked

LEMMA ReleaseProgress ==
  ASSUME TypeOK, LeaseInv, ProgressInv, NEW w \in Workers, Release(w)
  PROVE  ProgressInv'
<1>0. PICK r \in Recordings : r = rec[w]
  BY WorkersAreProcesses DEF Release, TypeOK
<1>1. w \in Processes /\ row[r] \in Rows
  BY WorkersAreProcesses DEF TypeOK
<1>2. pc'[w] \in {"idle", "fail_found"} /\ UNCHANGED <<card, marked, provider>>
  BY <1>1 DEF Release, Goto, TypeOK, external, settings
<1>3. OthersStay(w, r)
  BY <1>0, <1>1, <1>2 DEF Release, Goto, TypeOK, OthersStay
<1>4. /\ row'[r].status = row[r].status /\ row'[r].route = row[r].route
      /\ row'[r].dest = row[r].dest /\ row'[r].path = row[r].path
      /\ row'[r].link = row[r].link /\ row'[r].page = row[r].page /\ row'[r].ask = row[r].ask
  BY <1>0, <1>1 DEF Release, TypeOK, Rows
<1>5. RowInv(r)
  BY <1>1 DEF ProgressInv
<1>6. RowInv(r)'
  BY <1>2, <1>4, <1>5 DEF RowInv, Untouched, Earned
<1>7. WorkerInv(w)'
  BY <1>2 DEF WorkerInv, Loaded
<1> QED BY <1>0, <1>1, <1>3, <1>4, <1>6, <1>7, OwnStep DEF Release

(* After the lease is gone only a found recording is failed.  A run of     *)
(* another instance may be looking at its calendar.                        *)
LEMMA FailFoundProgress ==
  ASSUME TypeOK, LeaseInv, ProgressInv, NEW w \in Workers, FailFound(w)
  PROVE  ProgressInv'
<1>0. PICK r \in Recordings : r = rec[w]
  BY WorkersAreProcesses DEF FailFound, TypeOK
<1>1. w \in Processes /\ row[r] \in Rows
  BY WorkersAreProcesses DEF TypeOK
<1>2. /\ UNCHANGED <<card, marked, provider>>
      /\ pc'[w] = "idle" /\ lock[r] = None /\ OthersStay(w, r) /\ UNCHANGED lock
  BY <1>0, <1>1 DEF FailFound, Goto, TypeOK, OthersStay, external, settings
<1>3. /\ row'[r] = row[r] \/ (row[r].status = "found" /\ row'[r].status = "failed")
      /\ row'[r].route = row[r].route /\ row'[r].dest = row[r].dest
      /\ row'[r].page = row[r].page
  BY <1>0, <1>1 DEF FailFound, TypeOK, Rows
<1>4. RowInv(r)'
  <2>1. CASE row'[r] = row[r]
    BY <1>1, <1>2, <2>1, RowStays DEF ProgressInv
  <2>2. CASE row[r].status = "found" /\ row'[r].status = "failed"
    BY <1>3, <2>2 DEF ProgressInv, RowInv, Earned, Stored, Linked, Carded
  <2> QED BY <1>3, <2>1, <2>2
<1>5. ASSUME NEW v \in Workers \ {w} PROVE WorkerInv(v)'
  <2>1. /\ v \in Processes \ {w} /\ WorkerInv(v) /\ pc'[v] = pc[v] /\ rec'[v] = rec[v]
        /\ mem'[v] = mem[v] /\ (v \in fresh' => v \in fresh)
    BY <1>2, WorkersAreProcesses DEF OthersStay, ProgressInv
  <2>2. CASE pc[v] \notin Loaded
    BY <2>1, <2>2 DEF WorkerInv
  <2>3. CASE pc[v] \in Loaded /\ (rec[v] # r \/ row'[r] = row[r])
    <3>1. rec[v] \in Recordings
      BY <2>3, Knowledge
    <3>2. row'[rec[v]] = row[rec[v]]
      BY <1>2, <2>3, <3>1 DEF OthersStay
    <3> QED BY <1>2, <2>1, <3>1, <3>2, WorkerStays
  <2>4. CASE pc[v] \in Loaded /\ rec[v] = r /\ row[r].status = "found" /\ row'[r].status = "failed"
    <3>1. row[r].route = "interview" /\ Knows(v) /\ mem[v].status \in StepStatus[pc[v]]
      BY <1>1, <2>4, Knowledge DEF ProgressInv, RowInv, Untouched
    <3>2. pc[v] = "calendar"
      <4>1. CASE pc[v] \in {"lookup", "resolve"} \cup (Loaded \ BeforeTransfer)
        <5>1. Fresh(v)
          BY <2>4, <3>1, <4>1 DEF Knows, BeforeTransfer
        <5>2. mem[v].status = "found"
          BY <2>4, <5>1 DEF Fresh, CopyOf
        <5>3. "found" \notin StepStatus[pc[v]]
          BY <4>1 DEF StepStatus, Loaded, BeforeTransfer
        <5> QED BY <3>1, <5>2, <5>3
      <4>2. CASE pc[v] = "route"
        <5>1. Fresh(v)
          BY <2>4, <3>1, <4>2 DEF Knows
        <5> QED BY <2>4, <3>1, <4>2, <5>1 DEF Fresh, CopyOf, StepStatus
      <4> QED BY <2>4, <4>1, <4>2 DEF Loaded, BeforeTransfer
    <3> QED BY <1>3, <2>1, <2>4, <3>1, <3>2 DEF WorkerInv, Knows, BeforeTransfer
  <2> QED BY <1>3, <2>2, <2>3, <2>4
<1>6. WorkerInv(w)'
  BY <1>2 DEF WorkerInv, Loaded
<1>7. ASSUME NEW q \in Recordings \ {r} PROVE RowInv(q)'
  BY <1>2, <1>7, RowStays DEF ProgressInv, OthersStay
<1>8. ASSUME NEW h \in Handlers PROVE HandlerInv(h)'
  <2>1. h \in Processes \ {w}
    BY WorkersAreProcesses, DisjointAssumption
  <2>2. pc'[h] = pc[h] /\ rec'[h] = rec[h] /\ (pc[h] # "idle" => rec[h] \in Recordings)
    BY <1>2, <2>1 DEF OthersStay, TypeOK
  <2>3. pc[h] # "idle" => row'[rec[h]].route = row[rec[h]].route
    BY <1>2, <1>3, <2>2 DEF OthersStay
  <2> QED BY <2>2, <2>3 DEF HandlerInv, ProgressInv
<1> QED BY <1>4, <1>5, <1>6, <1>7, <1>8 DEF ProgressInv

LEMMA LookupMatchedProgress ==
  ASSUME TypeOK, LeaseInv, ProgressInv, NEW w \in Workers, LookupMatched(w)
  PROVE  ProgressInv'
<1>0. PICK r \in Recordings : r = rec[w]
  BY WorkersAreProcesses DEF LookupMatched, TypeOK
<1>1. PICK d \in Identities(r) :
        Commit(w, "candidate_matched", [row[r] EXCEPT !.page = TRUE, !.dest = d],
               [mem[w] EXCEPT !.dest = d], "route")
  BY <1>0 DEF LookupMatched
<1>2. /\ pc[w] = "lookup" /\ w \in Processes /\ UNCHANGED <<card, marked, provider>>
  BY WorkersAreProcesses DEF LookupMatched, external, settings
<1>3. /\ row[r] \in Rows /\ mem[w] \in Copies
      /\ row[r].route = "interview" /\ Fresh(w) /\ mem[w].status = "calendar_event_found"
  BY <1>0, <1>2, Knowledge DEF Knows, Loaded, BeforeTransfer, StepStatus
<1>4. d \in Places /\ (provider = "synology" => d = None)
  <2>1. row[r].status = "calendar_event_found"
    BY <1>0, <1>3 DEF Fresh, CopyOf
  <2>2. provider = "synology" => row[r].dest = None
    BY <1>3, <2>1 DEF ProgressInv, RowInv, Untouched
  <2> QED BY <1>1, <1>3, <2>2 DEF Identities, Rows, Places
<1> DEFINE x == [row[r] EXCEPT !.page = TRUE, !.dest = d, !.status = "candidate_matched"]
           y == [mem[w] EXCEPT !.dest = d, !.status = "candidate_matched"]
<1>5. /\ row' = [row EXCEPT ![r] = x] /\ mem' = [mem EXCEPT ![w] = y] /\ rec' = rec
      /\ lock' = [lock EXCEPT ![r] = None] /\ pc' = [pc EXCEPT ![w] = "route"] /\ fresh' = fresh
  BY <1>0, <1>1 DEF Commit, Goto, Unlock
<1>6. /\ x.status = "candidate_matched" /\ x.route = "interview" /\ x.dest = d
      /\ y = CopyOf(x) /\ y.dest = d /\ y.status = "candidate_matched"
  <2>1. /\ x.status = "candidate_matched" /\ x.route = row[r].route /\ x.dest = d
        /\ x.path = row[r].path /\ x.link = row[r].link
    BY <1>3 DEF Rows
  <2>2. mem[w] = CopyOf(row[r])
    BY <1>0, <1>3 DEF Fresh
  <2>3. y = [CopyOf(row[r]) EXCEPT !.dest = d, !.status = "candidate_matched"]
    BY <2>2
  <2> HIDE DEF x, y
  <2> QED BY <1>3, <2>1, <2>3 DEF CopyOf
<1> HIDE DEF x, y
<1>7. row'[r] = x /\ mem'[w] = y /\ pc'[w] = "route" /\ rec'[w] = r /\ OthersStay(w, r)
  BY <1>0, <1>2, <1>3, <1>5 DEF TypeOK, OthersStay
<1>8. RowInv(r)'
  BY <1>2, <1>4, <1>6, <1>7 DEF RowInv, Untouched, Earned, Stored, Linked, Carded
<1>9. WorkerInv(w)'
  <2>1. provider \in {"synology", "minio"}
    BY DEF TypeOK
  <2>2. Fresh(w)'
    BY <1>6, <1>7 DEF Fresh
  <2>3. Knows(w)'
    BY <1>2, <1>4, <1>6, <1>7, <2>1, <2>2 DEF Knows, BeforeTransfer
  <2> QED BY <1>6, <1>7, <2>3 DEF WorkerInv, StepStatus
<1> QED BY <1>0, <1>2, <1>3, <1>6, <1>7, <1>8, <1>9, OwnStep

LEMMA ResolveProgress ==
  ASSUME TypeOK, LeaseInv, ProgressInv, NEW w \in Workers, Resolve(w)
  PROVE  ProgressInv'
<1>0. PICK r \in Recordings : r = rec[w]
  BY WorkersAreProcesses DEF Resolve, TypeOK
<1>1. PICK d \in Identities(r) :
        /\ row' = [row EXCEPT ![r] = [@ EXCEPT !.dest = d]]
        /\ mem' = [mem EXCEPT ![w] = [@ EXCEPT !.dest = d]]
  BY <1>0 DEF Resolve
<1>2. /\ pc[w] = "resolve" /\ w \in Processes /\ UNCHANGED <<card, marked, provider>>
  BY WorkersAreProcesses DEF Resolve, external, settings
<1>3. /\ row[r] \in Rows /\ mem[w] \in Copies
      /\ row[r].route = "interview" /\ Fresh(w) /\ mem[w].status = "candidate_matched"
  BY <1>0, <1>2, Knowledge DEF Knows, Loaded, BeforeTransfer, StepStatus
<1>4. d \in Places /\ (provider = "synology" => d = None) /\ row[r].status = "candidate_matched"
  <2>1. row[r].status = "candidate_matched"
    BY <1>0, <1>3 DEF Fresh, CopyOf
  <2>2. provider = "synology" => row[r].dest = None
    BY <1>3, <2>1 DEF ProgressInv, RowInv, Untouched
  <2> QED BY <1>1, <1>3, <2>1, <2>2 DEF Identities, Rows, Places
<1> DEFINE x == [row[r] EXCEPT !.dest = d]
           y == [mem[w] EXCEPT !.dest = d]
<1>5. /\ row' = [row EXCEPT ![r] = x] /\ mem' = [mem EXCEPT ![w] = y] /\ rec' = rec
      /\ lock' = [lock EXCEPT ![r] = None] /\ pc' = [pc EXCEPT ![w] = "route"] /\ fresh' = fresh
  BY <1>0, <1>1 DEF Resolve, Goto, Unlock
<1>6. /\ x.status = "candidate_matched" /\ x.route = "interview" /\ x.dest = d
      /\ y = CopyOf(x) /\ y.dest = d /\ y.status = "candidate_matched"
  <2>1. /\ x.status = row[r].status /\ x.route = row[r].route /\ x.dest = d
        /\ x.path = row[r].path /\ x.link = row[r].link
    BY <1>3 DEF Rows
  <2>2. mem[w] = CopyOf(row[r])
    BY <1>0, <1>3 DEF Fresh
  <2>3. y = [CopyOf(row[r]) EXCEPT !.dest = d]
    BY <2>2
  <2> HIDE DEF x, y
  <2> QED BY <1>3, <1>4, <2>1, <2>3 DEF CopyOf
<1> HIDE DEF x, y
<1>7. row'[r] = x /\ mem'[w] = y /\ pc'[w] = "route" /\ rec'[w] = r /\ OthersStay(w, r)
  BY <1>0, <1>2, <1>3, <1>5 DEF TypeOK, OthersStay
<1>8. RowInv(r)'
  BY <1>2, <1>4, <1>6, <1>7 DEF RowInv, Untouched, Earned, Stored, Linked, Carded
<1>9. WorkerInv(w)'
  <2>1. provider \in {"synology", "minio"}
    BY DEF TypeOK
  <2>2. Fresh(w)'
    BY <1>6, <1>7 DEF Fresh
  <2>3. Knows(w)'
    BY <1>2, <1>4, <1>6, <1>7, <2>1, <2>2 DEF Knows, BeforeTransfer
  <2> QED BY <1>6, <1>7, <2>3 DEF WorkerInv, StepStatus
<1> QED BY <1>0, <1>2, <1>3, <1>6, <1>7, <1>8, <1>9, OwnStep

(* The copy is the row but for the status the step commits.                *)
LEMMA PlainCommitProgress ==
  ASSUME TypeOK, LeaseInv, ProgressInv, NEW w \in Workers, pc[w] \in Loaded,
         NEW s, NEW step, Commit(w, s, row[rec[w]], mem[w], step),
         row[rec[w]].route = "interview" => Fresh(w),
         UNCHANGED <<card, marked, provider>>,
         step \in Loaded \ (BeforeTransfer \cup {"commit_card", "commit_mark"}),
         s \in StepStatus[step],
         s \notin {"found", "calendar_event_found", "candidate_matched", "manual_review",
                   "uploaded", "link_created"},
         row[rec[w]].route = "interview" =>
           /\ s \in Stored => row[rec[w]].status \in Linked
           /\ s \in Carded => card[rec[w]] = row[rec[w]].link
           /\ s = "source_marked" => rec[w] \in marked
  PROVE  ProgressInv'
<1>0. PICK r \in Recordings : r = rec[w]
  BY Knowledge
<1>1. /\ row[r] \in Rows /\ mem[w] \in Copies
      /\ row[r].route = "non_interview" => mem[w].route = "non_interview" /\ w \notin fresh
  BY <1>0, Knowledge
<1>2. row[r].route = "interview" => Earned(r)
  BY DEF ProgressInv, RowInv
<1>3. row[r].route = "interview" => mem[w] = CopyOf(row[r])
  BY <1>0 DEF Fresh
<1>4. row[r].route = "interview" =>
        /\ s \in Stored => row[r].path # None /\ row[r].path = row[r].dest
        /\ s \in Linked => row[r].link = row[r].path
        /\ s \in Carded => card[r] = row[r].link
        /\ s = "source_marked" => r \in marked
  BY <1>0, <1>2 DEF Earned, Stored, Linked
<1> QED BY <1>0, <1>1, <1>3, <1>4, CommitProgress

LEMMA RouteProgress ==
  ASSUME TypeOK, LeaseInv, ProgressInv, NEW w \in Workers, Route(w)
  PROVE  ProgressInv'
<1>1. pc[w] = "route" /\ pc[w] \in Loaded /\ UNCHANGED <<card, marked, provider>>
  BY DEF Route, Loaded, external, settings
<1>2. rec[w] \in Recordings /\ Knows(w)
  BY <1>1, Knowledge DEF BeforeTransfer
<1>3. CASE mem[w].dest = None
  <2>1. Settle(w, "manual_review", "nothing")
    BY <1>3 DEF Route
  <2> QED BY <1>1, <1>2, <2>1, SettleProgress
<1>4. CASE mem[w].dest # None
  <2>1. Commit(w, "transfer_started", row[rec[w]], mem[w], "claim_storage")
    BY <1>4 DEF Route
  <2>2. Fresh(w)
    BY <1>1, <1>2, <1>4 DEF Knows
  <2>3. /\ "claim_storage" \in Loaded \ (BeforeTransfer \cup {"commit_card", "commit_mark"})
        /\ "transfer_started" \in StepStatus["claim_storage"]
        /\ "transfer_started" \notin Stored /\ "transfer_started" \notin Carded
    BY DEF Loaded, BeforeTransfer, StepStatus, Stored, Linked, Carded
  <2> QED BY <1>1, <1>2, <2>1, <2>2, <2>3, PlainCommitProgress
<1> QED BY <1>3, <1>4

LEMMA ShareProgress ==
  ASSUME TypeOK, LeaseInv, ProgressInv, NEW w \in Workers, Share(w)
  PROVE  ProgressInv'
<1> DEFINE d == mem[w].path
           kept == IF row[rec[w]].artifact = None /\ provider = "synology"
                     THEN mem[w].path ELSE row[rec[w]].artifact
           x == [row[rec[w]] EXCEPT !.link = d, !.artifact = kept]
           y == [mem[w] EXCEPT !.link = d]
<1>0. PICK r \in Recordings : r = rec[w]
  BY WorkersAreProcesses DEF Share, TypeOK
<1>1. /\ pc[w] = "share" /\ pc[w] \in Loaded
      /\ Commit(w, "link_created", x, y, "card") /\ UNCHANGED <<card, marked, provider>>
  BY DEF Share, Loaded, external, settings
<1>2. /\ row[r] \in Rows /\ mem[w] \in Copies /\ mem[w].status = "uploaded"
      /\ row[r].route = "interview" => Fresh(w)
      /\ row[r].route = "non_interview" => mem[w].route = "non_interview" /\ w \notin fresh
  BY <1>0, <1>1, Knowledge DEF Knows, BeforeTransfer, StepStatus
<1>3. d \in Places /\ kept \in Places
  BY <1>0, <1>2 DEF Rows, Copies
<1> HIDE DEF kept
<1>4. /\ x \in Rows /\ x.route = row[r].route /\ x.link = d /\ x.path = row[r].path
      /\ x.dest = row[r].dest /\ x.status = row[r].status
      /\ y \in Copies /\ y.route = mem[w].route
  BY <1>0, <1>2, <1>3 DEF Rows, Copies
<1>5. x.route = "interview" =>
        /\ mem[w] = CopyOf(row[r]) /\ d = row[r].path /\ row[r].status = "uploaded"
        /\ row[r].path # None /\ row[r].path = row[r].dest
  <2>1. row[r].route = "interview" => Earned(r)
    BY DEF ProgressInv, RowInv
  <2> QED BY <1>0, <1>2, <1>4, <2>1 DEF Fresh, CopyOf, Earned, Stored
<1>6. x.route = "interview" => y = CopyOf(x)
  BY <1>4, <1>5 DEF CopyOf
<1>7. /\ "link_created" \in StepStatus["card"] /\ "link_created" \notin Carded
      /\ "card" \in Loaded \ (BeforeTransfer \cup {"commit_card", "commit_mark"})
  BY DEF StepStatus, Carded, Linked, Stored, Loaded, BeforeTransfer
<1> HIDE DEF x, y, d
<1> QED BY <1>0, <1>1, <1>2, <1>4, <1>5, <1>6, <1>7, CommitProgress

LEMMA WriteCardProgress ==
  ASSUME TypeOK, LeaseInv, ProgressInv, NEW w \in Workers, WriteCard(w)
  PROVE  ProgressInv'
<1>0. PICK r \in Recordings : r = rec[w]
  BY WorkersAreProcesses DEF WriteCard, TypeOK
<1>1. /\ pc[w] = "card" /\ pc[w] \in Loaded /\ w \in Processes
      /\ card' = [card EXCEPT ![r] = mem[w].link]
      /\ UNCHANGED <<row, lock, rec, mem, fresh, marked, provider>>
  BY <1>0, WorkersAreProcesses DEF WriteCard, Loaded, db, settings
<1>2. /\ mem[w].status = "link_created"
      /\ row[r].route = "interview" => Fresh(w)
      /\ row[r].route # "interview" =>
           row[r].route = "non_interview" /\ mem[w].route = "non_interview" /\ w \notin fresh
  BY <1>0, <1>1, Knowledge DEF Knows, BeforeTransfer, StepStatus
<1>3. pc'[w] = "commit_card" /\ OthersStay(w, r) /\ card'[r] = mem[w].link
  BY <1>0, <1>1 DEF WriteCard, Goto, TypeOK, OthersStay
<1>4. row[r].route = "interview" => row[r].status = "link_created"
  BY <1>0, <1>2 DEF Fresh, CopyOf
<1>5. RowInv(r)'
  BY <1>1, <1>4 DEF ProgressInv, RowInv, Untouched, Earned, Carded, Linked
<1>6. WorkerInv(w)'
  <2>1. row'[r].route = "interview" => Knows(w)'
    BY <1>0, <1>1, <1>2, <1>3 DEF Knows, Fresh, CopyOf, BeforeTransfer
  <2> QED BY <1>0, <1>1, <1>2, <1>3, <2>1 DEF WorkerInv, StepStatus, BeforeTransfer
<1> QED BY <1>0, <1>1, <1>3, <1>5, <1>6, OwnStep

LEMMA MarkSourceProgress ==
  ASSUME TypeOK, LeaseInv, ProgressInv, NEW w \in Workers, MarkSource(w)
  PROVE  ProgressInv'
<1>0. PICK r \in Recordings : r = rec[w]
  BY WorkersAreProcesses DEF MarkSource, TypeOK
<1>1. /\ pc[w] = "mark" /\ pc[w] \in Loaded /\ w \in Processes
      /\ marked' = marked \cup {r}
      /\ UNCHANGED <<row, lock, rec, mem, fresh, card, provider>>
  BY <1>0, WorkersAreProcesses DEF MarkSource, Loaded, db, settings
<1>2. /\ mem[w].status \in {"notion_updated", "awaiting_summary_email"}
      /\ row[r].route = "interview" => Fresh(w)
      /\ row[r].route # "interview" =>
           row[r].route = "non_interview" /\ mem[w].route = "non_interview" /\ w \notin fresh
  BY <1>0, <1>1, Knowledge DEF Knows, BeforeTransfer, StepStatus
<1>3. pc'[w] = "commit_mark" /\ OthersStay(w, r) /\ r \in marked'
  BY <1>0, <1>1 DEF MarkSource, Goto, TypeOK, OthersStay
<1>4. RowInv(r)'
  BY <1>1, RowStays DEF ProgressInv
<1>5. WorkerInv(w)'
  <2>1. row'[r].route = "interview" => Knows(w)'
    BY <1>0, <1>1, <1>2, <1>3 DEF Knows, Fresh, CopyOf, BeforeTransfer
  <2> QED BY <1>0, <1>1, <1>2, <1>3, <2>1 DEF WorkerInv, StepStatus, BeforeTransfer
<1> QED BY <1>0, <1>1, <1>3, <1>4, <1>5, OwnStep

LEMMA StepFailsProgress ==
  ASSUME TypeOK, LeaseInv, ProgressInv, NEW w \in Workers, StepFails(w)
  PROVE  ProgressInv'
<1>0. PICK r \in Recordings : r = rec[w]
  BY WorkersAreProcesses DEF StepFails, TypeOK
<1>1. /\ pc[w] \in Loaded /\ Settle(w, "failed", "nothing") /\ UNCHANGED provider
      /\ card' = card \/ card' = [card EXCEPT ![r] = mem[w].link]
      /\ marked' = marked \/ marked' = marked \cup {r}
  BY <1>0 DEF StepFails, Loaded, settings
<1>2. \A q \in Recordings \ {r} : card'[q] = card[q] /\ (q \in marked => q \in marked')
  BY <1>1 DEF TypeOK
<1> QED BY <1>0, <1>1, <1>2, SettleProgress

LEMMA RunStepProgress ==
  ASSUME TypeOK, LeaseInv, StorageInv, ProgressInv, NEW w \in Workers, RunStep(w)
  PROVE  ProgressInv'
<1>1. ASSUME pc[w] \in Loaded
      PROVE  /\ rec[w] \in Recordings
             /\ row[rec[w]].route = "interview" => Knows(w) /\ Earned(rec[w])
             /\ pc[w] \notin BeforeTransfer /\ row[rec[w]].route = "interview" => Fresh(w)
             /\ pc[w] \in BeforeTransfer => row[rec[w]].route = "interview"
             /\ mem[w].status \in StepStatus[pc[w]]
  BY <1>1, Knowledge DEF Knows, ProgressInv, RowInv
<1>2. CASE LoadFound(w)
  BY <1>2, LoadFoundProgress
<1>3. CASE LoadLocked(w)
  BY <1>3, LoadLockedProgress
<1>4. CASE LoadGone(w)
  BY <1>4, LeaveProgress DEF LoadGone, external, settings
<1>5. CASE Release(w)
  BY <1>5, ReleaseProgress
<1>6. CASE Calendar(w)
  <2>1. pc[w] \in Loaded /\ UNCHANGED <<card, marked, provider>>
    BY <1>6 DEF Calendar, Loaded, external, settings
  <2>2. Untouched(rec[w]) /\ rec[w] \in Recordings
    BY <1>1, <1>6, <2>1 DEF Calendar, Knows, BeforeTransfer, Untouched
  <2> QED BY <1>6, <2>1, <2>2, SettleProgress DEF Calendar
<1>7. CASE CalendarUnavailable(w)
  <2>1. "release" \notin Loaded /\ pc[w] \in Loaded /\ pc[w] \notin {"idle", "fail_found"}
    BY <1>7 DEF Loaded, CalendarUnavailable
  <2> QED BY <1>1, <1>7, <2>1, StopProgress DEF CalendarUnavailable, db, external, settings
<1>8. CASE CalendarRejected(w)
  <2>1. "release_fail" \notin Loaded /\ pc[w] \in Loaded /\ pc[w] \notin {"idle", "fail_found"}
    BY <1>8 DEF Loaded, CalendarRejected
  <2> QED BY <1>1, <1>8, <2>1, StopProgress DEF CalendarRejected, db, external, settings
<1>9. CASE FailFound(w)
  BY <1>9, FailFoundProgress
<1>10. CASE LookupMatched(w)
  BY <1>10, LookupMatchedProgress
<1>11. CASE LookupUnresolved(w)
  <2>1. pc[w] = "lookup" /\ pc[w] \in Loaded /\ UNCHANGED <<card, marked, provider>>
    BY <1>11 DEF LookupUnresolved, Loaded, external, settings
  <2>2. rec[w] \in Recordings /\ row[rec[w]].status = "calendar_event_found"
    BY <1>1, <2>1 DEF Knows, BeforeTransfer, StepStatus, Fresh, CopyOf
  <2>3. Untouched(rec[w])
    BY <2>2 DEF ProgressInv, RowInv
  <2> QED BY <1>11, <2>1, <2>2, <2>3, SettleProgress DEF LookupUnresolved
<1>12. CASE LookupDeferred(w)
  BY <1>12, LeaveProgress DEF LookupDeferred, external, settings
<1>13. CASE Resolve(w)
  BY <1>13, ResolveProgress
<1>14. CASE ResolveRejected(w)
  <2>1. pc[w] \in Loaded /\ UNCHANGED <<card, marked, provider>>
    BY <1>14 DEF ResolveRejected, Loaded, external, settings
  <2> QED BY <1>1, <1>14, <2>1, SettleProgress DEF ResolveRejected
<1>15. CASE Route(w)
  BY <1>15, RouteProgress
<1>16. CASE StorageStep(w)
  BY <1>16, StorageStepProgress
<1>17. CASE Share(w)
  BY <1>17, ShareProgress
<1>18. CASE WriteCard(w)
  BY <1>18, WriteCardProgress
<1>19. CASE SkipCard(w)
  <2>1. pc[w] \in Loaded /\ pc[w] \notin BeforeTransfer /\ UNCHANGED <<card, marked, provider>>
    BY <1>19 DEF SkipCard, Loaded, BeforeTransfer, external, settings
  <2>2. rec[w] \in Recordings /\ row[rec[w]].route # "interview"
    BY <1>1, <1>19, <2>1 DEF SkipCard, CardDue, Fresh, CopyOf
  <2> QED BY <1>19, <2>1, <2>2, SettleProgress DEF SkipCard
<1>20. CASE CardDeferred(w)
  BY <1>20, LeaveProgress DEF CardDeferred, external, settings
<1>21. CASE CommitCard(w)
  <2> DEFINE step == IF w \in fresh THEN "mark" ELSE "await"
  <2>1. /\ Commit(w, "notion_updated", row[rec[w]], mem[w], step) /\ pc[w] = "commit_card"
        /\ pc[w] \in Loaded \ BeforeTransfer /\ UNCHANGED <<card, marked, provider>>
    BY <1>21 DEF CommitCard, Loaded, BeforeTransfer, external, settings
  <2>2. /\ step \in Loaded \ (BeforeTransfer \cup {"commit_card", "commit_mark"})
        /\ "notion_updated" \in StepStatus[step]
    BY DEF Loaded, BeforeTransfer, StepStatus
  <2>3. row[rec[w]].route = "interview" =>
          /\ Fresh(w) /\ row[rec[w]].status \in Linked /\ card[rec[w]] = row[rec[w]].link
    BY <1>1, <2>1 DEF Knows, Fresh, CopyOf, StepStatus, Linked, Stored
  <2> HIDE DEF step
  <2> QED BY <2>1, <2>2, <2>3, PlainCommitProgress
<1>22. CASE Await(w)
  <2>1. /\ Commit(w, "awaiting_summary_email", row[rec[w]], mem[w], "search") /\ pc[w] = "await"
        /\ pc[w] \in Loaded \ BeforeTransfer /\ UNCHANGED <<card, marked, provider>>
    BY <1>22 DEF Await, Loaded, BeforeTransfer, external, settings
  <2>2. /\ "search" \in Loaded \ (BeforeTransfer \cup {"commit_card", "commit_mark"})
        /\ "awaiting_summary_email" \in StepStatus["search"]
    BY DEF Loaded, BeforeTransfer, StepStatus
  <2>3. row[rec[w]].route = "interview" =>
          /\ Fresh(w) /\ row[rec[w]].status \in Linked /\ card[rec[w]] = row[rec[w]].link
    BY <1>1, <2>1 DEF Fresh, CopyOf, StepStatus, Earned, Linked, Stored, Carded
  <2> QED BY <2>1, <2>2, <2>3, PlainCommitProgress
<1>23. CASE SearchEnds(w)
  <2>1. pc[w] = "search" /\ pc[w] \in Loaded \ BeforeTransfer
    BY <1>23 DEF SearchEnds, Loaded, BeforeTransfer
  <2>2. /\ "mark" \in Loaded \ (BeforeTransfer \cup {"commit_card", "commit_mark"})
        /\ mem[w].status \in StepStatus["mark"] /\ rec[w] \in Recordings
    BY <1>1, <2>1 DEF Loaded, BeforeTransfer, StepStatus
  <2>3. \A q \in Recordings \ {rec[w]} : lock'[q] = lock[q]
    BY <1>23 DEF SearchEnds, Unlock, TypeOK
  <2> QED BY <1>23, <2>1, <2>2, <2>3, CallProgress DEF SearchEnds, external, settings
<1>24. CASE SearchWaits(w)
  BY <1>24, LeaveProgress DEF SearchWaits, external, settings
<1>25. CASE CompleteUnmarked(w)
  <2>1. pc[w] = "mark" /\ pc[w] \in Loaded \ BeforeTransfer /\ UNCHANGED <<card, marked, provider>>
    BY <1>25 DEF CompleteUnmarked, Loaded, BeforeTransfer, external, settings
  <2>2. rec[w] \in Recordings /\ (row[rec[w]].route = "interview" => row[rec[w]].status \in Carded)
    BY <1>1, <2>1 DEF Fresh, CopyOf, StepStatus, Carded, Linked, Stored
  <2> QED BY <1>25, <2>1, <2>2, SettleProgress DEF CompleteUnmarked
<1>26. CASE MarkSource(w)
  BY <1>26, MarkSourceProgress
<1>27. CASE CommitMark(w)
  <2>1. /\ Commit(w, "source_marked", row[rec[w]], mem[w], "complete") /\ pc[w] = "commit_mark"
        /\ pc[w] \in Loaded \ BeforeTransfer /\ UNCHANGED <<card, marked, provider>>
    BY <1>27 DEF CommitMark, Loaded, BeforeTransfer, external, settings
  <2>2. /\ "complete" \in Loaded \ (BeforeTransfer \cup {"commit_card", "commit_mark"})
        /\ "source_marked" \in StepStatus["complete"]
    BY DEF Loaded, BeforeTransfer, StepStatus
  <2>3. row[rec[w]].route = "interview" =>
          /\ Fresh(w) /\ row[rec[w]].status \in Linked /\ card[rec[w]] = row[rec[w]].link
          /\ rec[w] \in marked
    BY <1>1, <2>1 DEF Knows, Fresh, CopyOf, StepStatus, Earned, Linked, Stored, Carded
  <2> QED BY <2>1, <2>2, <2>3, PlainCommitProgress
<1>28. CASE Complete(w)
  <2>1. pc[w] = "complete" /\ pc[w] \in Loaded \ BeforeTransfer
        /\ UNCHANGED <<card, marked, provider>>
    BY <1>28 DEF Complete, Loaded, BeforeTransfer, external, settings
  <2>2. rec[w] \in Recordings /\ (row[rec[w]].route = "interview" => row[rec[w]].status \in Carded)
    BY <1>1, <2>1 DEF Fresh, CopyOf, StepStatus, Carded, Linked, Stored
  <2> QED BY <1>28, <2>1, <2>2, SettleProgress DEF Complete
<1>29. CASE StepFails(w)
  BY <1>29, StepFailsProgress
<1> QED
  BY <1>2, <1>3, <1>4, <1>5, <1>6, <1>7, <1>8, <1>9, <1>10, <1>11, <1>12, <1>13, <1>14, <1>15, <1>16, <1>17, <1>18, <1>19, <1>20, <1>21, <1>22, <1>23, <1>24, <1>25, <1>26, <1>27, <1>28, <1>29 DEF RunStep
-----------------------------------------------------------------------------
(* Claims, crashes and the passing of time: they change leases and locks,  *)
(* and what a process that stops remembers.                                *)

LEMMA LeaseColumnsProgress ==
  ASSUME TypeOK, ProgressInv, UNCHANGED <<card, marked, provider>>,
         \A q \in Recordings :
           /\ row'[q].status = row[q].status /\ row'[q].route = row[q].route
           /\ row'[q].dest = row[q].dest /\ row'[q].path = row[q].path
           /\ row'[q].link = row[q].link /\ row'[q].page = row[q].page /\ row'[q].ask = row[q].ask,
         \A v \in Workers :
           \/ pc'[v] \notin Loaded
           \/ /\ pc'[v] = pc[v] /\ rec'[v] = rec[v] /\ mem'[v] = mem[v]
              /\ v \in fresh' => v \in fresh
              /\ lock[rec[v]] = v => lock'[rec[v]] = v,
         \A h \in Handlers : pc'[h] = "idle" \/ (pc'[h] = pc[h] /\ rec'[h] = rec[h])
  PROVE  ProgressInv'
<1>1. ASSUME NEW v \in Workers PROVE WorkerInv(v)'
  <2>1. CASE pc'[v] \notin Loaded
    BY <2>1 DEF WorkerInv
  <2>2. CASE /\ pc'[v] = pc[v] /\ rec'[v] = rec[v] /\ mem'[v] = mem[v]
             /\ v \in fresh' => v \in fresh
             /\ lock[rec[v]] = v => lock'[rec[v]] = v
             /\ pc[v] \in Loaded
    <3>1. rec[v] \in Recordings /\ WorkerInv(v)
      BY <2>2, Knowledge DEF ProgressInv
    <3> QED BY <2>2, <3>1 DEF WorkerInv, Knows, Fresh, CopyOf
  <2> QED BY <2>1, <2>2
<1>2. ASSUME NEW q \in Recordings PROVE RowInv(q)'
  BY DEF ProgressInv, RowInv, Untouched, Earned
<1>3. ASSUME NEW h \in Handlers PROVE HandlerInv(h)'
  <2>1. pc[h] # "idle" => rec[h] \in Recordings
    BY WorkersAreProcesses DEF TypeOK
  <2> QED BY <2>1 DEF ProgressInv, HandlerInv
<1> QED BY <1>1, <1>2, <1>3 DEF ProgressInv

LEMMA ClaimProgress ==
  ASSUME TypeOK, ProgressInv, NEW w \in Workers, NEW r \in Recordings, Claim(w, r)
  PROVE  ProgressInv'
<1>1. \A q \in Recordings :
        /\ row'[q].status = row[q].status /\ row'[q].route = row[q].route
        /\ row'[q].dest = row[q].dest /\ row'[q].path = row[q].path
        /\ row'[q].link = row[q].link /\ row'[q].page = row[q].page /\ row'[q].ask = row[q].ask
  <2>1. row' = [row EXCEPT ![r] = [row[r] EXCEPT !.lease = w, !.expired = FALSE]]
    BY DEF Claim
  <2> QED BY <2>1 DEF TypeOK, Rows
<1>2. pc'[w] = "claimed" /\ w \in Processes /\ w \notin Handlers
  BY WorkersAreProcesses, DisjointAssumption DEF Claim, Goto, TypeOK
<1>3. \A p \in Processes \ {w} : pc'[p] = pc[p] /\ rec'[p] = rec[p]
  BY <1>2 DEF Claim, Goto, TypeOK
<1>4. UNCHANGED <<card, marked, provider, mem, fresh, lock>>
  BY DEF Claim, external, settings
<1> QED
  BY <1>1, <1>2, <1>3, <1>4, WorkersAreProcesses, LeaseColumnsProgress DEF Loaded

LEMMA CrashProgress ==
  ASSUME TypeOK, ProgressInv, NEW p \in Processes, Crash(p)
  PROVE  ProgressInv'
<1>1. UNCHANGED <<row, card, marked, provider>> /\ pc'[p] = "idle"
  BY DEF Crash, Goto, TypeOK, external, settings
<1>2. \A q \in Processes \ {p} :
        pc'[q] = pc[q] /\ rec'[q] = rec[q] /\ mem'[q] = mem[q] /\ (q \in fresh' => q \in fresh)
  BY DEF Crash, Goto, TypeOK
<1>3. ASSUME NEW v \in Workers \ {p}, lock[rec[v]] = v, pc[v] \in Loaded
      PROVE  lock'[rec[v]] = v
  <2>1. rec[v] \in Recordings
    BY <1>3, Knowledge
  <2> QED BY <1>3, <2>1 DEF Crash
<1>4. ASSUME NEW v \in Workers, pc'[v] \in Loaded PROVE v # p /\ pc[v] \in Loaded
  <2>1. v # p
    BY <1>1, <1>4 DEF Loaded
  <2> QED BY <1>2, <1>4, <2>1, WorkersAreProcesses
<1> QED BY <1>1, <1>2, <1>3, <1>4, WorkersAreProcesses, LeaseColumnsProgress

LEMMA TimeProgress ==
  ASSUME TypeOK, ProgressInv, NEW r \in Recordings, ExpireLease(r) \/ DeadlinePasses(r)
  PROVE  ProgressInv'
<1>1. /\ UNCHANGED <<card, marked, provider, pc, rec, mem, fresh, lock>>
      /\ row' = row \/ row' = [row EXCEPT ![r] = [@ EXCEPT !.expired = TRUE]]
  BY DEF ExpireLease, DeadlinePasses, db, local, external, settings
<1>2. \A q \in Recordings :
        /\ row'[q].status = row[q].status /\ row'[q].route = row[q].route
        /\ row'[q].dest = row[q].dest /\ row'[q].path = row[q].path
        /\ row'[q].link = row[q].link /\ row'[q].page = row[q].page /\ row'[q].ask = row[q].ask
  BY <1>1 DEF TypeOK, Rows
<1> QED BY <1>1, <1>2, LeaseColumnsProgress
-----------------------------------------------------------------------------
(* Requests.  A handler's recording is no interview, so the runs that wait *)
(* for it know nothing that it could make untrue.                          *)

LEMMA HandlerProgress ==
  ASSUME TypeOK, ProgressInv, NEW h \in Handlers, pc[h] # "idle",
         NEW r \in Recordings, r = rec[h], OthersStay(h, r), row'[r].route = row[r].route,
         row'[r] = row[r] \/ row'[r].status \in {"uploaded", "completed"},
         pc'[h] = "idle" \/ rec'[h] = r
  PROVE  ProgressInv'
<1>1. h \in Processes /\ h \notin Workers /\ row[r].route = "non_interview"
  BY WorkersAreProcesses, DisjointAssumption DEF ProgressInv, HandlerInv
<1>2. ASSUME NEW v \in Workers PROVE WorkerInv(v)'
  <2>1. /\ WorkerInv(v) /\ pc'[v] = pc[v] /\ rec'[v] = rec[v] /\ mem'[v] = mem[v]
        /\ (v \in fresh' => v \in fresh) /\ provider' = provider
    BY <1>1, WorkersAreProcesses DEF OthersStay, ProgressInv
  <2>2. CASE pc[v] \notin Loaded
    BY <2>1, <2>2 DEF WorkerInv
  <2>3. CASE rec[v] = r
    BY <1>1, <2>1, <2>3 DEF WorkerInv
  <2>4. CASE pc[v] \in Loaded /\ rec[v] # r
    <3>1. rec[v] \in Recordings \ {r}
      BY <2>4, Knowledge
    <3> QED BY <2>1, <3>1, WorkerStays DEF OthersStay
  <2> QED BY <2>2, <2>3, <2>4
<1>3. ASSUME NEW q \in Recordings PROVE RowInv(q)'
  <2>1. CASE q = r
    BY <1>1, <2>1 DEF RowInv, ProgressInv, Untouched
  <2>2. CASE q # r
    BY <2>2, RowStays DEF ProgressInv, OthersStay
  <2> QED BY <2>1, <2>2
<1>4. ASSUME NEW g \in Handlers PROVE HandlerInv(g)'
  <2>1. CASE g = h
    BY <1>1, <2>1 DEF HandlerInv
  <2>2. CASE g # h
    <3>1. pc'[g] = pc[g] /\ rec'[g] = rec[g] /\ (pc[g] # "idle" => rec[g] \in Recordings)
      BY <2>2, WorkersAreProcesses DEF OthersStay, TypeOK
    <3>2. pc[g] # "idle" => row'[rec[g]].route = row[rec[g]].route
      BY <3>1 DEF OthersStay
    <3> QED BY <3>1, <3>2 DEF HandlerInv, ProgressInv
  <2> QED BY <2>1, <2>2
<1> QED BY <1>2, <1>3, <1>4 DEF ProgressInv

LEMMA HandlerStepProgress ==
  ASSUME TypeOK, ProgressInv, NEW h \in Handlers, HandlerStep(h)
  PROVE  ProgressInv'
<1>1. h \in Processes /\ pc[h] # "idle"
  BY WorkersAreProcesses DEF HandlerStep, Begin, StorageStep, StorageReused, StorageClaimed,
     StorageCollision, UploadBegins, UploadEnds, UploadBreaks, PutObject, CommitUpload,
     CommitRefused, ShareAndComplete, HandlerRaises
<1>2. PICK r \in Recordings : r = rec[h]
  BY <1>1 DEF TypeOK
<1>3. ASSUME Raised(h), UNCHANGED <<card, marked, provider>> PROVE ProgressInv'
  <2>1. OthersStay(h, r) /\ pc'[h] = "idle" /\ row' = row
    BY <1>1, <1>3 DEF Raised, Goto, TypeOK, OthersStay
  <2> QED BY <1>1, <1>2, <2>1, HandlerProgress
<1>4. ASSUME NEW step, Goto(h, step), UNCHANGED <<row, lock, rec, mem, fresh, card, marked, provider>>
      PROVE  ProgressInv'
  <2>1. OthersStay(h, r) /\ rec'[h] = r
    BY <1>1, <1>2, <1>4 DEF Goto, TypeOK, OthersStay
  <2> QED BY <1>1, <1>2, <1>4, <2>1, HandlerProgress
<1>5. CASE Begin(h)
  <2>1. OthersStay(h, r) /\ rec'[h] = r /\ row' = row
    BY <1>1, <1>2, <1>5 DEF Begin, Goto, TypeOK, OthersStay, db, external, settings
  <2> QED BY <1>1, <1>2, <2>1, HandlerProgress
<1>6. CASE CommitUpload(h)
  <2> DEFINE x == [row[r] EXCEPT !.path = mem[h].dest, !.status = "uploaded"]
  <2>1. /\ row' = [row EXCEPT ![r] = x] /\ lock' = [lock EXCEPT ![r] = None]
        /\ \A q \in Processes \ {h} : mem'[q] = mem[q] /\ pc'[q] = pc[q]
        /\ UNCHANGED <<rec, fresh, card, marked, provider>>
    BY <1>2, <1>6 DEF CommitUpload, Commit, Goto, Unlock, external, settings, TypeOK
  <2>2. x.status = "uploaded" /\ x.route = row[r].route
    BY DEF TypeOK, Rows
  <2> HIDE DEF x
  <2>3. row'[r] = x /\ OthersStay(h, r) /\ rec'[h] = r
    BY <1>1, <1>2, <2>1 DEF TypeOK, OthersStay
  <2> QED BY <1>1, <1>2, <2>2, <2>3, HandlerProgress
<1>7. CASE ShareAndComplete(h)
  <2> DEFINE x == [row[r] EXCEPT !.status = "completed", !.link = mem[h].path]
  <2>1. /\ row' = [row EXCEPT ![r] = x] /\ pc' = [pc EXCEPT ![h] = "idle"]
        /\ \A q \in Processes \ {h} : mem'[q] = mem[q] /\ rec'[q] = rec[q]
        /\ UNCHANGED <<lock, fresh, card, marked, provider>>
    BY <1>2, <1>7 DEF ShareAndComplete, Goto, external, settings, TypeOK
  <2>2. x.status = "completed" /\ x.route = row[r].route
    BY DEF TypeOK, Rows
  <2> HIDE DEF x
  <2>3. row'[r] = x /\ OthersStay(h, r) /\ pc'[h] = "idle"
    BY <1>1, <1>2, <2>1 DEF TypeOK, OthersStay
  <2> QED BY <1>1, <1>2, <2>2, <2>3, HandlerProgress
<1>8. CASE StorageStep(h)
  <2>1. CASE StorageReused(h) \/ StorageClaimed(h) \/ UploadBegins(h) \/ UploadEnds(h) \/ PutObject(h)
    BY <1>4, <2>1 DEF StorageReused, StorageClaimed, UploadBegins, UploadEnds, PutObject, db,
       external, settings
  <2>2. CASE StorageCollision(h) \/ UploadBreaks(h)
    BY <1>3, <2>2 DEF StorageCollision, UploadBreaks, Collide, external, settings
  <2> QED BY <1>6, <1>8, <2>1, <2>2 DEF StorageStep
<1>9. CASE CommitRefused(h) \/ HandlerRaises(h)
  BY <1>3, <1>9 DEF CommitRefused, HandlerRaises, external, settings
<1> QED BY <1>5, <1>7, <1>8, <1>9 DEF HandlerStep

(* What a recruiter's decision may find a run at.                          *)
LEMMA RunsAtDecision ==
  ASSUME TypeOK, ProgressInv, NEW v \in Workers, pc[v] \in Loaded, row[rec[v]].route = "interview"
  PROVE  /\ row[rec[v]].status # "manual_review"
         /\ row[rec[v]].status = "failed" => pc[v] = "calendar"
         /\ row[rec[v]].status = "candidate_matched" => pc[v] \in {"resolve", "route"}
         /\ provider = "minio" /\ pc[v] # "calendar" => Fresh(v)
<1>1. Knows(v) /\ mem[v].status \in StepStatus[pc[v]]
  BY Knowledge
<1>2. Fresh(v) => mem[v].status = row[rec[v]].status
  BY DEF Fresh, CopyOf
<1>3. pc[v] = "calendar" => row[rec[v]].status \in {"found", "failed"}
  BY <1>1 DEF Knows
<1>4. pc[v] \notin {"calendar", "route"} => Fresh(v)
  BY <1>1 DEF Knows, BeforeTransfer
<1>5. pc[v] = "route" =>
        \/ provider = "minio" /\ Fresh(v)
        \/ provider = "synology" /\ row[rec[v]].status \in {"candidate_matched", "transfer_started"}
  BY <1>1 DEF Knows
<1>6. pc[v] # "calendar" => StepStatus[pc[v]] \cap {"manual_review", "failed"} = {}
  BY DEF StepStatus, Loaded
<1>7. pc[v] \notin {"calendar", "resolve", "route"} => "candidate_matched" \notin StepStatus[pc[v]]
  BY DEF StepStatus, Loaded
<1>8. row[rec[v]].status # "manual_review"
  BY <1>1, <1>2, <1>3, <1>4, <1>5, <1>6
<1>9. row[rec[v]].status = "failed" => pc[v] = "calendar"
  BY <1>1, <1>2, <1>4, <1>5, <1>6
<1>10. row[rec[v]].status = "candidate_matched" => pc[v] \in {"resolve", "route"}
  BY <1>1, <1>2, <1>3, <1>4, <1>7
<1> QED BY <1>4, <1>5, <1>8, <1>9, <1>10

LEMMA DecisionStays ==
  ASSUME TypeOK, ProgressInv, NEW r \in Recordings, RowInv(r)',
         UNCHANGED <<lock, mem, fresh, card, marked, provider>>,
         \A q \in Recordings \ {r} : row'[q] = row[q],
         \A v \in Workers : pc'[v] = pc[v] /\ rec'[v] = rec[v],
         \A v \in Workers : pc[v] \in Loaded /\ rec[v] = r => WorkerInv(v)',
         \A h \in Handlers : HandlerInv(h)'
  PROVE  ProgressInv'
<1>1. ASSUME NEW v \in Workers PROVE WorkerInv(v)'
  <2>1. CASE pc[v] \in Loaded /\ rec[v] # r
    <3>1. rec[v] \in Recordings \ {r}
      BY <2>1, Knowledge
    <3> QED BY <2>1, <3>1, WorkerStays DEF ProgressInv
  <2>2. CASE pc[v] \notin Loaded
    BY <2>2 DEF WorkerInv
  <2> QED BY <2>1, <2>2
<1>2. ASSUME NEW q \in Recordings PROVE RowInv(q)'
  BY RowStays DEF ProgressInv
<1> QED BY <1>1, <1>2 DEF ProgressInv

LEMMA AnswerProgress ==
  ASSUME TypeOK, ProgressInv, NEW r \in Recordings, Answer(r)
  PROVE  ProgressInv'
<1>1. row[r] \in Rows /\ RowInv(r)
  BY DEF TypeOK, ProgressInv
<1>2. /\ UNCHANGED <<lock, pc, rec, mem, fresh, card, marked, provider>>
      /\ row[r].status = "manual_review"
  BY DEF Answer, local, external, settings
<1>3. PICK x \in {[row[r] EXCEPT !.status = "calendar_event_found", !.ask = "nothing"],
                  [row[r] EXCEPT !.status = "candidate_matched", !.page = TRUE, !.ask = "nothing"],
                  [row[r] EXCEPT !.status = "ignored", !.ask = "nothing"]} :
        /\ row' = [row EXCEPT ![r] = x]
        /\ x.status # "ignored" => row[r].ask # "nothing"
  BY <1>1 DEF Answer, Rows
<1>4. /\ x.status \in {"calendar_event_found", "candidate_matched", "ignored"}
      /\ x.route = row[r].route /\ x.dest = row[r].dest
  BY <1>1, <1>3 DEF Rows
<1>5. row'[r] = x /\ \A q \in Recordings \ {r} : row'[q] = row[q]
  BY <1>3 DEF TypeOK
<1>6. RowInv(r)'
  <2>1. x.status # "ignored" => Untouched(r)
    BY <1>1, <1>2, <1>3 DEF RowInv
  <2> QED BY <1>1, <1>2, <1>4, <1>5, <2>1 DEF RowInv, Untouched, Earned, Stored, Linked, Carded
<1>7. ASSUME NEW v \in Workers, pc[v] \in Loaded, rec[v] = r PROVE WorkerInv(v)'
  <2>1. row[r].route # "interview"
    BY <1>2, <1>7, RunsAtDecision
  <2> QED BY <1>2, <1>4, <1>5, <1>7, <2>1 DEF ProgressInv, WorkerInv
<1>8. ASSUME NEW h \in Handlers PROVE HandlerInv(h)'
  <2>1. pc[h] # "idle" => rec[h] \in Recordings
    BY WorkersAreProcesses DEF TypeOK
  <2> QED BY <1>2, <1>4, <1>5, <2>1 DEF HandlerInv, ProgressInv
<1> QED BY <1>2, <1>5, <1>6, <1>7, <1>8, DecisionStays

LEMMA RouteInterviewProgress ==
  ASSUME TypeOK, ProgressInv, NEW r \in Recordings, NEW d \in Destinations, RouteInterview(r, d)
  PROVE  ProgressInv'
<1> DEFINE x == [Reset(row[r]) EXCEPT !.status = "transfer_started", !.dest = d, !.ask = "nothing"]
<1>1. /\ row[r].status \in {"candidate_matched", "manual_review", "failed"}
      /\ row[r].route = "interview" /\ row[r].page /\ lock[r] = None
      /\ provider = "synology" /\ row' = [row EXCEPT ![r] = x]
      /\ UNCHANGED <<lock, pc, rec, mem, fresh, card, marked, provider>>
  BY DEF RouteInterview, local, external, settings
<1>2. Reset(row[r]) \in Rows /\ Reset(row[r]).route = row[r].route
  BY ResetType DEF TypeOK, Reset, Rows
<1>3. x.status = "transfer_started" /\ x.route = "interview"
  BY <1>1, <1>2 DEF Rows
<1> HIDE DEF x
<1>4. row'[r] = x /\ \A q \in Recordings \ {r} : row'[q] = row[q]
  BY <1>1 DEF TypeOK
<1>5. RowInv(r)'
  BY <1>3, <1>4 DEF RowInv, Earned, Stored, Linked, Carded
<1>6. ASSUME NEW v \in Workers, pc[v] \in Loaded, rec[v] = r PROVE WorkerInv(v)'
  <2>1. WorkerInv(v) /\ Knows(v)
    BY <1>1, <1>6, Knowledge DEF ProgressInv
  <2>2. pc[v] # "calendar" /\ pc[v] # "resolve"
    BY <1>1, <1>6, <2>1, NoneAssumption DEF Knows
  <2>3. pc[v] = "route" /\ provider # "minio"
    BY <1>1, <1>6, <2>2, RunsAtDecision
  <2> QED BY <1>1, <1>3, <1>4, <1>6, <2>1, <2>3 DEF WorkerInv, Knows, BeforeTransfer
<1>7. ASSUME NEW h \in Handlers PROVE HandlerInv(h)'
  <2>1. pc[h] # "idle" => rec[h] \in Recordings \ {r}
    BY <1>1, WorkersAreProcesses DEF TypeOK, ProgressInv, HandlerInv
  <2> QED BY <1>1, <1>4, <2>1 DEF HandlerInv, ProgressInv
<1> QED BY <1>1, <1>4, <1>5, <1>6, <1>7, DecisionStays

LEMMA RouteNonInterviewProgress ==
  ASSUME TypeOK, ProgressInv, NEW r \in Recordings, NEW h \in Handlers, NEW d \in Destinations,
         RouteNonInterview(h, r, d)
  PROVE  ProgressInv'
<1> DEFINE x == [Reset(row[r]) EXCEPT !.status = "transfer_started", !.dest = d,
                                      !.route = "non_interview", !.ask = "nothing"]
<1>1. /\ row[r].status = "manual_review" \/ row[r].route = "non_interview"
      /\ row' = [row EXCEPT ![r] = x]
      /\ UNCHANGED <<lock, mem, fresh, card, marked, provider>>
  BY DEF RouteNonInterview, external, settings
<1>2. Reset(row[r]) \in Rows
  BY ResetType DEF TypeOK
<1>3. x.status = "transfer_started" /\ x.route = "non_interview"
  BY <1>2 DEF Rows
<1> HIDE DEF x
<1>4. row'[r] = x /\ \A q \in Recordings \ {r} : row'[q] = row[q]
  BY <1>1 DEF TypeOK
<1>5. /\ rec'[h] = r
      /\ \A q \in Processes \ {h} : pc'[q] = pc[q] /\ rec'[q] = rec[q]
  BY WorkersAreProcesses DEF RouteNonInterview, Goto, TypeOK
<1>6. RowInv(r)'
  BY <1>3, <1>4 DEF RowInv
<1>7. \A v \in Workers : pc'[v] = pc[v] /\ rec'[v] = rec[v]
  BY <1>5, WorkersAreProcesses, DisjointAssumption
<1>8. ASSUME NEW v \in Workers, pc[v] \in Loaded, rec[v] = r PROVE WorkerInv(v)'
  <2>1. row[r].route # "interview"
    BY <1>1, <1>8, RunsAtDecision
  <2>2. row[r].route = "non_interview" /\ WorkerInv(v)
    BY <1>8, <2>1, Knowledge DEF ProgressInv
  <2> QED BY <1>1, <1>3, <1>4, <1>7, <1>8, <2>2 DEF WorkerInv
<1>9. ASSUME NEW g \in Handlers PROVE HandlerInv(g)'
  <2>1. pc[g] # "idle" => rec[g] \in Recordings
    BY WorkersAreProcesses DEF TypeOK
  <2>2. CASE g = h
    BY <1>3, <1>4, <1>5, <2>2 DEF HandlerInv
  <2>3. CASE g # h
    BY <1>3, <1>4, <1>5, <2>1, <2>3, WorkersAreProcesses DEF HandlerInv, ProgressInv
  <2> QED BY <2>2, <2>3
<1> QED BY <1>1, <1>4, <1>6, <1>7, <1>8, <1>9, DecisionStays

LEMMA NextProgress ==
  ASSUME SlowRuns = FALSE, TypeOK, LeaseInv, StorageInv, ProgressInv, [Next]_vars
  PROVE  ProgressInv'
<1>1. CASE UNCHANGED vars
  BY <1>1, LeaseColumnsProgress DEF vars
<1>2. ASSUME NEW r \in Recordings, Decision(r) PROVE ProgressInv'
  BY <1>2, AnswerProgress, RouteInterviewProgress, RouteNonInterviewProgress DEF Decision
<1> QED
  BY <1>1, <1>2, RunStepProgress, HandlerStepProgress, ClaimProgress, CrashProgress, TimeProgress
  DEF Next
-----------------------------------------------------------------------------
(* A recording that a recruiter routed as a non-interview is stored and    *)
(* linked, and no more: no run takes it to the card, the summary or the    *)
(* mark, though a run may pick up the transfer a request has begun.        *)

StoringSteps == {"claim_storage", "upload", "uploading", "commit_upload", "share", "card"}

StoringStatuses ==
  { "transfer_started", "uploaded", "link_created", "completed", "failed", "manual_review",
    "ignored" }

StoredOnly ==
  /\ \A r \in Recordings :
       row[r].route = "non_interview" => row[r].status \in StoringStatuses
  /\ \A w \in Workers :
       pc[w] \in Loaded /\ row[rec[w]].route = "non_interview" => pc[w] \in StoringSteps

(* p works on r: no other process and no other row changes.                *)
WorksOn(p, r) ==
  /\ \A q \in Processes \ {p} : pc'[q] = pc[q] /\ rec'[q] = rec[q] /\ mem'[q] = mem[q]
  /\ \A q \in Recordings \ {r} : row'[q] = row[q]
  /\ row'[r].route = row[r].route

(* What a process may do to the non-interview it works on.                 *)
RowKept(r) ==
  /\ row'[r].status = row[r].status /\ row'[r].dest = row[r].dest
  /\ row'[r].path = row[r].path /\ row'[r].link = row[r].link

MemKept(p) == mem'[p].dest = mem[p].dest /\ mem'[p].path = mem[p].path

Stops(p, r) ==
  /\ pc'[p] = "idle" \/ (p \in Workers /\ pc'[p] \in {"release", "release_fail", "fail_found"})
  /\ RowKept(r)

Loads(p, r) ==
  /\ mem'[p] = CopyOf(row[r])
  /\ \/ p \in Handlers /\ pc'[p] = "claim_storage"
     \/ /\ p \in Workers
        /\ \/ row[r].status = "transfer_started" /\ pc'[p] = "claim_storage"
           \/ row[r].status = "uploaded" /\ pc'[p] = "share"
           \/ row[r].status = "link_created" /\ pc'[p] = "card"
  /\ RowKept(r)

Sends(p, r) ==
  /\ pc[p] \in {"claim_storage", "upload", "uploading"}
  /\ pc'[p] \in {"upload", "uploading", "commit_upload"}
  /\ RowKept(r) /\ MemKept(p)

Records(p, r) ==
  /\ pc[p] = "commit_upload" /\ pc'[p] = "share"
  /\ row'[r].status = "uploaded" /\ row'[r].path = mem[p].dest
  /\ row'[r].dest = row[r].dest /\ row'[r].link = row[r].link
  /\ mem'[p].dest = mem[p].dest /\ mem'[p].path = mem[p].dest

Links(p, r) ==
  /\ pc[p] = "share"
  /\ \/ p \in Workers /\ pc'[p] = "card" /\ row'[r].status = "link_created" /\ MemKept(p)
     \/ p \in Handlers /\ pc'[p] = "idle" /\ row'[r].status = "completed"
  /\ row'[r].link = mem[p].path
  /\ row'[r].dest = row[r].dest /\ row'[r].path = row[r].path

Ends(w, r) ==
  /\ w \in Workers /\ pc[w] \in StoringSteps /\ pc'[w] = "release"
  /\ \/ row'[r].status \in {"failed", "manual_review"}
     \/ pc[w] = "card" /\ row'[r].status = "completed"
  /\ row'[r].dest = row[r].dest /\ row'[r].path = row[r].path /\ row'[r].link = row[r].link

StoringMove(p, r) ==
  Stops(p, r) \/ Loads(p, r) \/ Sends(p, r) \/ Records(p, r) \/ Links(p, r) \/ Ends(p, r)

LEMMA StoredOnlyInit == Init => StoredOnly
  BY WorkersAreProcesses DEF Init, NewRow, StoredOnly, Loaded

LEMMA SettleWorks ==
  ASSUME TypeOK, NEW p \in Processes, NEW r \in Recordings, r = rec[p], NEW s, NEW ask,
         Settle(p, s, ask)
  PROVE  /\ WorksOn(p, r) /\ row'[r].status = s /\ pc'[p] = "release"
         /\ row'[r].dest = row[r].dest /\ row'[r].path = row[r].path /\ row'[r].link = row[r].link
<1> DEFINE x == [row[r] EXCEPT !.status = s, !.ask = ask]
<1>1. row' = [row EXCEPT ![r] = x]
  BY DEF Settle
<1>2. /\ x.status = s /\ x.route = row[r].route /\ x.dest = row[r].dest
      /\ x.path = row[r].path /\ x.link = row[r].link
  BY DEF TypeOK, Rows
<1> HIDE DEF x
<1>3. row'[r] = x /\ \A q \in Recordings \ {r} : row'[q] = row[q]
  BY <1>1 DEF TypeOK
<1>4. /\ rec' = rec /\ mem' = mem /\ pc'[p] = "release"
      /\ \A q \in Processes \ {p} : pc'[q] = pc[q]
  BY DEF Settle, Goto, TypeOK
<1> QED BY <1>2, <1>3, <1>4 DEF WorksOn

LEMMA CommitWorks ==
  ASSUME TypeOK, NEW p \in Processes, NEW r \in Recordings, r = rec[p], NEW s, NEW x \in Rows,
         NEW y \in Copies, NEW step, Commit(p, s, x, y, step), x.route = row[r].route
  PROVE  /\ WorksOn(p, r) /\ row'[r].status = s /\ pc'[p] = step /\ rec' = rec
         /\ row'[r].dest = x.dest /\ row'[r].path = x.path /\ row'[r].link = x.link
         /\ mem'[p].dest = y.dest /\ mem'[p].path = y.path
<1> DEFINE z == [x EXCEPT !.status = s]
           m == [y EXCEPT !.status = s]
<1>1. row' = [row EXCEPT ![r] = z] /\ mem' = [mem EXCEPT ![p] = m]
  BY DEF Commit
<1>2. /\ z.status = s /\ z.route = x.route /\ z.dest = x.dest
      /\ z.path = x.path /\ z.link = x.link /\ m.dest = y.dest /\ m.path = y.path
  BY DEF Rows, Copies
<1> HIDE DEF z, m
<1>3. /\ row'[r] = z /\ \A q \in Recordings \ {r} : row'[q] = row[q]
      /\ mem'[p] = m /\ \A q \in Processes \ {p} : mem'[q] = mem[q]
  BY <1>1 DEF TypeOK
<1>4. /\ rec' = rec /\ pc'[p] = step
      /\ \A q \in Processes \ {p} : pc'[q] = pc[q]
  BY DEF Commit, Goto, TypeOK
<1> QED BY <1>2, <1>3, <1>4 DEF WorksOn

LEMMA CallWorks ==
  ASSUME TypeOK, NEW p \in Processes, NEW r, NEW step, Goto(p, step), row' = row,
         \A q \in Processes \ {p} : rec'[q] = rec[q] /\ mem'[q] = mem[q]
  PROVE  WorksOn(p, r) /\ pc'[p] = step /\ RowKept(r)
<1>1. pc'[p] = step /\ \A q \in Processes \ {p} : pc'[q] = pc[q]
  BY DEF Goto, TypeOK
<1> QED BY <1>1 DEF WorksOn, RowKept

(* The commits of a transfer, by a run or by a request.                    *)
LEMMA CommitUploadWorks ==
  ASSUME TypeOK, NEW p \in Processes, NEW r \in Recordings, r = rec[p], CommitUpload(p)
  PROVE  WorksOn(p, r) /\ Records(p, r) /\ rec' = rec
<1> DEFINE x == [row[rec[p]] EXCEPT !.path = mem[p].dest]
           y == [mem[p] EXCEPT !.path = mem[p].dest]
<1>1. pc[p] = "commit_upload" /\ Commit(p, "uploaded", x, y, "share")
  BY DEF CommitUpload
<1>2. row[r] \in Rows /\ mem[p] \in Copies /\ mem[p].dest \in Places
  BY DEF TypeOK, Copies
<1>3. /\ x \in Rows /\ x.route = row[r].route /\ x.dest = row[r].dest /\ x.link = row[r].link
      /\ x.path = mem[p].dest
  BY <1>2 DEF Rows
<1>4. y \in Copies /\ y.dest = mem[p].dest /\ y.path = mem[p].dest
  BY <1>2 DEF Copies
<1> HIDE DEF x, y
<1>5. /\ WorksOn(p, r) /\ row'[r].status = "uploaded" /\ pc'[p] = "share" /\ rec' = rec
      /\ row'[r].dest = x.dest /\ row'[r].path = x.path /\ row'[r].link = x.link
      /\ mem'[p].dest = y.dest /\ mem'[p].path = y.path
  BY <1>1, <1>3, <1>4, CommitWorks
<1> QED BY <1>1, <1>3, <1>4, <1>5 DEF Records

(* Whatever the storage answers.                                           *)
LEMMA StorageStepWorks ==
  ASSUME TypeOK, NEW p \in Processes, NEW r \in Recordings, r = rec[p], StorageStep(p)
  PROVE  WorksOn(p, r) /\ StoringMove(p, r) /\ (pc'[p] # "idle" => rec'[p] = r)
<1>1. CASE StorageReused(p) \/ StorageClaimed(p) \/ UploadBegins(p) \/ UploadEnds(p) \/ PutObject(p)
  <2>1. /\ pc[p] \in {"claim_storage", "upload", "uploading"}
        /\ \E step \in {"upload", "uploading", "commit_upload"} : Goto(p, step)
    BY <1>1 DEF StorageReused, StorageClaimed, UploadBegins, UploadEnds, PutObject
  <2>2. UNCHANGED <<row, rec, mem>>
    BY <1>1 DEF StorageReused, StorageClaimed, UploadBegins, UploadEnds, PutObject, db
  <2> QED BY <2>1, <2>2, CallWorks DEF StoringMove, Sends, MemKept
<1>2. CASE StorageCollision(p) \/ UploadBreaks(p)
  <2>1. \/ Raised(p)
        \/ /\ p \in Workers /\ pc[p] \in StoringSteps
           /\ \E s \in {"manual_review", "failed"} : Settle(p, s, "nothing")
    BY <1>2 DEF StorageCollision, UploadBreaks, Collide, StoringSteps, Processes
  <2>2. CASE Raised(p)
    <3>1. /\ Goto(p, "idle") /\ row' = row
          /\ \A q \in Processes \ {p} : rec'[q] = rec[q] /\ mem'[q] = mem[q]
      BY <2>2 DEF Raised, TypeOK
    <3>2. WorksOn(p, r) /\ pc'[p] = "idle" /\ RowKept(r)
      BY <3>1, CallWorks
    <3> QED BY <3>2 DEF StoringMove, Stops
  <2>3. ASSUME p \in Workers, pc[p] \in StoringSteps,
               NEW s \in {"manual_review", "failed"}, Settle(p, s, "nothing")
        PROVE  WorksOn(p, r) /\ Ends(p, r) /\ rec'[p] = r
    <3>1. rec' = rec
      BY <2>3 DEF Settle
    <3>2. /\ WorksOn(p, r) /\ row'[r].status = s /\ pc'[p] = "release" /\ row'[r].dest = row[r].dest
          /\ row'[r].path = row[r].path /\ row'[r].link = row[r].link
      BY <2>3, SettleWorks
    <3> QED BY <2>3, <3>1, <3>2 DEF Ends
  <2> QED BY <2>1, <2>2, <2>3 DEF StoringMove
<1>3. CASE CommitUpload(p)
  BY <1>3, CommitUploadWorks DEF StoringMove
<1> QED BY <1>1, <1>2, <1>3 DEF StorageStep

(* A run works on its recording; on a non-interview it does no more than   *)
(* store it.  Of the steps beside the storage only Share, SkipCard and     *)
(* StepFails start where a non-interview may be.                           *)
LEMMA RunStepWorks ==
  ASSUME TypeOK, LeaseInv, ProgressInv, StoredOnly, NEW w \in Workers, RunStep(w)
  PROVE  \E r \in Recordings :
           /\ r = rec[w] /\ pc[w] # "idle" /\ WorksOn(w, r)
           /\ row[r].route # "interview" => StoringMove(w, r)
           /\ pc'[w] \in Loaded => rec'[w] = r
<1>0. w \in Processes /\ pc[w] # "idle" /\ w \notin Handlers
  BY WorkersAreProcesses, DisjointAssumption
  DEF RunStep, LoadFound, LoadLocked, LoadGone, Release, Calendar,
     CalendarUnavailable, CalendarRejected, FailFound, LookupMatched, LookupUnresolved,
     LookupDeferred, Resolve, ResolveRejected, Route, StorageStep, StorageReused,
     StorageClaimed, StorageCollision, UploadBegins, UploadEnds, UploadBreaks, PutObject,
     CommitUpload, Share, WriteCard, SkipCard, CardDeferred, CommitCard, Await, SearchEnds,
     SearchWaits, CompleteUnmarked, MarkSource, CommitMark, Complete, StepFails
<1>1. PICK r \in Recordings : r = rec[w]
  BY <1>0 DEF TypeOK
<1>2. row[r] \in Rows /\ mem[w] \in Copies /\ row[r].route \in {"interview", "non_interview"}
  BY <1>0 DEF TypeOK, Rows
<1> DEFINE Goal == /\ WorksOn(w, r)
                   /\ row[r].route # "interview" => StoringMove(w, r)
                   /\ pc'[w] \in Loaded => rec'[w] = r
<1> SUFFICES Goal
  BY <1>0, <1>1
<1>3. ASSUME pc[w] \in Loaded, row[r].route # "interview"
      PROVE  pc[w] \in StoringSteps /\ mem[w].route = "non_interview" /\ w \notin fresh
  BY <1>1, <1>2, <1>3, Knowledge DEF StoredOnly
(* The ways to leave a step behind.                                        *)
<1>4. ASSUME NEW s, NEW ask, Settle(w, s, ask),
             \/ row[r].route = "interview"
             \/ pc[w] \in StoringSteps /\ s \in {"failed", "manual_review"}
             \/ pc[w] = "card" /\ s = "completed"
      PROVE  Goal
  <2>1. /\ WorksOn(w, r) /\ row'[r].status = s /\ pc'[w] = "release" /\ row'[r].dest = row[r].dest
        /\ row'[r].path = row[r].path /\ row'[r].link = row[r].link
    BY <1>0, <1>1, <1>4, SettleWorks
  <2>2. "card" \in StoringSteps /\ "release" \notin Loaded
    BY DEF StoringSteps, Loaded
  <2> QED BY <1>4, <2>1, <2>2 DEF StoringMove, Ends
<1>5. ASSUME NEW s, NEW x \in Rows, NEW y \in Copies, NEW step, Commit(w, s, x, y, step),
             x.route = row[r].route, row[r].route = "interview"
      PROVE  Goal
  BY <1>0, <1>1, <1>5, CommitWorks
<1>6. ASSUME NEW step, Goto(w, step), row' = row, rec' = rec, mem' = mem,
             row[r].route = "interview" \/ step \in {"release", "release_fail"}
      PROVE  Goal
  <2>1. WorksOn(w, r) /\ pc'[w] = step /\ RowKept(r)
    BY <1>0, <1>6, CallWorks
  <2> QED BY <1>0, <1>1, <1>6, <2>1 DEF StoringMove, Stops
<1>7. CASE LoadFound(w)
  <2>1. row[r].route = "interview"
    BY <1>1, <1>7 DEF LoadFound, ProgressInv, RowInv, Untouched
  <2>2. Goto(w, "calendar") /\ row' = row /\ rec' = rec /\ \A q \in Processes \ {w} : mem'[q] = mem[q]
    BY <1>7 DEF LoadFound, db, TypeOK
  <2>3. WorksOn(w, r)
    BY <1>0, <2>2, CallWorks
  <2> QED BY <1>1, <2>1, <2>2, <2>3
<1>8. CASE LoadLocked(w)
  <2> DEFINE step == FirstStep[row[r].status]
  <2>1. /\ Goto(w, step) /\ row' = row /\ rec' = rec /\ row[r].status \in TransferResumable
        /\ mem'[w] = CopyOf(row[r]) /\ \A q \in Processes \ {w} : mem'[q] = mem[q]
    BY <1>0, <1>1, <1>8 DEF LoadLocked, TypeOK
  <2>2. row[r].route # "interview" => row[r].status \in {"transfer_started", "uploaded", "link_created"}
    BY <1>1, <1>2, <2>1 DEF StoredOnly, StoringStatuses, TransferResumable
  <2>3. /\ row[r].status = "transfer_started" => step = "claim_storage"
        /\ row[r].status = "uploaded" => step = "share"
        /\ row[r].status = "link_created" => step = "card"
    BY DEF FirstStep
  <2> HIDE DEF step
  <2>4. WorksOn(w, r) /\ pc'[w] = step /\ RowKept(r)
    BY <1>0, <2>1, CallWorks
  <2> QED BY <1>1, <2>1, <2>2, <2>3, <2>4 DEF StoringMove, Loads
<1>9. CASE LoadGone(w) \/ LookupDeferred(w) \/ CardDeferred(w) \/ SearchWaits(w)
  <2>1. Goto(w, "release") /\ row' = row /\ rec' = rec /\ mem' = mem
    BY <1>9 DEF LoadGone, LookupDeferred, CardDeferred, SearchWaits, Leave
  <2> QED BY <1>6, <2>1
<1>10. CASE Release(w)
  <2>1. /\ \A q \in Recordings \ {r} : row'[q] = row[q]
        /\ row'[r].route = row[r].route /\ RowKept(r)
    BY <1>1, <1>10 DEF Release, TypeOK, Rows, RowKept
  <2>2. /\ pc'[w] \in {"idle", "fail_found"}
        /\ \A q \in Processes \ {w} : pc'[q] = pc[q] /\ rec'[q] = rec[q] /\ mem'[q] = mem[q]
    BY <1>0, <1>10 DEF Release, Goto, TypeOK
  <2> QED BY <2>1, <2>2 DEF WorksOn, StoringMove, Stops, Loaded
<1>11. CASE Calendar(w)
  <2>1. row[r].route = "interview"
    BY <1>3, <1>11 DEF Calendar, Loaded, StoringSteps
  <2>2. \E s, ask : Settle(w, s, ask)
    BY <1>11 DEF Calendar
  <2> QED BY <1>4, <2>1, <2>2
<1>12. CASE CalendarUnavailable(w)
  BY <1>6, <1>12 DEF CalendarUnavailable, db
<1>13. CASE CalendarRejected(w)
  BY <1>6, <1>13 DEF CalendarRejected, db
<1>14. CASE FailFound(w)
  <2>1. row[r].route # "interview" => row[r].status # "found"
    BY <1>1, <1>2 DEF StoredOnly, StoringStatuses
  <2>2. /\ \A q \in Recordings \ {r} : row'[q] = row[q]
        /\ row'[r].route = row[r].route
        /\ row[r].status # "found" => row' = row
    BY <1>1, <1>14 DEF FailFound, TypeOK, Rows
  <2>3. /\ pc'[w] = "idle"
        /\ \A q \in Processes \ {w} : pc'[q] = pc[q] /\ rec'[q] = rec[q] /\ mem'[q] = mem[q]
    BY <1>0, <1>14 DEF FailFound, Goto, TypeOK
  <2> QED BY <2>1, <2>2, <2>3 DEF WorksOn, StoringMove, Stops, RowKept, Loaded
<1>15. CASE LookupMatched(w)
  <2>1. row[r].route = "interview"
    BY <1>3, <1>15 DEF LookupMatched, Loaded, StoringSteps
  <2>2. PICK d \in Identities(r) :
          Commit(w, "candidate_matched", [row[r] EXCEPT !.page = TRUE, !.dest = d],
                 [mem[w] EXCEPT !.dest = d], "route")
    BY <1>1, <1>15 DEF LookupMatched
  <2>3. d \in Places
    BY <1>2 DEF Identities, Rows, Places
  <2> DEFINE x == [row[r] EXCEPT !.page = TRUE, !.dest = d]
             y == [mem[w] EXCEPT !.dest = d]
  <2>4. x \in Rows /\ x.route = row[r].route /\ Commit(w, "candidate_matched", x, y, "route")
    BY <1>2, <2>2, <2>3 DEF Rows
  <2>5. y \in Copies
    BY <1>2, <2>3 DEF Copies
  <2> HIDE DEF x, y
  <2> QED BY <1>5, <2>1, <2>4, <2>5
<1>16. CASE LookupUnresolved(w) \/ ResolveRejected(w)
  <2>1. row[r].route = "interview"
    BY <1>3, <1>16 DEF LookupUnresolved, ResolveRejected, Loaded, StoringSteps
  <2>2. \E s, ask : Settle(w, s, ask)
    BY <1>16 DEF LookupUnresolved, ResolveRejected
  <2> QED BY <1>4, <2>1, <2>2
<1>17. CASE Resolve(w)
  <2>1. row[r].route = "interview" /\ rec'[w] = r
    BY <1>1, <1>3, <1>17 DEF Resolve, Loaded, StoringSteps
  <2>2. (\A q \in Recordings \ {r} : row'[q] = row[q]) /\ row'[r].route = row[r].route
    BY <1>1, <1>17 DEF Resolve, TypeOK, Rows
  <2>3. \A q \in Processes \ {w} : pc'[q] = pc[q] /\ rec'[q] = rec[q] /\ mem'[q] = mem[q]
    BY <1>17 DEF Resolve, Goto, TypeOK
  <2> QED BY <2>1, <2>2, <2>3 DEF WorksOn
<1>18. CASE Route(w)
  <2>1. row[r].route = "interview"
    BY <1>3, <1>18 DEF Route, Loaded, StoringSteps
  <2>2. \/ Settle(w, "manual_review", "nothing")
        \/ Commit(w, "transfer_started", row[r], mem[w], "claim_storage")
    BY <1>1, <1>18 DEF Route
  <2> QED BY <1>2, <1>4, <1>5, <2>1, <2>2
<1>19. CASE StorageStep(w)
  BY <1>0, <1>1, <1>19, StorageStepWorks DEF Loaded
<1>20. CASE Share(w)
  <2> DEFINE kept == IF row[rec[w]].artifact = None /\ provider = "synology"
                       THEN mem[w].path ELSE row[rec[w]].artifact
             x == [row[rec[w]] EXCEPT !.link = mem[w].path, !.artifact = kept]
             y == [mem[w] EXCEPT !.link = mem[w].path]
  <2>1. pc[w] = "share" /\ Commit(w, "link_created", x, y, "card")
    BY <1>20 DEF Share
  <2>2. mem[w].path \in Places /\ kept \in Places
    BY <1>1, <1>2 DEF Rows, Copies
  <2> HIDE DEF kept
  <2>3. /\ x \in Rows /\ x.route = row[r].route /\ x.dest = row[r].dest /\ x.path = row[r].path
        /\ x.link = mem[w].path
    BY <1>1, <1>2, <2>2 DEF Rows
  <2>4. y \in Copies /\ y.dest = mem[w].dest /\ y.path = mem[w].path
    BY <1>2, <2>2 DEF Copies
  <2> HIDE DEF x, y
  <2>5. /\ WorksOn(w, r) /\ row'[r].status = "link_created" /\ pc'[w] = "card" /\ rec' = rec
        /\ row'[r].dest = x.dest /\ row'[r].path = x.path /\ row'[r].link = x.link
        /\ mem'[w].dest = y.dest /\ mem'[w].path = y.path
    BY <1>0, <1>1, <2>1, <2>3, <2>4, CommitWorks
  <2> QED BY <1>1, <2>1, <2>3, <2>4, <2>5 DEF StoringMove, Links, MemKept
<1>21. CASE WriteCard(w)
  <2>1. row[r].route = "interview"
    BY <1>3, <1>21 DEF WriteCard, CardDue, Loaded
  <2> QED BY <1>6, <1>21, <2>1 DEF WriteCard, db
<1>22. CASE SkipCard(w)
  BY <1>4, <1>22 DEF SkipCard
<1>23. CASE CompleteUnmarked(w) \/ Complete(w)
  <2>1. row[r].route = "interview"
    BY <1>3, <1>23 DEF CompleteUnmarked, Complete, Loaded, StoringSteps
  <2> QED BY <1>4, <1>23, <2>1 DEF CompleteUnmarked, Complete
<1>24. CASE StepFails(w)
  <2>1. Settle(w, "failed", "nothing") /\ pc[w] \in Loaded
    BY <1>24 DEF StepFails, Loaded
  <2> QED BY <1>3, <1>4, <2>1
<1>25. CASE CommitCard(w) \/ Await(w) \/ CommitMark(w)
  <2>1. row[r].route = "interview"
    BY <1>3, <1>25 DEF CommitCard, Await, CommitMark, Loaded, StoringSteps
  <2>2. \E s, step : Commit(w, s, row[r], mem[w], step)
    BY <1>1, <1>25 DEF CommitCard, Await, CommitMark
  <2> QED BY <1>2, <1>5, <2>1, <2>2
<1>26. CASE SearchEnds(w) \/ MarkSource(w)
  <2>1. row[r].route = "interview"
    BY <1>3, <1>26 DEF SearchEnds, MarkSource, Loaded, StoringSteps
  <2>2. (\E step : Goto(w, step)) /\ row' = row /\ rec' = rec /\ mem' = mem
    BY <1>26 DEF SearchEnds, MarkSource, db
  <2> QED BY <1>6, <2>1, <2>2
<1> QED
  BY <1>7, <1>8, <1>9, <1>10, <1>11, <1>12, <1>13, <1>14, <1>15, <1>16, <1>17, <1>18, <1>19, <1>20, <1>21, <1>22, <1>23, <1>24, <1>25, <1>26 DEF RunStep

(* A request stores the recording it was asked to store.                   *)
LEMMA HandlerStepWorks ==
  ASSUME TypeOK, NEW h \in Handlers, HandlerStep(h)
  PROVE  \E r \in Recordings :
           /\ r = rec[h] /\ pc[h] # "idle" /\ WorksOn(h, r) /\ StoringMove(h, r)
           /\ pc'[h] # "idle" => rec'[h] = r
<1>0. h \in Processes /\ h \notin Workers /\ pc[h] # "idle"
  BY WorkersAreProcesses, DisjointAssumption
  DEF HandlerStep, Begin, StorageStep, StorageReused, StorageClaimed, StorageCollision,
      UploadBegins, UploadEnds, UploadBreaks, PutObject, CommitUpload, CommitRefused,
      ShareAndComplete, HandlerRaises
<1>1. PICK r \in Recordings : r = rec[h]
  BY <1>0 DEF TypeOK
<1> SUFFICES WorksOn(h, r) /\ StoringMove(h, r) /\ (pc'[h] # "idle" => rec'[h] = r)
  BY <1>0, <1>1
<1>2. CASE Begin(h)
  <2>1. /\ Goto(h, "claim_storage") /\ row' = row /\ rec' = rec /\ mem'[h] = CopyOf(row[r])
        /\ \A q \in Processes \ {h} : mem'[q] = mem[q]
    BY <1>0, <1>1, <1>2 DEF Begin, db, TypeOK
  <2>2. WorksOn(h, r) /\ pc'[h] = "claim_storage" /\ RowKept(r)
    BY <1>0, <2>1, CallWorks
  <2> QED BY <1>1, <2>1, <2>2 DEF StoringMove, Loads
<1>3. CASE CommitRefused(h) \/ HandlerRaises(h)
  <2>1. /\ Goto(h, "idle") /\ row' = row
        /\ \A q \in Processes \ {h} : rec'[q] = rec[q] /\ mem'[q] = mem[q]
    BY <1>3 DEF CommitRefused, HandlerRaises, Raised, TypeOK
  <2>2. WorksOn(h, r) /\ pc'[h] = "idle" /\ RowKept(r)
    BY <1>0, <2>1, CallWorks
  <2> QED BY <2>2 DEF StoringMove, Stops
<1>4. CASE StorageStep(h)
  BY <1>0, <1>1, <1>4, StorageStepWorks
<1>5. CASE ShareAndComplete(h)
  <2> DEFINE x == [row[r] EXCEPT !.status = "completed", !.link = mem[h].path]
  <2>1. pc[h] = "share" /\ row' = [row EXCEPT ![r] = x]
    BY <1>1, <1>5 DEF ShareAndComplete
  <2>2. /\ x.status = "completed" /\ x.link = mem[h].path /\ x.route = row[r].route
        /\ x.dest = row[r].dest /\ x.path = row[r].path
    BY DEF TypeOK, Rows
  <2> HIDE DEF x
  <2>3. row'[r] = x /\ \A q \in Recordings \ {r} : row'[q] = row[q]
    BY <2>1 DEF TypeOK
  <2>4. /\ pc'[h] = "idle"
        /\ \A q \in Processes \ {h} : pc'[q] = pc[q] /\ rec'[q] = rec[q] /\ mem'[q] = mem[q]
    BY <1>0, <1>5 DEF ShareAndComplete, Goto, TypeOK
  <2> QED BY <2>1, <2>2, <2>3, <2>4 DEF WorksOn, StoringMove, Links
<1> QED BY <1>2, <1>3, <1>4, <1>5 DEF HandlerStep

(* Such moves keep to the storing steps and statuses.                      *)
LEMMA WorkStoredOnly ==
  ASSUME TypeOK, StoredOnly, NEW p \in Processes, NEW r \in Recordings, WorksOn(p, r),
         row[r].route # "interview" => StoringMove(p, r),
         p \in Workers /\ pc'[p] \in Loaded => rec'[p] = r
  PROVE  StoredOnly'
<1>0. /\ row[r].route # "interview" =>
           /\ row'[r].status = row[r].status \/ row'[r].status \in StoringStatuses
           /\ p \in Workers /\ pc'[p] \in Loaded => pc'[p] \in StoringSteps
  BY DisjointAssumption DEF StoringMove, Stops, Loads, Sends, Records, Links, Ends, RowKept,
     StoringStatuses, StoringSteps, Loaded
<1>1. ASSUME NEW q \in Recordings, row'[q].route = "non_interview"
      PROVE  row'[q].status \in StoringStatuses
  BY <1>0, <1>1 DEF StoredOnly, WorksOn
<1>2. ASSUME NEW v \in Workers, pc'[v] \in Loaded, row'[rec'[v]].route = "non_interview"
      PROVE  pc'[v] \in StoringSteps
  <2>1. CASE v = p
    BY <1>0, <1>2, <2>1 DEF WorksOn
  <2>2. CASE v # p
    <3>1. pc'[v] = pc[v] /\ rec'[v] = rec[v]
      BY <2>2, WorkersAreProcesses DEF WorksOn
    <3>2. rec[v] \in Recordings
      BY <1>2, <3>1, WorkersAreProcesses DEF TypeOK, Loaded
    <3>3. row'[rec[v]].route = row[rec[v]].route
      BY <3>2 DEF WorksOn
    <3> QED BY <1>2, <3>1, <3>3 DEF StoredOnly
  <2> QED BY <2>1, <2>2
<1> QED BY <1>1, <1>2 DEF StoredOnly

(* A decision finds no run at a card, a mark or a summary: a recording is  *)
(* routed as a non-interview while it waits in manual review, or again     *)
(* after it failed.                                                        *)
LEMMA DecisionStoredOnly ==
  ASSUME TypeOK, ProgressInv, StoredOnly, NEW r \in Recordings, Decision(r)
  PROVE  StoredOnly'
<1>0. row[r] \in Rows /\ RowInv(r)
  BY DEF TypeOK, ProgressInv
<1>1. ASSUME \A v \in Workers : pc'[v] = pc[v] /\ rec'[v] = rec[v],
             \A q \in Recordings \ {r} : row'[q] = row[q],
             row'[r].route = "non_interview" =>
               /\ row'[r].status \in StoringStatuses
               /\ row[r].route = "non_interview" \/ row[r].status = "manual_review"
      PROVE  StoredOnly'
  <2>1. ASSUME NEW v \in Workers, pc[v] \in Loaded, row'[rec[v]].route = "non_interview"
        PROVE  pc[v] \in StoringSteps
    <3>1. rec[v] \in Recordings /\ row[rec[v]].route \in {"interview", "non_interview"}
      BY <2>1, Knowledge DEF Rows
    <3>2. row[rec[v]].route = "non_interview"
      BY <1>1, <2>1, <3>1, RunsAtDecision
    <3> QED BY <2>1, <3>2 DEF StoredOnly
  <2> QED BY <1>1, <2>1 DEF StoredOnly
<1>2. CASE Answer(r)
  <2>1. PICK x \in {[row[r] EXCEPT !.status = "calendar_event_found", !.ask = "nothing"],
                    [row[r] EXCEPT !.status = "candidate_matched", !.page = TRUE, !.ask = "nothing"],
                    [row[r] EXCEPT !.status = "ignored", !.ask = "nothing"]} :
          /\ row' = [row EXCEPT ![r] = x]
          /\ x.status # "ignored" => row[r].ask # "nothing"
    BY <1>0, <1>2 DEF Answer, Rows
  <2>2. row[r].status = "manual_review" /\ pc' = pc /\ rec' = rec
    BY <1>2 DEF Answer, local
  <2>3. x.route = row[r].route
    BY <1>0, <2>1 DEF Rows
  <2>4. x.status # "ignored" => row[r].route = "interview"
    BY <1>0, <2>1, <2>2 DEF RowInv, Untouched
  <2> QED BY <1>1, <2>1, <2>2, <2>3, <2>4 DEF StoringStatuses, TypeOK
<1>3. ASSUME NEW d \in Destinations, RouteInterview(r, d) PROVE StoredOnly'
  <2> DEFINE x == [Reset(row[r]) EXCEPT !.status = "transfer_started", !.dest = d, !.ask = "nothing"]
  <2>1. row' = [row EXCEPT ![r] = x] /\ row[r].route = "interview" /\ pc' = pc /\ rec' = rec
    BY <1>3 DEF RouteInterview, local
  <2>2. x.route = row[r].route
    BY <1>0 DEF Reset, Rows
  <2> HIDE DEF x
  <2> QED BY <1>1, <2>1, <2>2 DEF TypeOK
<1>4. ASSUME NEW h \in Handlers, NEW d \in Destinations, RouteNonInterview(h, r, d)
      PROVE  StoredOnly'
  <2> DEFINE x == [Reset(row[r]) EXCEPT !.status = "transfer_started", !.dest = d,
                                        !.route = "non_interview", !.ask = "nothing"]
  <2>1. /\ row' = [row EXCEPT ![r] = x]
        /\ row[r].status = "manual_review" \/ row[r].route = "non_interview"
    BY <1>4 DEF RouteNonInterview
  <2>2. x.status = "transfer_started"
    BY <1>0, ResetType DEF Rows
  <2> HIDE DEF x
  <2>3. \A v \in Workers : pc'[v] = pc[v] /\ rec'[v] = rec[v]
    BY <1>4, WorkersAreProcesses, DisjointAssumption DEF RouteNonInterview, Goto, TypeOK
  <2> QED BY <1>1, <2>1, <2>2, <2>3 DEF StoringStatuses, TypeOK
<1> QED BY <1>2, <1>3, <1>4 DEF Decision

LEMMA NextStoredOnly ==
  ASSUME TypeOK, LeaseInv, ProgressInv, StoredOnly, [Next]_vars
  PROVE  StoredOnly'
<1>1. ASSUME \A q \in Recordings : row'[q].route = row[q].route /\ row'[q].status = row[q].status,
             \A v \in Workers : pc'[v] \notin Loaded \/ (pc'[v] = pc[v] /\ rec'[v] = rec[v])
      PROVE  StoredOnly'
  <2>1. \A v \in Workers : pc[v] \in Loaded => rec[v] \in Recordings
    BY Knowledge
  <2> QED BY <1>1, <2>1 DEF StoredOnly
<1>2. ASSUME NEW w \in Workers, NEW r \in Recordings, Claim(w, r) PROVE StoredOnly'
  <2>1. row' = [row EXCEPT ![r] = [row[r] EXCEPT !.lease = w, !.expired = FALSE]]
    BY <1>2 DEF Claim
  <2>2. \A q \in Recordings : row'[q].route = row[q].route /\ row'[q].status = row[q].status
    BY <2>1 DEF TypeOK, Rows
  <2>3. pc'[w] = "claimed" /\ \A p \in Processes \ {w} : pc'[p] = pc[p] /\ rec'[p] = rec[p]
    BY <1>2, WorkersAreProcesses DEF Claim, Goto, TypeOK
  <2> QED BY <1>1, <2>2, <2>3, WorkersAreProcesses DEF Loaded
<1>3. ASSUME NEW p \in Processes, Crash(p) PROVE StoredOnly'
  <2>1. /\ row' = row /\ pc'[p] = "idle"
        /\ \A q \in Processes \ {p} : pc'[q] = pc[q] /\ rec'[q] = rec[q]
    BY <1>3 DEF Crash, Goto, TypeOK
  <2> QED BY <1>1, <2>1, WorkersAreProcesses DEF Loaded
<1>4. ASSUME NEW r \in Recordings, ExpireLease(r) \/ DeadlinePasses(r) PROVE StoredOnly'
  <2>1. /\ pc' = pc /\ rec' = rec
        /\ row' = row \/ row' = [row EXCEPT ![r] = [row[r] EXCEPT !.expired = TRUE]]
    BY <1>4 DEF ExpireLease, DeadlinePasses, db, local
  <2>2. \A q \in Recordings : row'[q].route = row[q].route /\ row'[q].status = row[q].status
    BY <2>1 DEF TypeOK, Rows
  <2> QED BY <1>1, <2>1, <2>2
<1>5. ASSUME NEW h \in Handlers, HandlerStep(h) PROVE StoredOnly'
  BY <1>5, HandlerStepWorks, WorkStoredOnly, WorkersAreProcesses, DisjointAssumption
<1>6. ASSUME NEW w \in Workers, RunStep(w) PROVE StoredOnly'
  BY <1>6, RunStepWorks, WorkStoredOnly, WorkersAreProcesses
<1>7. CASE UNCHANGED vars
  BY <1>1, <1>7 DEF vars
<1> QED BY <1>2, <1>3, <1>4, <1>5, <1>6, <1>7, DecisionStoredOnly DEF Next
-----------------------------------------------------------------------------
(* The status of a non-interview, while one request at a time is at work:  *)
(* a second one may choose another folder while the first still stores the *)
(* file in the folder chosen before.                                       *)

OneRequest == \A g, h \in Handlers : g = h

StoredAsChosen(r) ==
  /\ row[r].status \in Stored => row[r].path # None /\ row[r].path = row[r].dest
  /\ row[r].status \in Linked => row[r].link = row[r].path

(* p has stored the file in the folder of the row, and the row says so.    *)
HasStored(p, r) ==
  row[r].path # None /\ row[r].path = row[r].dest /\ mem[p].path = row[r].dest

StoringRun(w, r) ==
  /\ row[r].status \in {"transfer_started", "uploaded", "link_created", "completed"}
  /\ mem[w].dest = row[r].dest
  /\ pc[w] \in {"share", "card"} => HasStored(w, r)
  /\ pc[w] = "card" => row[r].link = row[r].dest

StoringRequest(h, r) ==
  /\ mem[h].dest = row[r].dest
  /\ pc[h] = "share" => HasStored(h, r)

NonInterviewInv ==
  /\ \A r \in Recordings : row[r].route = "non_interview" => StoredAsChosen(r)
  /\ \A w \in Workers :
       pc[w] \in Loaded /\ row[rec[w]].route = "non_interview" => StoringRun(w, rec[w])
  /\ \A h \in Handlers : pc[h] \notin {"idle", "begin"} => StoringRequest(h, rec[h])

LEMMA NonInterviewInit == Init => NonInterviewInv
  BY WorkersAreProcesses DEF Init, NewRow, NonInterviewInv, Loaded

(* The move of a process, seen from its row, from itself and from the      *)
(* others that hold the same recording.                                    *)
LEMMA MoveStoresAsChosen ==
  ASSUME TypeOK, ProgressInv, NonInterviewInv, NEW p \in Processes, NEW r \in Recordings,
         r = rec[p], row[r].route = "non_interview", StoringMove(p, r),
         p \in Handlers => pc[p] # "idle",
         pc[p] = "commit_upload" => mem[p].dest # None
  PROVE  /\ StoredAsChosen(r)'
         /\ row'[r].dest = row[r].dest
         /\ row'[r].path \in {row[r].path, row[r].dest}
         /\ row'[r].link = row[r].link \/ row'[r].link = row[r].dest
         /\ row'[r].path # row[r].path => row[r].dest # None
<1>1. StoredAsChosen(r)
  BY DEF NonInterviewInv
<1>2. pc[p] \in StoringSteps /\ (p \in Handlers => pc[p] # "begin") =>
        /\ mem[p].dest = row[r].dest
        /\ pc[p] = "share" => HasStored(p, r)
  BY DEF NonInterviewInv, StoringRun, StoringRequest, StoringSteps, Loaded, Processes
<1>3. pc[p] = "card" /\ p \in Workers => HasStored(p, r) /\ row[r].link = row[r].dest
  BY DEF NonInterviewInv, StoringRun, Loaded
<1>4. CASE RowKept(r)
  BY <1>1, <1>4 DEF RowKept, StoredAsChosen
<1>5. CASE Records(p, r)
  BY <1>2, <1>5 DEF Records, StoringSteps, StoredAsChosen, Linked
<1>6. CASE Links(p, r)
  BY <1>2, <1>6 DEF Links, StoringSteps, StoredAsChosen, HasStored
<1>7. CASE Ends(p, r)
  BY <1>3, <1>7 DEF Ends, StoredAsChosen, HasStored, Stored, Linked
<1> QED BY <1>4, <1>5, <1>6, <1>7 DEF StoringMove, Stops, Loads, Sends

LEMMA OwnStoring ==
  ASSUME TypeOK, ProgressInv, NonInterviewInv, NEW p \in Processes, NEW r \in Recordings,
         r = rec[p], row[r].route = "non_interview", StoringMove(p, r),
         p \in Handlers => pc[p] # "idle",
         pc[p] = "commit_upload" => mem[p].dest # None
  PROVE  /\ p \in Workers /\ pc'[p] \in Loaded /\ rec'[p] = r => StoringRun(p, r)'
         /\ p \in Handlers /\ pc'[p] # "idle" => StoringRequest(p, r)'
<1>1. StoredAsChosen(r) /\ row[r] \in Rows /\ (p \in Handlers => p \notin Workers)
  BY DisjointAssumption DEF NonInterviewInv, TypeOK
<1>2. p \in Workers /\ pc[p] \in Loaded => StoringRun(p, r)
  BY DEF NonInterviewInv
<1>3. p \in Handlers /\ pc[p] # "begin" => StoringRequest(p, r)
  BY DEF NonInterviewInv
<1>4. CASE Stops(p, r)
  BY <1>1, <1>4 DEF Stops, Loaded
<1>5. CASE Loads(p, r)
  <2>1. /\ mem'[p].dest = row[r].dest /\ mem'[p].path = row[r].path
        /\ row'[r].status = row[r].status /\ row'[r].dest = row[r].dest
        /\ row'[r].path = row[r].path /\ row'[r].link = row[r].link
    BY <1>5 DEF Loads, CopyOf, RowKept
  <2> QED BY <1>1, <1>5, <2>1 DEF Loads, StoringRun, StoringRequest, HasStored, StoredAsChosen,
             Stored, Linked
<1>6. CASE Sends(p, r)
  BY <1>1, <1>2, <1>3, <1>6 DEF Sends, Loaded, StoringRun, StoringRequest, RowKept, MemKept
<1>7. CASE Records(p, r)
  BY <1>1, <1>2, <1>3, <1>7 DEF Records, Loaded, StoringRun, StoringRequest, HasStored
<1>8. CASE Links(p, r)
  BY <1>1, <1>2, <1>3, <1>8 DEF Links, Loaded, StoringRun, StoringRequest, HasStored, MemKept
<1>9. CASE Ends(p, r)
  BY <1>1, <1>9 DEF Ends, Loaded
<1> QED BY <1>4, <1>5, <1>6, <1>7, <1>8, <1>9 DEF StoringMove

LEMMA WorkStoresAsChosen ==
  ASSUME TypeOK, LeaseInv, StorageInv, ProgressInv, NonInterviewInv,
         NEW p \in Processes, NEW r \in Recordings, r = rec[p], pc[p] # "idle", WorksOn(p, r),
         row[r].route # "interview" => StoringMove(p, r),
         p \in Workers /\ pc'[p] \in Loaded => rec'[p] = r,
         p \in Handlers /\ pc'[p] # "idle" => rec'[p] = r
  PROVE  NonInterviewInv'
<1>0. row[r].route \in {"interview", "non_interview"} /\ (p \in Handlers => p \notin Workers)
  BY DisjointAssumption DEF TypeOK, Rows
<1>1. pc[p] = "commit_upload" => mem[p].dest # None
  BY DEF StorageInv, ProcessInv
<1>2. row[r].route = "non_interview" =>
        /\ StoredAsChosen(r)'
        /\ row'[r].dest = row[r].dest
        /\ row'[r].path \in {row[r].path, row[r].dest}
        /\ row'[r].link = row[r].link \/ row'[r].link = row[r].dest
  BY <1>0, <1>1, MoveStoresAsChosen
<1>3. ASSUME NEW q \in Recordings, row'[q].route = "non_interview" PROVE StoredAsChosen(q)'
  <2>1. CASE q = r
    BY <1>2, <1>3, <2>1 DEF WorksOn
  <2>2. CASE q # r
    BY <1>3, <2>2 DEF WorksOn, NonInterviewInv, StoredAsChosen
  <2> QED BY <2>1, <2>2
<1>4. ASSUME NEW v \in Workers, pc'[v] \in Loaded, row'[rec'[v]].route = "non_interview"
      PROVE  StoringRun(v, rec[v])' /\ rec'[v] \in Recordings
  <2>1. CASE v = p
    <3>1. row[r].route = "non_interview" /\ rec'[v] = r
      BY <1>0, <1>4, <2>1 DEF WorksOn
    <3> QED BY <1>1, <1>4, <2>1, <3>1, OwnStoring, DisjointAssumption
  <2>2. CASE v # p
    <3>1. /\ pc'[v] = pc[v] /\ rec'[v] = rec[v] /\ mem'[v] = mem[v] /\ rec[v] \in Recordings
      BY <1>4, <2>2, WorkersAreProcesses DEF WorksOn, TypeOK, Loaded
    <3>2. row[rec[v]].route = "non_interview" /\ StoringRun(v, rec[v])
      BY <1>4, <3>1 DEF WorksOn, NonInterviewInv
    <3>3. CASE rec[v] # r
      BY <3>1, <3>2, <3>3 DEF WorksOn, StoringRun, HasStored
    <3>4. CASE rec[v] = r
      <4>1. ~Ends(p, r)
        <5>1. pc[v] \notin {"idle", "fail_found"} /\ v \in Processes
          BY <1>4, <3>1, WorkersAreProcesses DEF Loaded
        <5> QED BY <2>2, <3>4, <5>1, Apart DEF Ends, StoringSteps
      <4>2. row'[r].status = row[r].status
            \/ row'[r].status \in {"uploaded", "link_created", "completed"}
        BY <3>2, <3>4, <4>1 DEF StoringMove, Stops, Loads, Sends, Records, Links, RowKept
      <4> QED BY <1>2, <3>1, <3>2, <3>4, <4>2 DEF StoringRun, HasStored
    <3> QED BY <3>1, <3>3, <3>4
  <2> QED BY <2>1, <2>2
<1>5. ASSUME NEW h \in Handlers, pc'[h] \notin {"idle", "begin"}
      PROVE  StoringRequest(h, rec[h])'
  <2>1. CASE h = p
    <3>1. row[r].route = "non_interview" /\ rec'[h] = r
      BY <1>5, <2>1 DEF ProgressInv, HandlerInv
    <3> QED BY <1>1, <1>5, <2>1, <3>1, OwnStoring
  <2>2. CASE h # p
    <3>1. /\ pc'[h] = pc[h] /\ rec'[h] = rec[h] /\ mem'[h] = mem[h] /\ rec[h] \in Recordings
      BY <1>5, <2>2, WorkersAreProcesses DEF WorksOn, TypeOK
    <3>2. row[rec[h]].route = "non_interview" /\ StoringRequest(h, rec[h])
      BY <1>5, <3>1 DEF ProgressInv, HandlerInv, NonInterviewInv
    <3>3. CASE rec[h] # r
      BY <3>1, <3>2, <3>3 DEF WorksOn, StoringRequest, HasStored
    <3>4. CASE rec[h] = r
      BY <1>2, <3>1, <3>2, <3>4 DEF StoringRequest, HasStored
    <3> QED BY <3>1, <3>3, <3>4
  <2> QED BY <2>1, <2>2
<1> QED BY <1>3, <1>4, <1>5 DEF NonInterviewInv

(* No run holds the recording a recruiter decides about as a non-interview *)
(* and, with one request at a time, no other request.                      *)
LEMMA DecisionStoresAsChosen ==
  ASSUME OneRequest, TypeOK, ProgressInv, NonInterviewInv, NEW r \in Recordings, Decision(r)
  PROVE  NonInterviewInv'
<1>0. row[r] \in Rows
  BY DEF TypeOK
<1>1. ASSUME UNCHANGED mem,
             \A v \in Workers : pc'[v] = pc[v] /\ rec'[v] = rec[v],
             \A q \in Recordings \ {r} : row'[q] = row[q],
             row'[r].route = "non_interview" =>
               /\ row[r].status \in {"manual_review", "failed"}
               /\ row[r].route = "non_interview" \/ row[r].status = "manual_review"
               /\ row'[r].status \notin Stored,
             \A h \in Handlers :
               \/ pc'[h] \in {"idle", "begin"}
               \/ /\ pc'[h] = pc[h] /\ rec'[h] = rec[h]
                  /\ rec[h] = r => row'[r].dest = row[r].dest /\ row'[r].path = row[r].path
      PROVE  NonInterviewInv'
  <2>1. ASSUME NEW q \in Recordings, row'[q].route = "non_interview" PROVE StoredAsChosen(q)'
    <3>1. CASE q = r
      BY <1>1, <2>1, <3>1 DEF StoredAsChosen, Linked
    <3>2. CASE q # r
      BY <1>1, <2>1, <3>2 DEF StoredAsChosen, NonInterviewInv
    <3> QED BY <3>1, <3>2
  <2>2. ASSUME NEW v \in Workers, pc[v] \in Loaded, row'[rec[v]].route = "non_interview"
        PROVE  StoringRun(v, rec[v])'
    <3>1. rec[v] \in Recordings /\ row[rec[v]].route \in {"interview", "non_interview"}
      BY <2>2, Knowledge DEF Rows
    <3>2. row[rec[v]].route = "non_interview"
      BY <1>1, <2>2, <3>1, RunsAtDecision
    <3>3. StoringRun(v, rec[v])
      BY <2>2, <3>2 DEF NonInterviewInv
    <3>4. rec[v] # r
      BY <1>1, <2>2, <3>3 DEF StoringRun
    <3> QED BY <1>1, <3>1, <3>3, <3>4 DEF StoringRun, HasStored
  <2>3. ASSUME NEW h \in Handlers, pc'[h] \notin {"idle", "begin"}
        PROVE  StoringRequest(h, rec[h])'
    <3>1. /\ pc'[h] = pc[h] /\ rec'[h] = rec[h]
          /\ rec[h] = r => row'[r].dest = row[r].dest /\ row'[r].path = row[r].path
      BY <1>1, <2>3
    <3>2. rec[h] \in Recordings /\ StoringRequest(h, rec[h])
      BY <2>3, <3>1, WorkersAreProcesses DEF NonInterviewInv, TypeOK
    <3>3. row'[rec[h]].dest = row[rec[h]].dest /\ row'[rec[h]].path = row[rec[h]].path
      BY <1>1, <3>1, <3>2
    <3> QED BY <1>1, <3>1, <3>2, <3>3 DEF StoringRequest, HasStored
  <2> QED BY <1>1, <2>1, <2>2, <2>3 DEF NonInterviewInv
<1>2. CASE Answer(r)
  <2>1. PICK x \in {[row[r] EXCEPT !.status = "calendar_event_found", !.ask = "nothing"],
                    [row[r] EXCEPT !.status = "candidate_matched", !.page = TRUE, !.ask = "nothing"],
                    [row[r] EXCEPT !.status = "ignored", !.ask = "nothing"]} :
          row' = [row EXCEPT ![r] = x]
    BY <1>0, <1>2 DEF Answer, Rows
  <2>2. row[r].status = "manual_review" /\ UNCHANGED <<pc, rec, mem>>
    BY <1>2 DEF Answer, local
  <2>3. /\ x.route = row[r].route /\ x.dest = row[r].dest /\ x.path = row[r].path
        /\ x.status \notin Stored
    BY <1>0, <2>1 DEF Rows, Stored
  <2>4. row'[r] = x /\ \A q \in Recordings \ {r} : row'[q] = row[q]
    BY <2>1 DEF TypeOK
  <2> QED BY <1>1, <2>2, <2>3, <2>4
<1>3. ASSUME NEW d \in Destinations, RouteInterview(r, d) PROVE NonInterviewInv'
  <2> DEFINE x == [Reset(row[r]) EXCEPT !.status = "transfer_started", !.dest = d, !.ask = "nothing"]
  <2>1. row' = [row EXCEPT ![r] = x] /\ row[r].route = "interview" /\ UNCHANGED <<pc, rec, mem>>
    BY <1>3 DEF RouteInterview, local
  <2>2. x.route = row[r].route
    BY <1>0 DEF Reset, Rows
  <2> HIDE DEF x
  <2>3. row'[r] = x /\ \A q \in Recordings \ {r} : row'[q] = row[q]
    BY <2>1 DEF TypeOK
  <2>4. \A h \in Handlers : pc[h] # "idle" => rec[h] # r
    BY <2>1 DEF ProgressInv, HandlerInv
  <2> QED BY <1>1, <2>1, <2>2, <2>3, <2>4
<1>4. ASSUME NEW h \in Handlers, NEW d \in Destinations, RouteNonInterview(h, r, d)
      PROVE  NonInterviewInv'
  <2> DEFINE x == [Reset(row[r]) EXCEPT !.status = "transfer_started", !.dest = d,
                                        !.route = "non_interview", !.ask = "nothing"]
  <2>1. /\ row' = [row EXCEPT ![r] = x] /\ UNCHANGED mem
        /\ row[r].status \in {"manual_review", "failed"}
        /\ row[r].status = "manual_review" \/ row[r].route = "non_interview"
    BY <1>4 DEF RouteNonInterview
  <2>2. x.status = "transfer_started" /\ "transfer_started" \notin Stored
    BY <1>0, ResetType DEF Rows, Stored
  <2> HIDE DEF x
  <2>3. row'[r] = x /\ \A q \in Recordings \ {r} : row'[q] = row[q]
    BY <2>1 DEF TypeOK
  <2>4. \A v \in Workers : pc'[v] = pc[v] /\ rec'[v] = rec[v]
    BY <1>4, WorkersAreProcesses, DisjointAssumption DEF RouteNonInterview, Goto, TypeOK
  <2>5. \A g \in Handlers : pc'[g] = "begin"
    BY <1>4, WorkersAreProcesses DEF RouteNonInterview, Goto, TypeOK, OneRequest
  <2> QED BY <1>1, <2>1, <2>2, <2>3, <2>4, <2>5
<1> QED BY <1>2, <1>3, <1>4 DEF Decision

LEMMA NextStoresAsChosen ==
  ASSUME OneRequest, TypeOK, LeaseInv, StorageInv, ProgressInv, StoredOnly, NonInterviewInv,
         [Next]_vars
  PROVE  NonInterviewInv'
<1>1. ASSUME \A q \in Recordings : RowKept(q) /\ row'[q].route = row[q].route,
             \A v \in Workers :
               pc'[v] \notin Loaded \/ (pc'[v] = pc[v] /\ rec'[v] = rec[v] /\ mem'[v] = mem[v]),
             \A h \in Handlers :
               pc'[h] = "idle" \/ (pc'[h] = pc[h] /\ rec'[h] = rec[h] /\ mem'[h] = mem[h])
      PROVE  NonInterviewInv'
  <2>1. \A v \in Workers : pc[v] \in Loaded => rec[v] \in Recordings
    BY Knowledge
  <2>2. \A h \in Handlers : pc[h] # "idle" => rec[h] \in Recordings
    BY WorkersAreProcesses DEF TypeOK
  <2>3. \A q \in Recordings : row'[q].route = "non_interview" => StoredAsChosen(q)'
    BY <1>1 DEF NonInterviewInv, StoredAsChosen, RowKept
  <2>4. ASSUME NEW v \in Workers, pc'[v] \in Loaded, row'[rec'[v]].route = "non_interview"
        PROVE  StoringRun(v, rec[v])'
    BY <1>1, <2>1, <2>4 DEF NonInterviewInv, StoringRun, HasStored, RowKept
  <2>5. ASSUME NEW h \in Handlers, pc'[h] \notin {"idle", "begin"}
        PROVE  StoringRequest(h, rec[h])'
    BY <1>1, <2>2, <2>5 DEF NonInterviewInv, StoringRequest, HasStored, RowKept
  <2> QED BY <2>3, <2>4, <2>5 DEF NonInterviewInv
<1>2. ASSUME NEW w \in Workers, NEW r \in Recordings, Claim(w, r) PROVE NonInterviewInv'
  <2>1. row' = [row EXCEPT ![r] = [row[r] EXCEPT !.lease = w, !.expired = FALSE]]
    BY <1>2 DEF Claim
  <2>2. \A q \in Recordings : RowKept(q) /\ row'[q].route = row[q].route
    BY <2>1 DEF TypeOK, Rows, RowKept
  <2>3. /\ pc'[w] = "claimed" /\ UNCHANGED mem
        /\ \A p \in Processes \ {w} : pc'[p] = pc[p] /\ rec'[p] = rec[p]
    BY <1>2, WorkersAreProcesses DEF Claim, Goto, TypeOK
  <2> QED BY <1>1, <2>2, <2>3, WorkersAreProcesses, DisjointAssumption DEF Loaded
<1>3. ASSUME NEW p \in Processes, Crash(p) PROVE NonInterviewInv'
  <2>1. /\ row' = row /\ pc'[p] = "idle"
        /\ \A q \in Processes \ {p} : pc'[q] = pc[q] /\ rec'[q] = rec[q] /\ mem'[q] = mem[q]
    BY <1>3 DEF Crash, Goto, TypeOK
  <2> QED BY <1>1, <2>1, WorkersAreProcesses DEF Loaded, RowKept
<1>4. ASSUME NEW r \in Recordings, ExpireLease(r) \/ DeadlinePasses(r) PROVE NonInterviewInv'
  <2>1. /\ UNCHANGED <<pc, rec, mem>>
        /\ row' = row \/ row' = [row EXCEPT ![r] = [row[r] EXCEPT !.expired = TRUE]]
    BY <1>4 DEF ExpireLease, DeadlinePasses, db, local
  <2>2. \A q \in Recordings : RowKept(q) /\ row'[q].route = row[q].route
    BY <2>1 DEF TypeOK, Rows, RowKept
  <2> QED BY <1>1, <2>1, <2>2
<1>5. ASSUME NEW h \in Handlers, HandlerStep(h) PROVE NonInterviewInv'
  BY <1>5, HandlerStepWorks, WorkStoresAsChosen, WorkersAreProcesses, DisjointAssumption
<1>6. ASSUME NEW w \in Workers, RunStep(w) PROVE NonInterviewInv'
  BY <1>6, RunStepWorks, WorkStoresAsChosen, WorkersAreProcesses, DisjointAssumption
<1>7. CASE UNCHANGED vars
  BY <1>1, <1>7 DEF vars, RowKept
<1> QED BY <1>2, <1>3, <1>4, <1>5, <1>6, <1>7, DecisionStoresAsChosen DEF Next
-----------------------------------------------------------------------------
(* What the invariant shows of the rows, the cards and the marks.          *)

LEMMA InvHolds ==
  ASSUME SlowRuns = FALSE
  PROVE  Spec => [](TypeOK /\ LeaseInv /\ StorageInv /\ ProgressInv)
<1>1. Init => TypeOK /\ LeaseInv /\ StorageInv /\ ProgressInv
  BY InitType, LeaseInit, StorageInit, ProgressInit
<1>2. TypeOK /\ LeaseInv /\ StorageInv /\ ProgressInv /\ [Next]_vars
        => (TypeOK /\ LeaseInv /\ StorageInv /\ ProgressInv)'
  BY NextType, NextLease, NextStorage, NextProgress
<1> QED BY <1>1, <1>2, PTL DEF Spec

(* StatusIsEarned and FileInChosenFolder, of an interview.                 *)
InterviewIsEarned ==
  \A r \in Recordings :
    LET x == row[r] IN
    x.route = "interview" =>
      /\ x.status \in Stored =>
           /\ x.path # None /\ file[x.path] = "complete" /\ owner[x.path] = r
           /\ x.path = x.dest
      /\ x.status \in Linked => x.link = x.path
      /\ x.status \in Carded => card[r] = x.link
      /\ x.status = "source_marked" => r \in marked

LEMMA EarnedRows ==
  ASSUME StorageInv, ProgressInv
  PROVE  InterviewIsEarned
  BY DEF StorageInv, RowsInv, Ours, ProgressInv, RowInv, Earned, InterviewIsEarned

(* StoredOnly holds as well, and with one request at a time so does        *)
(* NonInterviewInv.                                                        *)
LEMMA StoredOnlyHolds ==
  ASSUME SlowRuns = FALSE
  PROVE  Spec => []StoredOnly
<1>1. TypeOK /\ LeaseInv /\ ProgressInv /\ StoredOnly /\ [Next]_vars => StoredOnly'
  BY NextStoredOnly
<1> QED BY <1>1, StoredOnlyInit, InvHolds, PTL DEF Spec

LEMMA NonInterviewHolds ==
  ASSUME SlowRuns = FALSE, OneRequest
  PROVE  Spec => []NonInterviewInv
<1>1. TypeOK /\ LeaseInv /\ StorageInv /\ ProgressInv /\ StoredOnly /\ NonInterviewInv /\ [Next]_vars
        => NonInterviewInv'
  BY NextStoresAsChosen
<1> QED BY <1>1, NonInterviewInit, StoredOnlyHolds, InvHolds, PTL DEF Spec

LEMMA EarnedWithNonInterviews ==
  ASSUME TypeOK, StorageInv, ProgressInv, StoredOnly, NonInterviewInv
  PROVE  StatusIsEarned /\ FileInChosenFolder
<1> SUFFICES ASSUME NEW r \in Recordings
             PROVE  /\ row[r].status \in Stored =>
                         /\ row[r].path # None /\ file[row[r].path] = "complete"
                         /\ owner[row[r].path] = r /\ row[r].path = row[r].dest
                    /\ row[r].status \in Linked => row[r].link = row[r].path
                    /\ row[r].status \in Carded /\ row[r].route = "interview" =>
                         card[r] = row[r].link
                    /\ row[r].status = "source_marked" => r \in marked
  BY DEF StatusIsEarned, FileInChosenFolder
<1>1. row[r].route \in {"interview", "non_interview"}
  BY DEF TypeOK, Rows
<1>2. CASE row[r].route = "interview"
  BY <1>2, EarnedRows DEF InterviewIsEarned
<1>3. CASE row[r].route = "non_interview"
  <2>1. StoredAsChosen(r) /\ row[r].status # "source_marked"
    BY <1>3 DEF NonInterviewInv, StoredOnly, StoringStatuses
  <2>2. row[r].path # None => file[row[r].path] = "complete" /\ owner[row[r].path] = r
    BY DEF StorageInv, RowsInv, Ours
  <2> QED BY <1>3, <2>1, <2>2 DEF StoredAsChosen
<1> QED BY <1>1, <1>2, <1>3

(* The status of an interview is earned and its file lies in the folder    *)
(* chosen for it, whatever non-interview requests do to other recordings   *)
(* and however many instances scan, if no run outlives its lease.          *)
THEOREM InterviewsAreEarned ==
  ASSUME SlowRuns = FALSE
  PROVE  Spec => []InterviewIsEarned
<1>1. StorageInv /\ ProgressInv => InterviewIsEarned
  BY EarnedRows
<1> QED BY <1>1, InvHolds, PTL

(* No status is committed before the external step it stands for has taken *)
(* effect, of interviews and of the recordings that a request stores       *)
(* without a lease, if there is one such request at a time.                *)
THEOREM StatusesAreEarned ==
  ASSUME SlowRuns = FALSE, OneRequest
  PROVE  Spec => []StatusIsEarned
<1>1. TypeOK /\ StorageInv /\ ProgressInv /\ StoredOnly /\ NonInterviewInv => StatusIsEarned
  BY EarnedWithNonInterviews
<1> QED BY <1>1, NonInterviewHolds, StoredOnlyHolds, InvHolds, PTL

(* ... and the recorded file lies in the folder the recruiter chose.       *)
THEOREM FilesInChosenFolders ==
  ASSUME SlowRuns = FALSE, OneRequest
  PROVE  Spec => []FileInChosenFolder
<1>1. TypeOK /\ StorageInv /\ ProgressInv /\ StoredOnly /\ NonInterviewInv => FileInChosenFolder
  BY EarnedWithNonInterviews
<1> QED BY <1>1, NonInterviewHolds, StoredOnlyHolds, InvHolds, PTL

(* Who writes Notion cards and Disk marks.                                 *)
LEMMA StorageStepOutside ==
  ASSUME NEW p \in Processes, StorageStep(p)
  PROVE  UNCHANGED <<card, marked>>
  BY DEF StorageStep, StorageReused, StorageClaimed, StorageCollision, UploadBegins, UploadEnds,
     UploadBreaks, PutObject, CommitUpload, external

LEMMA RunStepOutside ==
  ASSUME NEW w \in Workers, RunStep(w)
  PROVE  UNCHANGED <<card, marked>> \/ WriteCard(w) \/ MarkSource(w) \/ StepFails(w)
<1>1. CASE StorageStep(w)
  BY <1>1, StorageStepOutside, WorkersAreProcesses
<1>2. CASE \/ LoadFound(w) \/ LoadLocked(w) \/ LoadGone(w) \/ Release(w)
           \/ Calendar(w) \/ CalendarUnavailable(w) \/ CalendarRejected(w) \/ FailFound(w)
           \/ LookupMatched(w) \/ LookupUnresolved(w) \/ LookupDeferred(w)
  BY <1>2 DEF LoadFound, LoadLocked, LoadGone, Release, Calendar, CalendarUnavailable,
     CalendarRejected, FailFound, LookupMatched, LookupUnresolved, LookupDeferred, external
<1>3. CASE \/ Resolve(w) \/ ResolveRejected(w) \/ Route(w) \/ Share(w) \/ SkipCard(w)
           \/ CardDeferred(w) \/ CommitCard(w) \/ Await(w) \/ SearchEnds(w) \/ SearchWaits(w)
           \/ CompleteUnmarked(w) \/ CommitMark(w) \/ Complete(w)
  BY <1>3 DEF Resolve, ResolveRejected, Route, Share, SkipCard, CardDeferred, CommitCard, Await,
     SearchEnds, SearchWaits, CompleteUnmarked, CommitMark, Complete, external
<1> QED BY <1>1, <1>2, <1>3 DEF RunStep

LEMMA OutsideWrites ==
  ASSUME [Next]_vars
  PROVE  \/ UNCHANGED <<card, marked>>
         \/ \E w \in Workers : WriteCard(w) \/ MarkSource(w) \/ StepFails(w)
<1>1. ASSUME NEW h \in Handlers, HandlerStep(h) PROVE UNCHANGED <<card, marked>>
  BY <1>1, StorageStepOutside, WorkersAreProcesses
  DEF HandlerStep, Begin, CommitRefused, ShareAndComplete, HandlerRaises, external
<1>2. ASSUME NEW r \in Recordings, Decision(r) PROVE UNCHANGED <<card, marked>>
  BY <1>2 DEF Decision, Answer, RouteInterview, RouteNonInterview, external
<1>3. ASSUME NEW r \in Recordings, ExpireLease(r) \/ DeadlinePasses(r)
      PROVE  UNCHANGED <<card, marked>>
  BY <1>3 DEF ExpireLease, DeadlinePasses, external
<1>4. ASSUME NEW w \in Workers, NEW r \in Recordings, Claim(w, r) PROVE UNCHANGED <<card, marked>>
  BY <1>4 DEF Claim, external
<1>5. ASSUME NEW p \in Processes, Crash(p) PROVE UNCHANGED <<card, marked>>
  BY <1>5 DEF Crash, external
<1>6. CASE UNCHANGED vars
  BY <1>6 DEF vars
<1> QED BY <1>1, <1>2, <1>3, <1>4, <1>5, <1>6, RunStepOutside DEF Next

(* Each card written is an interview's, whoever else works on recordings.  *)
THEOREM CardsOnlyForInterviews ==
  ASSUME SlowRuns = FALSE
  PROVE  Spec => CardsAreForInterviews
<1> DEFINE Writes == \A r \in Recordings : card'[r] # card[r] => row[r].route = "interview"
<1>1. ASSUME TypeOK, ProgressInv, [Next]_vars PROVE Writes
  <2> SUFFICES ASSUME NEW r \in Recordings, card'[r] # card[r] PROVE row[r].route = "interview"
    OBVIOUS
  <2>1. PICK w \in Workers : WriteCard(w) \/ MarkSource(w) \/ StepFails(w)
    BY <1>1, OutsideWrites
  <2>2. pc[w] = "card" /\ CardDue(w) /\ rec[w] = r
    BY <1>1, <2>1 DEF WriteCard, MarkSource, StepFails, TypeOK
  <2>3. w \in fresh \/ mem[w].route = "interview"
    BY <2>2 DEF CardDue
  <2> QED BY <1>1, <2>2, <2>3, Knowledge DEF Loaded
<1>2. [][Writes]_vars => CardsAreForInterviews
  BY PTL DEF CardsAreForInterviews
<1> HIDE DEF Writes
<1>3. TypeOK /\ ProgressInv /\ [Next]_vars => [Writes]_vars
  BY <1>1
<1> QED BY <1>2, <1>3, InvHolds, PTL DEF Spec

(* A Disk source is marked last: its recording is stored, linked and on    *)
(* its card by then, however many non-interview requests work beside.      *)
THEOREM MarksComeLast ==
  ASSUME SlowRuns = FALSE
  PROVE  Spec => MarkAfterCard
<1> DEFINE Late == \A r \in marked' \ marked :
                     row[r].status \in Carded /\ row[r].link # None /\ card[r] = row[r].link
<1>1. ASSUME TypeOK, StorageInv, ProgressInv, StoredOnly, [Next]_vars PROVE Late
  <2> SUFFICES ASSUME NEW r \in marked' \ marked
               PROVE  row[r].status \in Carded /\ row[r].link # None /\ card[r] = row[r].link
    OBVIOUS
  <2>1. PICK w \in Workers : WriteCard(w) \/ MarkSource(w) \/ StepFails(w)
    BY <1>1, OutsideWrites
  <2>2. pc[w] = "mark" /\ rec[w] = r
    BY <1>1, <2>1 DEF WriteCard, MarkSource, StepFails
  <2>3. r \in Recordings /\ row[r].route = "interview"
    BY <1>1, <2>2, Knowledge DEF StoredOnly, StoringSteps, Loaded, Rows
  <2>4. Fresh(w) /\ mem[w].status \in StepStatus["mark"]
    BY <1>1, <2>2, <2>3, Knowledge DEF Knows, BeforeTransfer, Loaded
  <2>5. row[r].status \in {"notion_updated", "awaiting_summary_email"}
    BY <2>2, <2>4 DEF Fresh, CopyOf, StepStatus
  <2> QED BY <1>1, <2>3, <2>5, EarnedRows DEF InterviewIsEarned, Stored, Linked, Carded
<1>2. [][Late]_vars => MarkAfterCard
  BY PTL DEF MarkAfterCard
<1> HIDE DEF Late
<1>3. TypeOK /\ StorageInv /\ ProgressInv /\ StoredOnly /\ [Next]_vars => [Late]_vars
  BY <1>1
<1> QED BY <1>2, <1>3, StoredOnlyHolds, InvHolds, PTL DEF Spec
-----------------------------------------------------------------------------
(* Every step is a step of the status machine, or none.                    *)

StatusesKept(S) == \A q \in S : row'[q].status = row[q].status

(* A run commits a status its copy allows.                                 *)
RunMoves(w) ==
  /\ pc[w] \in Loaded
  /\ rec[w] \in Recordings
  /\ pc'[w] \notin {"claimed", "calendar", "release_fail", "fail_found"}
  /\ Allowed(w, row'[rec[w]].status)
  /\ pc[w] = "route" /\ mem[w].dest = None => row'[rec[w]].status = "manual_review"
  /\ StatusesKept(Recordings \ {rec[w]})

(* A scan gives up a found recording after it has let go of it.            *)
ScanMoves(w) ==
  /\ pc[w] = "fail_found"
  /\ rec[w] \in Recordings
  /\ row[rec[w]].status = "found"
  /\ row'[rec[w]].status = "failed"
  /\ StatusesKept(Recordings \ {rec[w]})

(* A recruiter decides.                                                    *)
DecisionMoves(r) ==
  /\ row[r].status \in {"manual_review", "candidate_matched", "failed"}
  /\ row'[r].status \in Lifecycle!Transitions[row[r].status]
  /\ StatusesKept(Recordings \ {r})

StatusMoves ==
  \/ StatusesKept(Recordings)
  \/ \E w \in Workers : RunMoves(w) \/ ScanMoves(w)
  \/ \E r \in Recordings : DecisionMoves(r)

LEMMA SettleMoves ==
  ASSUME TypeOK, NEW w \in Workers, pc[w] \in Loaded, NEW s, NEW ask, Settle(w, s, ask),
         pc[w] = "route" => s = "manual_review"
  PROVE  RunMoves(w)
<1>1. w \in Processes /\ rec[w] \in Recordings
  BY WorkersAreProcesses DEF TypeOK, Loaded
<1>2. pc'[w] = "release"
  BY <1>1 DEF Settle, Goto, TypeOK
<1>3. row'[rec[w]].status = s /\ StatusesKept(Recordings \ {rec[w]})
  BY <1>1 DEF Settle, TypeOK, Rows, StatusesKept
<1> QED BY <1>1, <1>2, <1>3 DEF RunMoves, Settle

LEMMA CommitMoves ==
  ASSUME TypeOK, NEW w \in Workers, pc[w] \in Loaded, NEW s, NEW x \in Rows, NEW y, NEW step,
         Commit(w, s, x, y, step), pc[w] = "route" => mem[w].dest # None,
         step \notin {"claimed", "calendar", "release_fail", "fail_found"}
  PROVE  RunMoves(w)
<1>1. w \in Processes /\ rec[w] \in Recordings
  BY WorkersAreProcesses DEF TypeOK, Loaded
<1>2. pc'[w] = step
  BY <1>1 DEF Commit, Goto, TypeOK
<1>3. row'[rec[w]].status = s /\ StatusesKept(Recordings \ {rec[w]})
  BY <1>1 DEF Commit, TypeOK, Rows, StatusesKept
<1> QED BY <1>1, <1>2, <1>3 DEF RunMoves, Commit

LEMMA StorageStepMoves ==
  ASSUME TypeOK, NEW w \in Workers, StorageStep(w)
  PROVE  StatusesKept(Recordings) \/ RunMoves(w)
<1>1. w \notin Handlers
  BY DisjointAssumption
<1>2. CASE StorageReused(w) \/ StorageClaimed(w) \/ UploadBegins(w) \/ UploadEnds(w) \/ PutObject(w)
  BY <1>2 DEF StorageReused, StorageClaimed, UploadBegins, UploadEnds, PutObject, db, StatusesKept
<1>3. CASE StorageCollision(w)
  BY <1>1, <1>3, SettleMoves DEF StorageCollision, Collide, Loaded
<1>4. CASE UploadBreaks(w)
  BY <1>1, <1>4, SettleMoves DEF UploadBreaks, Collide, Loaded
<1>5. CASE CommitUpload(w)
  <2> DEFINE x == [row[rec[w]] EXCEPT !.path = mem[w].dest]
             y == [mem[w] EXCEPT !.path = mem[w].dest]
  <2>1. pc[w] = "commit_upload" /\ Commit(w, "uploaded", x, y, "share")
    BY <1>5 DEF CommitUpload
  <2>2. row[rec[w]] \in Rows /\ mem[w] \in Copies
    BY <2>1, WorkersAreProcesses DEF TypeOK
  <2>3. x \in Rows
    BY <2>2 DEF Rows, Copies
  <2> HIDE DEF x, y
  <2> QED BY <2>1, <2>3, CommitMoves DEF Loaded
<1> QED BY <1>2, <1>3, <1>4, <1>5 DEF StorageStep

LEMMA RunStepMoves ==
  ASSUME TypeOK, NEW w \in Workers, RunStep(w)
  PROVE  StatusesKept(Recordings) \/ RunMoves(w) \/ ScanMoves(w)
<1>1. w \in Processes /\ (pc[w] # "idle" => rec[w] \in Recordings /\ row[rec[w]] \in Rows)
  BY WorkersAreProcesses DEF TypeOK
<1>2. CASE \/ LoadFound(w) \/ LoadLocked(w) \/ LoadGone(w) \/ CalendarUnavailable(w)
           \/ CalendarRejected(w) \/ LookupDeferred(w) \/ WriteCard(w) \/ CardDeferred(w)
           \/ SearchEnds(w) \/ SearchWaits(w) \/ MarkSource(w)
  BY <1>2 DEF LoadFound, LoadLocked, LoadGone, CalendarUnavailable, CalendarRejected,
     LookupDeferred, WriteCard, CardDeferred, SearchEnds, SearchWaits, MarkSource, Leave, db,
     StatusesKept
<1>3. CASE Release(w)
  BY <1>1, <1>3 DEF Release, StatusesKept, TypeOK, Rows
<1>4. CASE Resolve(w)
  BY <1>1, <1>4 DEF Resolve, StatusesKept, TypeOK, Rows
<1>5. CASE FailFound(w)
  <2>1. CASE row[rec[w]].status = "found"
    BY <1>1, <1>5, <2>1 DEF FailFound, ScanMoves, StatusesKept, TypeOK, Rows
  <2>2. CASE row[rec[w]].status # "found"
    BY <1>5, <2>2 DEF FailFound, StatusesKept
  <2> QED BY <2>1, <2>2
<1>6. CASE Calendar(w) \/ LookupUnresolved(w) \/ ResolveRejected(w)
  BY <1>6, SettleMoves DEF Calendar, LookupUnresolved, ResolveRejected, Loaded
<1>7. CASE SkipCard(w) \/ CompleteUnmarked(w) \/ Complete(w) \/ StepFails(w)
  BY <1>7, SettleMoves DEF SkipCard, CompleteUnmarked, Complete, StepFails, Loaded
<1>8. CASE LookupMatched(w)
  <2>1. PICK d \in Identities(rec[w]) :
          Commit(w, "candidate_matched", [row[rec[w]] EXCEPT !.page = TRUE, !.dest = d],
                 [mem[w] EXCEPT !.dest = d], "route")
    BY <1>8 DEF LookupMatched
  <2>2. pc[w] = "lookup" /\ row[rec[w]] \in Rows
    BY <1>1, <1>8 DEF LookupMatched
  <2>3. d \in Places
    BY <2>2 DEF Identities, Rows, Places
  <2> DEFINE x == [row[rec[w]] EXCEPT !.page = TRUE, !.dest = d]
             y == [mem[w] EXCEPT !.dest = d]
  <2>4. x \in Rows
    BY <2>2, <2>3 DEF Rows
  <2>5. Commit(w, "candidate_matched", x, y, "route")
    BY <2>1
  <2> HIDE DEF x, y
  <2> QED BY <2>2, <2>4, <2>5, CommitMoves DEF Loaded
<1>9. CASE Route(w)
  <2>1. pc[w] = "route" /\ row[rec[w]] \in Rows
    BY <1>1, <1>9 DEF Route
  <2> QED BY <1>9, <2>1, SettleMoves, CommitMoves DEF Route, Loaded
<1>10. CASE StorageStep(w)
  BY <1>10, StorageStepMoves
<1>11. CASE Share(w)
  <2> DEFINE kept == IF row[rec[w]].artifact = None /\ provider = "synology"
                       THEN mem[w].path ELSE row[rec[w]].artifact
             x == [row[rec[w]] EXCEPT !.link = mem[w].path, !.artifact = kept]
             y == [mem[w] EXCEPT !.link = mem[w].path]
  <2>1. pc[w] = "share" /\ Commit(w, "link_created", x, y, "card")
    BY <1>11 DEF Share
  <2>2. row[rec[w]] \in Rows /\ mem[w] \in Copies
    BY <1>1, <2>1 DEF TypeOK
  <2>3. kept \in Places /\ mem[w].path \in Places
    BY <2>2 DEF Rows, Copies
  <2> HIDE DEF kept
  <2>4. x \in Rows
    BY <2>2, <2>3 DEF Rows
  <2> HIDE DEF x, y
  <2> QED BY <2>1, <2>4, CommitMoves DEF Loaded
<1>12. CASE CommitCard(w)
  <2> DEFINE step == IF w \in fresh THEN "mark" ELSE "await"
  <2>1. Commit(w, "notion_updated", row[rec[w]], mem[w], step) /\ pc[w] = "commit_card"
    BY <1>12 DEF CommitCard
  <2>2. step \notin {"claimed", "calendar", "release_fail", "fail_found"}
    OBVIOUS
  <2> HIDE DEF step
  <2> QED BY <1>1, <2>1, <2>2, CommitMoves DEF Loaded
<1>13. CASE Await(w) \/ CommitMark(w)
  BY <1>1, <1>13, CommitMoves DEF Await, CommitMark, Loaded
<1> QED
  BY <1>2, <1>3, <1>4, <1>5, <1>6, <1>7, <1>8, <1>9, <1>10, <1>11, <1>12, <1>13 DEF RunStep

LEMMA NextMoves ==
  ASSUME Handlers = {}, TypeOK, [Next]_vars
  PROVE  StatusMoves
<1>1. ASSUME NEW r \in Recordings, Decision(r) PROVE DecisionMoves(r)
  <2>1. row[r] \in Rows
    BY DEF TypeOK
  <2>2. CASE Answer(r)
    <3>1. row'[r].status \in {"calendar_event_found", "candidate_matched", "ignored"}
      <4>1. PICK x \in {[row[r] EXCEPT !.status = "calendar_event_found", !.ask = "nothing"],
                        [row[r] EXCEPT !.status = "candidate_matched", !.page = TRUE,
                                       !.ask = "nothing"],
                        [row[r] EXCEPT !.status = "ignored", !.ask = "nothing"]} :
              row' = [row EXCEPT ![r] = x]
        BY <2>2 DEF Answer
      <4>2. x.status \in {"calendar_event_found", "candidate_matched", "ignored"}
        BY <2>1, <4>1 DEF Rows
      <4> QED BY <4>1, <4>2 DEF TypeOK
    <3>2. StatusesKept(Recordings \ {r})
      BY <2>2 DEF Answer, StatusesKept, TypeOK
    <3> QED BY <2>2, <3>1, <3>2 DEF Answer, DecisionMoves, Lifecycle!Transitions
  <2>3. ASSUME NEW d \in Destinations, RouteInterview(r, d) PROVE DecisionMoves(r)
    <3>1. Reset(row[r]) \in Rows
      BY <2>1, ResetType
    <3>2. row'[r].status = "transfer_started" /\ StatusesKept(Recordings \ {r})
      BY <2>3, <3>1 DEF RouteInterview, StatusesKept, TypeOK, Rows
    <3> QED BY <2>3, <3>2 DEF RouteInterview, DecisionMoves, Lifecycle!Transitions
  <2> QED BY <1>1, <2>2, <2>3 DEF Decision
<1>2. ASSUME NEW w \in Workers, NEW r \in Recordings, Claim(w, r) PROVE StatusesKept(Recordings)
  <2>1. row' = [row EXCEPT ![r] = [row[r] EXCEPT !.lease = w, !.expired = FALSE]]
    BY <1>2 DEF Claim
  <2> QED BY <2>1 DEF StatusesKept, TypeOK, Rows
<1>3. ASSUME NEW r \in Recordings, ExpireLease(r) \/ DeadlinePasses(r)
      PROVE  StatusesKept(Recordings)
  <2>1. CASE row' = row
    BY <2>1 DEF StatusesKept
  <2>2. CASE row' = [row EXCEPT ![r] = [row[r] EXCEPT !.expired = TRUE]]
    BY <2>2 DEF StatusesKept, TypeOK, Rows
  <2> QED BY <1>3, <2>1, <2>2 DEF ExpireLease, DeadlinePasses, db
<1>4. ASSUME NEW p \in Processes, Crash(p) PROVE StatusesKept(Recordings)
  BY <1>4 DEF Crash, StatusesKept
<1>5. CASE UNCHANGED vars
  BY <1>5 DEF vars, StatusesKept, StatusMoves
<1> QED BY <1>1, <1>2, <1>3, <1>4, <1>5, RunStepMoves DEF Next, StatusMoves

(* The steps at which only a scan may be.                                  *)
ScanSteps == {"claimed", "calendar", "release_fail", "fail_found"}

LEMMA RunStepScans ==
  ASSUME TypeOK, NEW w \in Workers, RunStep(w)
  PROVE  LoadFound(w) \/ CalendarRejected(w) \/ Release(w) \/ pc'[w] \notin ScanSteps
<1>1. w \in Processes
  BY WorkersAreProcesses
<1>2. ASSUME NEW s, NEW ask, Settle(w, s, ask) PROVE pc'[w] \notin ScanSteps
  BY <1>1, <1>2 DEF Settle, Goto, TypeOK, ScanSteps
<1>3. ASSUME NEW s, NEW x, NEW y, NEW step, step \notin ScanSteps, Commit(w, s, x, y, step)
      PROVE  pc'[w] \notin ScanSteps
  BY <1>1, <1>3 DEF Commit, Goto, TypeOK
<1>4. CASE LoadLocked(w)
  <2>1. FirstStep[row[rec[w]].status] \notin ScanSteps
    BY <1>4 DEF LoadLocked, TransferResumable, FirstStep, ScanSteps
  <2> QED BY <1>1, <1>4, <2>1 DEF LoadLocked, Goto, TypeOK
<1>5. CASE \/ LoadGone(w) \/ CalendarUnavailable(w) \/ FailFound(w) \/ LookupDeferred(w)
           \/ Resolve(w) \/ WriteCard(w) \/ CardDeferred(w) \/ SearchEnds(w) \/ SearchWaits(w)
           \/ MarkSource(w)
  BY <1>1, <1>5 DEF LoadGone, CalendarUnavailable, FailFound, LookupDeferred, Resolve, WriteCard,
     CardDeferred, SearchEnds, SearchWaits, MarkSource, Leave, Goto, TypeOK, ScanSteps
<1>6. CASE \/ Calendar(w) \/ LookupUnresolved(w) \/ ResolveRejected(w) \/ SkipCard(w)
           \/ CompleteUnmarked(w) \/ Complete(w) \/ StepFails(w)
  BY <1>2, <1>6 DEF Calendar, LookupUnresolved, ResolveRejected, SkipCard, CompleteUnmarked,
     Complete, StepFails
<1>7. {"route", "claim_storage", "share", "card", "mark", "await", "search", "complete"}
        \cap ScanSteps = {}
  BY DEF ScanSteps
<1>8. CASE LookupMatched(w) \/ Route(w) \/ Share(w) \/ CommitCard(w) \/ Await(w) \/ CommitMark(w)
  BY <1>2, <1>3, <1>7, <1>8 DEF LookupMatched, Route, Share, CommitCard, Await, CommitMark
<1>9. CASE StorageStep(w)
  <2>1. w \notin Handlers
    BY DisjointAssumption
  <2>2. CASE StorageCollision(w) \/ UploadBreaks(w) \/ CommitUpload(w)
    BY <1>2, <1>3, <1>7, <2>1, <2>2 DEF StorageCollision, UploadBreaks, CommitUpload, Collide
  <2>3. CASE \/ StorageReused(w) \/ StorageClaimed(w) \/ UploadBegins(w) \/ UploadEnds(w)
             \/ PutObject(w)
    BY <1>1, <2>3 DEF StorageReused, StorageClaimed, UploadBegins, UploadEnds, PutObject, Goto,
       TypeOK, ScanSteps
  <2> QED BY <1>9, <2>2, <2>3 DEF StorageStep
<1> QED BY <1>4, <1>5, <1>6, <1>8, <1>9 DEF RunStep

(* A run's step moves that run alone.                                      *)
LEMMA RunStepAlone ==
  ASSUME TypeOK, NEW w \in Workers, RunStep(w), NEW u \in Workers \ {w}
  PROVE  pc'[u] = pc[u] /\ rec'[u] = rec[u]
<1>1. u \in Processes \ {w} /\ w \notin Handlers
  BY WorkersAreProcesses, DisjointAssumption
<1>2. ASSUME NEW step, Goto(w, step) PROVE pc'[u] = pc[u]
  BY <1>1, <1>2 DEF Goto, TypeOK
<1>3. CASE StorageStep(w)
  BY <1>1, <1>2, <1>3 DEF StorageStep, StorageReused, StorageClaimed, StorageCollision,
     UploadBegins, UploadEnds, UploadBreaks, PutObject, CommitUpload, Collide, Settle, Commit
<1>4. CASE \/ LoadFound(w) \/ LoadLocked(w) \/ LoadGone(w) \/ Calendar(w)
           \/ CalendarUnavailable(w) \/ CalendarRejected(w) \/ LookupMatched(w)
           \/ LookupUnresolved(w) \/ LookupDeferred(w) \/ Resolve(w) \/ ResolveRejected(w)
           \/ Route(w)
  BY <1>2, <1>4 DEF LoadFound, LoadLocked, LoadGone, Calendar, CalendarUnavailable,
     CalendarRejected, LookupMatched, LookupUnresolved, LookupDeferred, Resolve, ResolveRejected,
     Route, Settle, Commit, Leave
<1>5. CASE Release(w) \/ FailFound(w)
  BY <1>1, <1>2, <1>5 DEF Release, FailFound, TypeOK
<1>6. CASE \/ Share(w) \/ WriteCard(w) \/ SkipCard(w) \/ CardDeferred(w) \/ CommitCard(w)
           \/ Await(w) \/ SearchEnds(w) \/ SearchWaits(w) \/ CompleteUnmarked(w)
           \/ MarkSource(w) \/ CommitMark(w) \/ Complete(w) \/ StepFails(w)
  BY <1>2, <1>6 DEF Share, WriteCard, SkipCard, CardDeferred, CommitCard, Await, SearchEnds,
     SearchWaits, CompleteUnmarked, MarkSource, CommitMark, Complete, StepFails, Settle, Commit,
     Leave
<1> QED BY <1>3, <1>4, <1>5, <1>6 DEF RunStep

LEMMA ScanInit == Init => ScanInv
  BY WorkersAreProcesses DEF Init, ScanInv

(* A found recording stays found under the eyes of the scan.               *)
LEMMA ScanStays ==
  ASSUME \A v, w \in Scanners : v = w, TypeOK, LeaseInv, ScanInv, StatusMoves,
         NEW u \in Workers, pc'[u] = pc[u], rec'[u] = rec[u]
  PROVE  /\ pc[u] \in {"calendar", "release_fail", "fail_found"} => u \in Scanners
         /\ pc[u] = "claimed" /\ row'[rec[u]].status = "found" => u \in Scanners
         /\ pc[u] = "calendar" => row'[rec[u]].status = "found"
<1>1. pc[u] # "idle" => rec[u] \in Recordings
  BY WorkersAreProcesses DEF TypeOK
<1>2. ASSUME pc[u] = "calendar" PROVE row'[rec[u]].status = "found"
  <2>1. u \in Scanners /\ row[rec[u]].status = "found"
    BY <1>2 DEF ScanInv
  <2>2. ASSUME NEW v \in Workers, RunMoves(v) PROVE rec[v] # rec[u]
    BY <1>2, <2>2, Apart DEF RunMoves, Loaded
  <2>3. ASSUME NEW v \in Workers, ScanMoves(v) PROVE FALSE
    BY <1>2, <2>1, <2>3 DEF ScanMoves, ScanInv
  <2>4. ASSUME NEW r \in Recordings, DecisionMoves(r) PROVE r # rec[u]
    BY <2>1, <2>4 DEF DecisionMoves
  <2> QED BY <1>1, <1>2, <2>1, <2>2, <2>3, <2>4
          DEF StatusMoves, StatusesKept, RunMoves, DecisionMoves
<1>3. ASSUME NEW r \in Recordings, row'[r].status = "found" PROVE row[r].status = "found"
  <2>1. \A s \in Lifecycle!Statuses : "found" \notin Lifecycle!Transitions[s]
    BY DEF Lifecycle!Statuses, Lifecycle!Transitions
  <2>2. \A p \in Processes : mem[p].status \in Lifecycle!Statuses
    BY DEF TypeOK, Copies
  <2>3. row[r].status \in Lifecycle!Statuses
    BY DEF TypeOK, Rows
  <2> QED BY <1>3, <2>1, <2>2, <2>3, WorkersAreProcesses
          DEF StatusMoves, StatusesKept, RunMoves, ScanMoves, DecisionMoves, Allowed
<1> QED BY <1>1, <1>2, <1>3 DEF ScanInv

LEMMA ScanNext ==
  ASSUME Handlers = {}, \A v, w \in Scanners : v = w,
         TypeOK, LeaseInv, ScanInv, [Next]_vars
  PROVE  ScanInv'
<1>1. StatusMoves
  BY NextMoves
<1>2. CASE \A u \in Workers : pc'[u] = pc[u] /\ rec'[u] = rec[u]
  BY <1>1, <1>2, ScanStays DEF ScanInv
<1>3. ASSUME NEW w \in Workers, \A u \in Workers \ {w} : pc'[u] = pc[u] /\ rec'[u] = rec[u],
             pc'[w] \in {"calendar", "release_fail", "fail_found"} => w \in Scanners,
             pc'[w] = "claimed" /\ row'[rec'[w]].status = "found" => w \in Scanners,
             pc'[w] = "calendar" => row'[rec'[w]].status = "found"
      PROVE  ScanInv'
  BY <1>1, <1>3, ScanStays DEF ScanInv
<1>4. ASSUME NEW w \in Workers, RunStep(w) PROVE ScanInv'
  <2>1. w \in Processes /\ \A u \in Workers \ {w} : pc'[u] = pc[u] /\ rec'[u] = rec[u]
    BY <1>4, RunStepAlone, WorkersAreProcesses
  <2>2. CASE pc'[w] \notin ScanSteps
    BY <1>3, <2>1, <2>2 DEF ScanSteps
  <2>3. CASE LoadFound(w)
    BY <1>3, <2>1, <2>3 DEF LoadFound, Goto, TypeOK, ScanInv, db
  <2>4. CASE CalendarRejected(w)
    BY <1>3, <2>1, <2>4 DEF CalendarRejected, Goto, TypeOK, ScanInv
  <2>5. CASE Release(w)
    BY <1>3, <2>1, <2>5 DEF Release, Goto, TypeOK, ScanInv
  <2> QED BY <1>4, <2>2, <2>3, <2>4, <2>5, RunStepScans
<1>5. ASSUME NEW w \in Workers, NEW r \in Recordings, Claim(w, r) PROVE ScanInv'
  <2>1. w \in Processes /\ pc'[w] = "claimed" /\ rec'[w] = r
        /\ row'[r].status = row[r].status
    BY <1>5, WorkersAreProcesses DEF Claim, Goto, TypeOK, Rows
  <2>2. \A u \in Workers \ {w} : pc'[u] = pc[u] /\ rec'[u] = rec[u]
    BY <1>5, WorkersAreProcesses DEF Claim, Goto, TypeOK
  <2> QED BY <1>3, <1>5, <2>1, <2>2 DEF Claim, TransferResumable
<1>6. ASSUME NEW p \in Processes, Crash(p) PROVE ScanInv'
  <2>1. p \in Workers
    BY DEF Processes
  <2>2. pc'[p] = "idle" /\ \A u \in Workers \ {p} : pc'[u] = pc[u] /\ rec'[u] = rec[u]
    BY <1>6, WorkersAreProcesses DEF Crash, Goto, TypeOK
  <2> QED BY <1>3, <2>1, <2>2
<1>7. ASSUME NEW r \in Recordings, ExpireLease(r) \/ DeadlinePasses(r) \/ Decision(r)
      PROVE  \A u \in Workers : pc'[u] = pc[u] /\ rec'[u] = rec[u]
  BY <1>7 DEF ExpireLease, DeadlinePasses, Decision, Answer, RouteInterview, local
<1>8. CASE UNCHANGED vars
  BY <1>2, <1>8 DEF vars
<1> QED BY <1>2, <1>4, <1>5, <1>6, <1>7, <1>8 DEF Next

(* Without route-non-interview requests every recording is an interview.   *)
LEMMA Interviews ==
  ASSUME Handlers = {}, TypeOK, ProgressInv, NEW r \in Recordings
  PROVE  row[r].route = "interview"
  BY DEF ProgressInv, RowInv

(* A status change takes one edge of the transition table.                 *)
LEMMA MovesAreEdges ==
  ASSUME TypeOK, ProgressInv, ScanInv, Handlers = {}, StatusMoves
  PROVE  \/ StatusesKept(Recordings)
         \/ \E r \in Recordings :
              /\ row'[r].status \in Lifecycle!Transitions[row[r].status]
              /\ StatusesKept(Recordings \ {r})
<1>1. ASSUME NEW w \in Workers, RunMoves(w)
      PROVE  \/ StatusesKept(Recordings)
             \/ row'[rec[w]].status \in Lifecycle!Transitions[row[rec[w]].status]
  <2>1. /\ rec[w] \in Recordings /\ row[rec[w]].route = "interview" /\ Knows(w)
        /\ mem[w].status \in StepStatus[pc[w]]
    BY <1>1, Knowledge, Interviews DEF RunMoves
  <2>2. CASE pc[w] = "calendar"
    BY <1>1, <2>1, <2>2 DEF RunMoves, ScanInv, Allowed, StepStatus
  <2>3. CASE pc[w] = "route" /\ mem[w].dest = None
    <3>1. row[rec[w]].status \in {"candidate_matched", "transfer_started"}
      BY <2>1, <2>3 DEF Knows, Fresh, CopyOf, StepStatus
    <3> QED BY <1>1, <2>3, <3>1 DEF RunMoves, Lifecycle!Transitions
  <2>4. CASE pc[w] # "calendar" /\ ~(pc[w] = "route" /\ mem[w].dest = None)
    <3>1. Fresh(w)
      BY <2>1, <2>4 DEF Knows, BeforeTransfer
    <3> QED BY <1>1, <3>1 DEF RunMoves, Allowed, Fresh, CopyOf
  <2> QED BY <2>2, <2>3, <2>4
<1>2. ASSUME NEW w \in Workers, ScanMoves(w)
      PROVE  row'[rec[w]].status \in Lifecycle!Transitions[row[rec[w]].status]
  BY <1>2 DEF ScanMoves, Lifecycle!Transitions
<1> QED BY <1>1, <1>2 DEF StatusMoves, RunMoves, ScanMoves, DecisionMoves

LEMMA EdgesAreSteps ==
  ASSUME TypeOK, TypeOK', NEW r \in Recordings,
         row'[r].status \in Lifecycle!Transitions[row[r].status],
         StatusesKept(Recordings \ {r})
  PROVE  Lifecycle!Next
<1>1. row'[r].status \in Lifecycle!Statuses
  BY DEF TypeOK, Rows
<1>2. [q \in Recordings |-> row'[q].status]
        = [[q \in Recordings |-> row[q].status] EXCEPT ![r] = row'[r].status]
  BY DEF StatusesKept
<1> QED BY <1>1, <1>2 DEF Lifecycle!Next, Lifecycle!Advance

(* The pipeline implements the status machine, for one scanning instance   *)
(* and leased runs: whoever writes the column, of whatever crashed or took *)
(* over, takes one edge of the transition table.                           *)
THEOREM PipelineImplementsLifecycle ==
  ASSUME SlowRuns = FALSE, Handlers = {}, \A v, w \in Scanners : v = w
  PROVE  Spec => ImplementsLifecycle
<1> DEFINE st == [r \in Recordings |-> row[r].status]
<1>1. Init => Lifecycle!Init
  BY DEF Init, NewRow, Lifecycle!Init
<1>2. TypeOK /\ TypeOK' /\ LeaseInv /\ ProgressInv /\ ScanInv /\ [Next]_vars => [Lifecycle!Next]_st
  <2> SUFFICES ASSUME TypeOK, TypeOK', LeaseInv, ProgressInv, ScanInv, [Next]_vars
               PROVE  Lifecycle!Next \/ st' = st
    OBVIOUS
  <2>1. CASE StatusesKept(Recordings)
    BY <2>1 DEF StatusesKept
  <2>2. ASSUME NEW r \in Recordings, StatusesKept(Recordings \ {r}),
               row'[r].status \in Lifecycle!Transitions[row[r].status]
        PROVE  Lifecycle!Next
    BY <2>2, EdgesAreSteps
  <2> QED BY <2>1, <2>2, NextMoves, MovesAreEdges
<1>3. Init => ScanInv
  BY ScanInit
<1>4. TypeOK /\ LeaseInv /\ ScanInv /\ [Next]_vars => ScanInv'
  BY ScanNext
<1> QED BY <1>1, <1>2, <1>3, <1>4, InvHolds, PTL DEF Spec, ImplementsLifecycle, Lifecycle!Spec
=============================================================================
