------------------------------- MODULE Reroute -------------------------------
(***************************************************************************)
(* Moving a stored recording afterwards: reroute requests carry its file   *)
(* to another Synology folder (app/services/reroute.py and the CopyMove    *)
(* calls of app/tools/synology.py), reassignment requests carry its link   *)
(* to another Notion card (app/services/notion_reassignment.py).           *)
(*                                                                         *)
(* One durable, completed recording.  A request commits a checkpoint after *)
(* each external effect and is retried under the same idempotency key or   *)
(* proposal; only the lease (reroute) or the row lock up to the first      *)
(* commit (reassignment) keeps requests apart.  A reroute request works on *)
(* the copies of the rows it read when it began.                           *)
(***************************************************************************)
EXTENDS Naturals, FiniteSets

CONSTANTS
  Folders,       \* Synology folders under the allowed roots
  Home,          \* the folder the recording is stored in at first
  Shared,        \* folders where other recordings of the same name are stored
  Pages,         \* Notion cards
  FirstPage,     \* the card of the recording at first
  Keys,          \* reroute operations, by idempotency key
  Proposals,     \* reassignment proposals
  Requests,      \* concurrent reroute requests
  Confirmers,    \* concurrent reassignment confirmations
  None,          \* null
  SlowRequests,  \* TRUE: a request may outlive its ten-minute lease
  MaxFaults,     \* bound on crashes and transient errors
  MaxEdits       \* bound on edits of a card by a person

ASSUME HomeAssumption  == Home \in Folders /\ Shared \subseteq Folders
ASSUME PageAssumption  == FirstPage \in Pages
ASSUME NamesAssumption == /\ Requests \cap Confirmers = {}
                          /\ Keys \cap Proposals = {}
                          /\ None \notin Folders \cup Pages \cup Requests
                                          \cup Confirmers \cup Keys \cup Proposals
ASSUME SlowAssumption  == SlowRequests \in BOOLEAN
ASSUME BoundAssumption == MaxFaults \in Nat /\ MaxEdits \in Nat

VARIABLES
  row,       \* the committed recording row
  lock,      \* the confirmation whose transaction locks row and proposal
  history,   \* file paths of recording_storage_artifacts (unique)
  op,        \* op[k]: the reroute operation of key k
  proposal,  \* proposal[q]: the reassignment proposal q
  pc,        \* pc[p]: what request p does next
  job,       \* job[p]: its key or proposal
  mem,       \* mem[p]: the copies of row and operation it works on
  file,      \* file[f]: whose file of that name is in folder f
  marker,    \* marker[f]: whose owner marker is beside it
  tasks,     \* CopyMove tasks the NAS has not finished
  links,     \* links[f]: public share links to the file in f
  card,      \* card[g]: the folder the recording link on card g leads to
  faults, edits

storage == <<file, marker, tasks, links>>
local   == <<pc, job, mem>>
vars == <<row, lock, history, op, proposal, pc, job, mem, file, marker, tasks, links,
          card, faults, edits>>

Processes == Requests \cup Confirmers
Whose     == {"nobody", "ours", "theirs"}
Phases    == {"pending", "moved", "linked", "notion_updated", "completed", "failed"}

Steps ==
  { "idle", "checkpoint", "probe", "inspect", "move_file", "moving_file", "moving_marker",
    "task_failed", "find", "create", "commit_link", "write_card", "read_card", "finish", "reject",
    "compare", "write_target", "verify_target", "clear", "commit_page" }

Rows ==
  [ version : Nat,
    path    : Folders,                       \* synology_file_path, the active artifact
    link    : Folders,                       \* synology_share_url
    page    : Pages,                         \* notion_page_id
    lease   : Requests \cup {None},
    expired : BOOLEAN ]

Operations ==
  [ status  : Phases \cup {"absent"},
    dest    : Folders \cup {None},           \* destination_id
    version : Nat,                           \* expected_version
    target  : Folders \cup {None},           \* target_file_path
    url     : Folders \cup {None} ]          \* target_share_url

ProposalRows ==
  [ status  : {"absent", "pending", "completed", "expired"},
    written : BOOLEAN,                       \* result.phase is target_written
    version : Nat,
    source  : Pages \cup {None},
    target  : Pages \cup {None},
    shown   : [ source : Folders \cup {None}, target : Folders \cup {None} ] ]  \* snapshots

Tasks == [ by : Requests, item : {"file", "marker"}, from : Folders, to : Folders ]

TypeOK ==
  /\ row \in Rows
  /\ lock \in Confirmers \cup {None}
  /\ history \in SUBSET Folders
  /\ op \in [Keys -> Operations]
  /\ proposal \in [Proposals -> ProposalRows]
  /\ pc \in [Processes -> Steps]
  /\ job \in [Processes -> Keys \cup Proposals \cup {None}]
  /\ mem \in [Processes -> [row : Rows, op : Operations]]
  /\ file \in [Folders -> Whose]
  /\ marker \in [Folders -> Whose]
  /\ tasks \in SUBSET Tasks
  /\ links \in [Folders -> Nat]
  /\ card \in [Pages -> Folders \cup {None}]
  /\ faults \in 0..MaxFaults
  /\ edits \in 0..MaxEdits

NoOperation == [status |-> "absent", dest |-> None, version |-> 0, target |-> None, url |-> None]

NoProposal ==
  [ status |-> "absent", written |-> FALSE, version |-> 0, source |-> None, target |-> None,
    shown |-> [source |-> None, target |-> None] ]

FirstRow ==
  [ version |-> 0, path |-> Home, link |-> Home, page |-> FirstPage,
    lease |-> None, expired |-> FALSE ]

NoCopy == [row |-> FirstRow, op |-> NoOperation]

StoredFiles == [f \in Folders |-> IF f = Home THEN "ours" ELSE "nobody"]

Init ==
  /\ row = FirstRow
  /\ lock = None
  /\ history = {Home}
  /\ op = [k \in Keys |-> NoOperation]
  /\ proposal = [q \in Proposals |-> NoProposal]
  /\ pc = [p \in Processes |-> "idle"]
  /\ job = [p \in Processes |-> None]
  /\ mem = [p \in Processes |-> NoCopy]
  /\ file = StoredFiles
  /\ marker = StoredFiles
  /\ tasks = {}
  /\ links = [f \in Folders |-> IF f = Home THEN 1 ELSE 0]
  /\ card = [g \in Pages |-> IF g = FirstPage THEN Home ELSE None]
  /\ faults = 0
  /\ edits = 0
-----------------------------------------------------------------------------
(* Building blocks.  p works on operation job[p], from source to target.   *)

Goto(p, step) == pc' = [pc EXCEPT ![p] = step]

Source(p) == mem[p].row.path
Target(p) == mem[p].op.target

Fault == faults < MaxFaults /\ faults' = faults + 1

(* Commit of a later phase: only columns of the operation that p changed    *)
(* are written, and the recording row is not touched.                      *)
Phase(p, o, step) ==
  /\ op' = [op EXCEPT ![job[p]].status = o.status,
                      ![job[p]].url = IF o.url = None THEN @ ELSE o.url]
  /\ mem' = [mem EXCEPT ![p].op = o]
  /\ Goto(p, step)
  /\ UNCHANGED <<row, job>>

(* The request is over; its copies are gone with its session.              *)
Over(p) ==
  /\ Goto(p, "idle")
  /\ job' = [job EXCEPT ![p] = None]
  /\ mem' = [mem EXCEPT ![p] = NoCopy]

(* The lease columns are cleared whoever holds the lease by now.           *)
ClearLease ==
  /\ lock = None
  /\ row' = [row EXCEPT !.lease = None, !.expired = FALSE]

(* StorageCollisionError, RerouteRejectedError, ValueError, PermissionError. *)
Fail(p) ==
  /\ ClearLease
  /\ op' = [op EXCEPT ![job[p]].status = "failed"]
  /\ Over(p)

(* Any other exception keeps the phase.                                    *)
GiveUp(p) ==
  /\ ClearLease
  /\ Over(p)
  /\ UNCHANGED op

(* The next step, with nothing committed.                                  *)
Continue(p, step) ==
  /\ Goto(p, step)
  /\ UNCHANGED <<row, op, job, mem>>
-----------------------------------------------------------------------------
(* A reroute request begins.                                               *)

(* Mutant of FirstStep: a failed operation goes on to the end in any case. *)
FirstStepForgives(o) ==
  CASE o.status = "pending"        -> "checkpoint"
    [] o.status = "moved"          -> "find"
    [] o.status = "linked"         -> "write_card"
    [] OTHER                       -> "finish"

(* Mutant of FirstStep: a pending operation is taken for a moved one.      *)
FirstStepSkipsMove(o) ==
  CASE o.status = "pending"        -> IF o.target = None THEN "checkpoint" ELSE "find"
    [] o.status = "moved"          -> "find"
    [] o.status = "linked"         -> "write_card"
    [] o.status = "notion_updated" -> "finish"
    [] OTHER                       -> IF o.url = None THEN "reject" ELSE "finish"

(* The first step, by the phase the operation is in.  A failed operation   *)
(* matches no phase: it ends at the missing link, or finishes at once.     *)
FirstStep(o) ==
  CASE o.status = "pending"        -> "checkpoint"
    [] o.status = "moved"          -> "find"
    [] o.status = "linked"         -> "write_card"
    [] o.status = "notion_updated" -> "finish"
    [] OTHER                       -> IF o.url = None THEN "reject" ELSE "finish"

(* Takes the lease and commits with the operation, which is new or read.   *)
Start(p, k, o) ==
  LET x == [row EXCEPT !.lease = p, !.expired = FALSE] IN
  /\ row' = x
  /\ op' = [op EXCEPT ![k] = o]
  /\ job' = [job EXCEPT ![p] = k]
  /\ mem' = [mem EXCEPT ![p] = [row |-> x, op |-> o]]
  /\ Goto(p, FirstStep(o))

(* Mutant of Begin: the lease is not looked at.                            *)
BeginIgnoresLease(p, k, d) ==
  /\ pc[p] = "idle" /\ lock = None
  /\ \/ /\ op[k].status = "absent"
        /\ Start(p, k, [NoOperation EXCEPT !.status = "pending", !.dest = d,
                                           !.version = row.version])
     \/ /\ op[k].status \notin {"absent", "completed"}
        /\ op[k].dest = d /\ op[k].version = row.version
        /\ Start(p, k, op[k])
  /\ UNCHANGED <<lock, history, proposal, storage, card, faults, edits>>

(* SELECT ... FOR UPDATE, the checks, and the commit that takes the lease. *)
(* A completed operation is answered without any change; so is a rejected  *)
(* request.                                                                *)
Begin(p, k, d) ==
  /\ pc[p] = "idle" /\ lock = None
  /\ row.lease = None \/ row.expired
  /\ \/ /\ op[k].status = "absent"
        /\ Start(p, k, [NoOperation EXCEPT !.status = "pending", !.dest = d,
                                           !.version = row.version])
     \/ /\ op[k].status \notin {"absent", "completed"}
        /\ op[k].dest = d /\ op[k].version = row.version
        /\ Start(p, k, op[k])
  /\ UNCHANGED <<lock, history, proposal, storage, card, faults, edits>>

(* A failed operation without a link is rejected again.                    *)
Reject(p) ==
  /\ pc[p] = "reject"
  /\ Fail(p)
  /\ UNCHANGED <<lock, history, proposal, storage, card, faults, edits>>

(* Ten minutes pass.  Without SlowRequests the holder is over by then.     *)
ExpireLease ==
  /\ row.lease # None /\ ~row.expired
  /\ SlowRequests \/ pc[row.lease] = "idle"
  /\ row' = [row EXCEPT !.expired = TRUE]
  /\ UNCHANGED <<lock, history, op, proposal, local, storage, card, faults, edits>>
-----------------------------------------------------------------------------
(* Pending: the intended target is committed, then the file is moved.      *)

(* Mutant of Checkpoint: the target is known to the request alone.         *)
CheckpointInMemory(p) ==
  /\ pc[p] = "checkpoint"
  /\ mem' = [mem EXCEPT ![p].op.target = mem[p].op.dest]
  /\ Goto(p, "probe")
  /\ UNCHANGED <<row, op, job, lock, history, proposal, storage, card, faults, edits>>

(* A repeated checkpoint commits nothing new.                              *)
Checkpoint(p) ==
  /\ pc[p] = "checkpoint"
  /\ op' = IF mem[p].op.target = None
             THEN [op EXCEPT ![job[p]].target = mem[p].op.dest] ELSE op
  /\ mem' = [mem EXCEPT ![p].op.target = mem[p].op.dest]
  /\ Goto(p, "probe")
  /\ UNCHANGED <<row, job, lock, history, proposal, storage, card, faults, edits>>

(* Mutant of Probe: a file at the target is not verified.                  *)
ProbeTrustsTarget(p) ==
  /\ pc[p] = "probe"
  /\ \/ /\ file[Target(p)] = "nobody"
        /\ Continue(p, "inspect")
     \/ /\ file[Target(p)] # "nobody" /\ file[Source(p)] = "nobody"
        /\ Phase(p, [mem[p].op EXCEPT !.status = "moved"], "find")
     \/ /\ file[Target(p)] # "nobody" /\ file[Source(p)] # "nobody"
        /\ Fail(p)
  /\ UNCHANGED <<lock, history, proposal, storage, card, faults, edits>>

(* What a previous attempt left: nothing; our file and its marker with the *)
(* source gone (verify_moved_target); or something that is not understood. *)
Probe(p) ==
  /\ pc[p] = "probe"
  /\ \/ /\ file[Target(p)] = "nobody"
        /\ Continue(p, "inspect")
     \/ /\ file[Target(p)] # "nobody" /\ file[Source(p)] = "nobody"
        /\ file[Target(p)] = "ours" /\ marker[Target(p)] = "ours"
        /\ Phase(p, [mem[p].op EXCEPT !.status = "moved"], "find")
     \/ /\ file[Target(p)] # "nobody"
        /\ \/ file[Source(p)] # "nobody"
           \/ file[Target(p)] # "ours" \/ marker[Target(p)] # "ours"
        /\ Fail(p)
  /\ UNCHANGED <<lock, history, proposal, storage, card, faults, edits>>

(* copy_move_verified: target still absent, source and its marker ours.    *)
Inspect(p) ==
  /\ pc[p] = "inspect"
  /\ IF file[Target(p)] = "nobody" /\ file[Source(p)] = "ours" /\ marker[Source(p)] = "ours"
       THEN Continue(p, "move_file")
       ELSE Fail(p)
  /\ UNCHANGED <<lock, history, proposal, storage, card, faults, edits>>

(* One CopyMove task each for the file and for its marker.                 *)
Task(p, item) == [by |-> p, item |-> item, from |-> Source(p), to |-> Target(p)]

(* A task on a source that is gone is refused at once.                     *)
MoveFile(p) ==
  /\ pc[p] = "move_file"
  /\ IF file[Source(p)] # "nobody"
       THEN tasks' = tasks \cup {Task(p, "file")} /\ Continue(p, "moving_file")
       ELSE GiveUp(p) /\ UNCHANGED tasks
  /\ UNCHANGED <<lock, history, proposal, file, marker, links, card, faults, edits>>

(* The task is over and the file is there: next the owner marker, unless   *)
(* one is in the way.                                                      *)
MoveMarker(p) ==
  /\ pc[p] = "moving_file"
  /\ Task(p, "file") \notin tasks
  /\ file[Target(p)] = "ours"
  /\ IF marker[Target(p)] # "nobody" THEN Fail(p) /\ UNCHANGED tasks
     ELSE IF marker[Source(p)] = "nobody" THEN GiveUp(p) /\ UNCHANGED tasks
     ELSE tasks' = tasks \cup {Task(p, "marker")} /\ Continue(p, "moving_marker")
  /\ UNCHANGED <<lock, history, proposal, file, marker, links, card, faults, edits>>

(* Both are there and neither is left behind: moved.                       *)
ProveMove(p) ==
  /\ pc[p] = "moving_marker"
  /\ Task(p, "marker") \notin tasks
  /\ marker[Target(p)] = "ours"
  /\ IF file[Source(p)] = "nobody" /\ marker[Source(p)] = "nobody"
       THEN Phase(p, [mem[p].op EXCEPT !.status = "moved"], "find")
       ELSE Fail(p)
  /\ UNCHANGED <<lock, history, proposal, storage, card, faults, edits>>

(* Mutant of NotMoved: a task DSM no longer knows is waited for.           *)
NotMovedWaits(p) ==
  /\ pc[p] = "task_failed" /\ GiveUp(p)
  /\ UNCHANGED <<lock, history, proposal, storage, card, faults, edits>>

(* DSM says the task failed: retryable.  Or it no longer knows the task    *)
(* (599), and the check of the target finds nothing of ours there.         *)
NotMoved(p) ==
  /\ \/ pc[p] = "task_failed" /\ GiveUp(p)
     \/ /\ pc[p] = "moving_file" /\ Task(p, "file") \notin tasks
        /\ file[Target(p)] # "ours" /\ Fail(p)
     \/ /\ pc[p] = "moving_marker" /\ Task(p, "marker") \notin tasks
        /\ marker[Target(p)] # "ours" /\ Fail(p)
  /\ UNCHANGED <<lock, history, proposal, storage, card, faults, edits>>

Waiting(p, t) ==
  /\ pc[p] = (IF t.item = "file" THEN "moving_file" ELSE "moving_marker")
  /\ Task(p, t.item) = t

(* The tasks lost end without effect; DSM reports it to whoever polls, or  *)
(* forgets them.                                                           *)
EndTasks(done, lost, reported) ==
  /\ tasks' = tasks \ (done \cup lost)
  /\ pc' = [p \in Processes |-> IF reported /\ \E t \in lost : Waiting(p, t)
                                  THEN "task_failed" ELSE pc[p]]

(* Mutant of Carried: remove_src is off.                                   *)
CarriedAndKept(where, t) == [where EXCEPT ![t.to] = where[t.from]]

(* remove_src.                                                             *)
Carried(where, t) == [where EXCEPT ![t.from] = "nobody", ![t.to] = where[t.from]]

(* Mutant of Movable: overwrite is on.                                     *)
MovableOverwriting(where, t) == where[t.from] # "nobody"

(* No overwrite.                                                           *)
Movable(where, t) == where[t.from] # "nobody" /\ where[t.to] = "nobody"

(* The NAS carries a task out whatever became of the request that started  *)
(* it; other tasks on the same source lose it and fail.                    *)
FinishTask(t) ==
  LET where == IF t.item = "file" THEN file ELSE marker
      rivals == {u \in tasks \ {t} : u.item = t.item /\ u.from = t.from} IN
  /\ t \in tasks
  /\ \E reported \in BOOLEAN :
       IF Movable(where, t)
         THEN /\ EndTasks({t}, rivals, reported)
              /\ file' = IF t.item = "file" THEN Carried(file, t) ELSE file
              /\ marker' = IF t.item = "marker" THEN Carried(marker, t) ELSE marker
         ELSE EndTasks({}, {t}, reported) /\ UNCHANGED <<file, marker>>
  /\ UNCHANGED <<row, lock, history, op, proposal, job, mem, links, card, faults, edits>>

(* Another recording of the same generated filename is uploaded to f: its  *)
(* owner marker, then its file (RecordingPipeline has the upload).         *)
ClaimOther(f) ==
  /\ file[f] = "nobody" /\ marker[f] = "nobody"
  /\ marker' = [marker EXCEPT ![f] = "theirs"]
  /\ UNCHANGED <<row, lock, history, op, proposal, local, file, tasks, links, card,
                 faults, edits>>

StoreOther(f) ==
  /\ file[f] = "nobody" /\ marker[f] = "theirs"
  /\ file' = [file EXCEPT ![f] = "theirs"]
  /\ UNCHANGED <<row, lock, history, op, proposal, local, marker, tasks, links, card,
                 faults, edits>>
-----------------------------------------------------------------------------
(* Moved: the link; linked: the card; then the artifact is switched.       *)

Find(p) ==
  /\ pc[p] = "find"
  /\ Continue(p, IF links[Target(p)] > 0 THEN "commit_link" ELSE "create")
  /\ UNCHANGED <<lock, history, proposal, storage, card, faults, edits>>

Create(p) ==
  /\ pc[p] = "create"
  /\ links' = [links EXCEPT ![Target(p)] = @ + 1]
  /\ Continue(p, "commit_link")
  /\ UNCHANGED <<lock, history, proposal, file, marker, tasks, card, faults, edits>>

CommitLink(p) ==
  /\ pc[p] = "commit_link"
  /\ Phase(p, [mem[p].op EXCEPT !.status = "linked", !.url = Target(p)], "write_card")
  /\ UNCHANGED <<lock, history, proposal, storage, card, faults, edits>>

WriteCard(p) ==
  /\ pc[p] = "write_card"
  /\ card' = [card EXCEPT ![mem[p].row.page] = mem[p].op.url]
  /\ Continue(p, "read_card")
  /\ UNCHANGED <<lock, history, proposal, storage, faults, edits>>

ReadCard(p) ==
  /\ pc[p] = "read_card"
  /\ IF card[mem[p].row.page] = mem[p].op.url
       THEN Phase(p, [mem[p].op EXCEPT !.status = "notion_updated"], "finish")
       ELSE Fail(p)
  /\ UNCHANGED <<lock, history, proposal, storage, card, faults, edits>>

(* One transaction: the new artifact is active, the row follows it.  The   *)
(* version is the one read at the beginning plus one.                      *)
Finish(p) ==
  LET f == Target(p) IN
  /\ pc[p] = "finish" /\ lock = None
  /\ f \notin history
  /\ history' = history \cup {f}
  /\ row' = [row EXCEPT !.version = mem[p].row.version + 1, !.path = f,
                        !.link = mem[p].op.url, !.lease = None, !.expired = FALSE]
  /\ op' = [op EXCEPT ![job[p]].status = "completed"]
  /\ Over(p)
  /\ UNCHANGED <<lock, proposal, storage, card, faults, edits>>

(* The path is in the history already: the transaction fails, and so does  *)
(* the commit in the exception handler; the lease stays.                   *)
Conflict(p) ==
  /\ pc[p] = "finish"
  /\ Target(p) \in history
  /\ Over(p)
  /\ UNCHANGED <<row, op, lock, history, proposal, storage, card, faults, edits>>

(* A call to the NAS or to Notion fails, or its answer is lost, or the     *)
(* task is not over when polling ends.                                     *)
Interrupt(p) ==
  /\ pc[p] \in { "probe", "inspect", "move_file", "moving_file", "moving_marker",
                 "find", "create", "commit_link", "write_card", "read_card" }
  /\ Fault
  /\ GiveUp(p)
  /\ UNCHANGED <<lock, history, proposal, storage, card, edits>>

(* The process dies, or an exception ends a confirmation: the open         *)
(* transaction rolls back, a lease stays behind.                           *)
Crash(p) ==
  /\ pc[p] # "idle"
  /\ Fault
  /\ Over(p)
  /\ lock' = IF lock = p THEN None ELSE lock
  /\ UNCHANGED <<row, op, history, proposal, storage, card, edits>>
-----------------------------------------------------------------------------
(* Reassignment.                                                           *)

(* Snapshots of both cards.  Nothing keeps the target from being the card  *)
(* the recording has.                                                      *)
Propose(q, g) ==
  /\ proposal[q].status = "absent"
  /\ proposal' = [proposal EXCEPT ![q] =
       [ status |-> "pending", written |-> FALSE, version |-> row.version,
         source |-> row.page, target |-> g,
         shown |-> [source |-> card[row.page], target |-> card[g]] ]]
  /\ UNCHANGED <<row, lock, history, op, local, storage, card, faults, edits>>

ExpireProposal(q) ==
  /\ proposal[q].status = "pending"
  /\ \A c \in Confirmers : lock = c => job[c] # q
  /\ proposal' = [proposal EXCEPT ![q].status = "expired"]
  /\ UNCHANGED <<row, lock, history, op, local, storage, card, faults, edits>>

(* Locks the proposal and the recording; another version is rejected.      *)
BeginConfirm(c, q) ==
  /\ pc[c] = "idle" /\ lock = None
  /\ proposal[q].status = "pending"
  /\ row.version = proposal[q].version
  /\ lock' = c
  /\ job' = [job EXCEPT ![c] = q]
  /\ mem' = [mem EXCEPT ![c].row = row]
  /\ Goto(c, "compare")
  /\ UNCHANGED <<row, history, op, proposal, storage, card, faults, edits>>

Abandon(c) ==
  /\ Over(c)
  /\ lock' = None

(* Mutant of Compare: the source is cleared before the target is written.  *)
CompareClearsFirst(c) ==
  LET q == proposal[job[c]] IN
  /\ pc[c] = "compare"
  /\ IF /\ card[q.source] = q.shown.source
        /\ card[q.target] = (IF q.written THEN mem[c].row.link ELSE q.shown.target)
       THEN /\ Goto(c, IF q.written THEN "clear" ELSE "write_target")
            /\ card' = [card EXCEPT ![q.source] = None]
            /\ UNCHANGED <<job, mem, lock>>
       ELSE Abandon(c) /\ UNCHANGED card
  /\ UNCHANGED <<row, op, history, proposal, storage, faults, edits>>

(* Both cards are read again and must be as proposed; once the target is   *)
(* written it must show the link instead.                                  *)
Compare(c) ==
  LET q == proposal[job[c]] IN
  /\ pc[c] = "compare"
  /\ IF /\ card[q.source] = q.shown.source
        /\ card[q.target] = (IF q.written THEN mem[c].row.link ELSE q.shown.target)
       THEN /\ Goto(c, IF q.written THEN "clear" ELSE "write_target")
            /\ UNCHANGED <<job, mem, lock>>
       ELSE Abandon(c)
  /\ UNCHANGED <<row, op, history, proposal, storage, card, faults, edits>>

WriteTarget(c) ==
  /\ pc[c] = "write_target"
  /\ card' = [card EXCEPT ![proposal[job[c]].target] = mem[c].row.link]
  /\ Goto(c, "verify_target")
  /\ UNCHANGED <<row, op, lock, job, mem, history, proposal, storage, faults, edits>>

(* The commit of target_written gives both locks back.                     *)
VerifyTarget(c) ==
  /\ pc[c] = "verify_target"
  /\ IF card[proposal[job[c]].target] = mem[c].row.link
       THEN /\ proposal' = [proposal EXCEPT ![job[c]].written = TRUE]
            /\ lock' = None
            /\ Goto(c, "clear")
            /\ UNCHANGED <<job, mem>>
       ELSE Abandon(c) /\ UNCHANGED proposal
  /\ UNCHANGED <<row, op, history, storage, card, faults, edits>>

Clear(c) ==
  /\ pc[c] = "clear"
  /\ card' = [card EXCEPT ![proposal[job[c]].source] = None]
  /\ Goto(c, "commit_page")
  /\ UNCHANGED <<row, op, lock, job, mem, history, proposal, storage, faults, edits>>

CommitPage(c) ==
  /\ pc[c] = "commit_page"
  /\ lock \in {None, c}
  /\ row' = [row EXCEPT !.page = proposal[job[c]].target, !.version = mem[c].row.version + 1]
  /\ proposal' = [proposal EXCEPT ![job[c]].status = "completed", ![job[c]].written = FALSE]
  /\ Abandon(c)
  /\ UNCHANGED <<op, history, storage, card, faults, edits>>

(* A person empties the recording field of a card.                         *)
EditCard(g) ==
  /\ edits < MaxEdits
  /\ edits' = edits + 1
  /\ card' = [card EXCEPT ![g] = None]
  /\ UNCHANGED <<row, lock, history, op, proposal, local, storage, faults>>
-----------------------------------------------------------------------------
RequestStep(p) ==
  \/ Reject(p) \/ Checkpoint(p) \/ Probe(p) \/ Inspect(p) \/ MoveFile(p) \/ MoveMarker(p)
  \/ ProveMove(p) \/ NotMoved(p) \/ Find(p) \/ Create(p) \/ CommitLink(p)
  \/ WriteCard(p) \/ ReadCard(p) \/ Finish(p) \/ Conflict(p)

ConfirmStep(c) ==
  \/ Compare(c) \/ WriteTarget(c) \/ VerifyTarget(c) \/ Clear(c) \/ CommitPage(c)

Next ==
  \/ \E p \in Requests : \E k \in Keys : \E d \in Folders : Begin(p, k, d)
  \/ \E p \in Requests : RequestStep(p) \/ Interrupt(p)
  \/ \E p \in Processes : Crash(p)
  \/ \E t \in tasks : FinishTask(t)
  \/ \E f \in Shared : ClaimOther(f) \/ StoreOther(f)
  \/ \E q \in Proposals : ExpireProposal(q) \/ \E g \in Pages : Propose(q, g)
  \/ \E c \in Confirmers : ConfirmStep(c) \/ \E q \in Proposals : BeginConfirm(c, q)
  \/ \E g \in Pages : EditCard(g)
  \/ ExpireLease

(* A request that runs goes on (the database queues those that wait for a  *)
(* row), the NAS carries its tasks out, leases expire, and a client whose  *)
(* reroute is not completed sends it again.                                *)
Fairness ==
  /\ \A p \in Requests : SF_vars(RequestStep(p))
  /\ \A c \in Confirmers : SF_vars(ConfirmStep(c))
  /\ WF_vars(\E t \in tasks : FinishTask(t))
  /\ WF_vars(ExpireLease)
  /\ \A k \in Keys :
       SF_vars(op[k].status # "absent" /\ \E p \in Requests : Begin(p, k, op[k].dest))

Spec == Init /\ [][Next]_vars /\ Fairness
-----------------------------------------------------------------------------
(* Properties.                                                             *)

Place == CHOOSE f \in Folders : file[f] = "ours"

Placement == INSTANCE Relocation WITH path <- row.path, place <- Place, version <- row.version

(* Whatever requests run, retry or die: the file is never more than one    *)
(* move away from the folder the row names, is not moved again before the  *)
(* row has followed, and the row follows it under the next version.        *)
ImplementsRelocation == Placement!Spec

(* A file away from the folder the row names is in the target that some    *)
(* unfinished operation committed beforehand (the checkpoint of            *)
(* reroute.py:130-133): it can be found again.                             *)
MoveIsOnRecord ==
  \A f \in Folders :
    file[f] = "ours" /\ f # row.path =>
      \E k \in Keys : op[k].target = f /\ op[k].status \notin {"absent", "completed"}

(* Reroutes neither lose nor double the file or its owner marker           *)
(* (synology.py:618-711), however requests overlap, fail or die.           *)
NothingLost ==
  /\ \E f \in Folders : \A g \in Folders : (file[g] = "ours") = (g = f)
  /\ \E f \in Folders : \A g \in Folders : (marker[g] = "ours") = (g = f)

(* A file or marker of another recording that is stored meanwhile is       *)
(* neither replaced nor carried away (synology.py:640-643, 664, 704).      *)
OthersUntouched ==
  [][\A f \in Folders :
       /\ file[f] = "theirs" => file'[f] = "theirs"
       /\ marker[f] = "theirs" => marker'[f] = "theirs"]_vars

(* The lease keeps reroute requests of one recording apart, although it is *)
(* cleared without looking whose it is (reroute.py:217-218, 228-229).      *)
OneRequestAtATime ==
  \A p, q \in Requests : pc[p] # "idle" /\ pc[q] # "idle" => p = q

(* The artifact is switched only to a folder where the file lies with its  *)
(* own marker, nothing of it being left in the old one                     *)
(* (synology.py:618-675, reroute.py:197-216).                              *)
SwitchAfterProof ==
  [][row'.path # row.path =>
       /\ file[row'.path] = "ours" /\ marker[row'.path] = "ours"
       /\ file[row.path] # "ours" /\ marker[row.path] # "ours"]_vars

(* Every request ends, by an answer or an exception.                       *)
RequestsEnd == \A p \in Requests : pc[p] # "idle" ~> pc[p] = "idle"

(* A file that was moved is where the row says again in the end, if the    *)
(* client keeps sending the request.                                       *)
MovedIsRecorded == file[row.path] # "ours" ~> file[row.path] = "ours"

(* While a recording goes from card to card its link is always on some     *)
(* card: the target is written and read back before the source is cleared  *)
(* (notion_reassignment.py:164-181), unless a proposal leads from a card   *)
(* to itself.                                                              *)
LinkOnSomeCard ==
  \/ \E g \in Pages : card[g] = row.link
  \/ \E q \in Proposals : proposal[q].status # "absent" /\ proposal[q].source = proposal[q].target
=============================================================================
