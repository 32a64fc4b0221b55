-------------------------- MODULE RelocationProofs --------------------------
(***************************************************************************)
(* Reroute moves a file along its record: for any folders, keys, requests  *)
(* and crashes the file is where the row or an unfinished operation says,  *)
(* the row follows only a proved move, and Reroute implements Relocation.  *)
(* These theorems are about reroutes whose requests end within their lease,*)
(* but for the switch of the artifact, which is proved of any requests.    *)
(* Only the refinement, where the version counts, leaves reassignments     *)
(* out, because CommitPage counts it from a copy and may set it back.  The *)
(* last section is about reassignments alone: the link stays on some card. *)
(*                                                                         *)
(* The tasks of the NAS outlive the requests, and so the argument is about *)
(* them: a task starts where the row says, and while there is one for the  *)
(* marker the file has arrived.  Hence at most one kind of task is there,  *)
(* and a settled file, with its marker beside it, has none.  What was once *)
(* proved of an operation does not become wrong, but late: its target is   *)
(* in the history of the paths then, where no transaction switches to it.  *)
(***************************************************************************)
EXTENDS RerouteProofs

Unfinished(o) == o.status \notin {"absent", "completed"}

OnRecord(f) == \E k \in Keys : op[k].target = f /\ Unfinished(op[k])

(* The file and its marker have been carried to f, and the row has not     *)
(* followed.                                                               *)
Settled(f) == file[f] = "ours" /\ marker[f] = "ours" /\ f # row.path

(* It is so, or it was and the row has followed.                           *)
Arrived(f) == Settled(f) \/ f \in history

TaskInv(t) ==
  /\ t.from = row.path /\ t.to # row.path
  /\ marker[row.path] = "ours"
  /\ t.item = "file" => file[row.path] = "ours" /\ OnRecord(t.to)
  /\ t.item = "marker" => file[t.to] = "ours"

(* The move of the operation is proved.                                    *)
Proved(o) == o.status \in {"moved", "linked", "notion_updated"} \/ o.url # None

KeyInv(o) == Proved(o) => Arrived(o.target)

NoMarkerTask == \A t \in tasks : t.item # "marker"

Later == {"find", "create", "commit_link", "write_card", "read_card", "finish"}

(* What a step on a move to f relies on.                                   *)
StepInv(step, f) ==
  /\ step \in {"move_file", "moving_file"} =>
       marker[row.path] = "ours" /\ file[row.path] # "theirs" /\ NoMarkerTask /\ f # row.path
  /\ step = "moving_marker" => file[f] = "ours" /\ f # row.path
  /\ step \in Later => Arrived(f)

(* The copy of the path in a running request is up to date.                *)
RunInv(p) ==
  pc[p] # "idle" =>
    /\ mem[p].row.path = row.path
    /\ op[job[p]].status # "completed"
    /\ StepInv(pc[p], Target(p))

TasksOK == \A t \in tasks : TaskInv(t)
KeysOK  == \A k \in Keys : KeyInv(op[k])
RunsOK  == \A p \in Requests : RunInv(p)

MoveInv == TasksOK /\ KeysOK /\ RunsOK /\ MoveIsOnRecord

(* What the steps start from.                                              *)
Before == IInv /\ HoldsLease /\ NothingLost /\ MoveInv
-----------------------------------------------------------------------------
(* Facts about a state.                                                    *)

(* The types and the operation of a running request.                       *)
LEMMA Running ==
  ASSUME IInv, NEW p \in Requests, pc[p] # "idle"
  PROVE  /\ job[p] \in Keys /\ p \in Processes
         /\ OpInv(mem[p].op) /\ OpInv(op[job[p]])
         /\ op[job[p]].status # "absent"
         /\ Grows(mem[p].op, op[job[p]])
         /\ pc[p] \notin {"checkpoint", "reject"} =>
              Target(p) \in Folders /\ op[job[p]].target = Target(p)
<1>1. job[p] \in Keys /\ HeldInv(pc[p], mem[p].op, op[job[p]]) /\ p \in Processes
  BY DEF IInv, RequestInv, Processes
<1>2. OpInv(op[job[p]]) /\ OpInv(mem[p].op) /\ Grows(mem[p].op, op[job[p]])
  BY <1>1 DEF IInv, HeldInv
<1>3. op[job[p]].status # "absent"
  BY <1>2 DEF Grows
<1>4. ASSUME pc[p] \notin {"checkpoint", "reject"}
      PROVE  Target(p) \in Folders /\ op[job[p]].target = Target(p)
  <2>1. mem[p].op.target # None
    BY <1>1, <1>4 DEF HeldInv
  <2>2. mem[p].op.target \in Folders
    BY <2>1, <1>2 DEF OpInv, Operations
  <2> QED BY <2>1, <2>2, <1>2 DEF Grows, Target
<1> QED BY <1>1, <1>2, <1>3, <1>4

(* Where a request runs no other does.                                     *)
LEMMA Alone ==
  ASSUME HoldsLease, NEW p \in Requests, NEW q \in Requests, p # q, pc[p] # "idle"
  PROVE  pc[q] = "idle"
BY DEF HoldsLease

LEMMA OnePlace ==
  ASSUME NothingLost, NEW f \in Folders, NEW g \in Folders
  PROVE  /\ file[f] = "ours" /\ file[g] = "ours" => f = g
         /\ marker[f] = "ours" /\ marker[g] = "ours" => f = g
BY DEF NothingLost

LEMMA Typed ==
  ASSUME IInv
  PROVE  /\ row.path \in Folders /\ row.version \in Nat
         /\ \A k \in Keys : op[k] \in Operations /\ op[k].version \in Nat
         /\ \A t \in tasks : t \in Tasks /\ t.to \in Folders /\ t.from \in Folders
                             /\ t.item \in {"file", "marker"}
         /\ file \in [Folders -> Whose] /\ marker \in [Folders -> Whose]
         /\ pc \in [Processes -> Steps]
         /\ mem \in [Processes -> [row : Rows, op : Operations]]
<1>1. row \in Rows /\ op \in [Keys -> Operations] /\ tasks \in SUBSET Tasks
  BY DEF IInv, TypeOK
<1>2. row.path \in Folders /\ row.version \in Nat
  BY <1>1 DEF Rows
<1>3. \A k \in Keys : op[k] \in Operations /\ op[k].version \in Nat
  BY <1>1 DEF Operations
<1>4. \A t \in tasks : t \in Tasks
  BY <1>1
<1>5. \A t \in tasks : t.to \in Folders /\ t.from \in Folders /\ t.item \in {"file", "marker"}
  BY <1>4 DEF Tasks
<1> QED BY <1>2, <1>3, <1>4, <1>5 DEF IInv, TypeOK

(* A settled file has no tasks.                                            *)
LEMMA SettledAtRest ==
  ASSUME IInv, NothingLost, TasksOK, NEW f \in Folders, Settled(f)
  PROVE  tasks = {}
<1>1. marker[row.path] # "ours"
  BY Typed, OnePlace DEF Settled
<1> QED BY <1>1 DEF TasksOK, TaskInv

(* The target of an operation whose move is proved.                        *)
LEMMA ProvedTarget ==
  ASSUME IInv, NEW k \in Keys, Proved(op[k])
  PROVE  op[k].target \in Folders
<1>1. OpInv(op[k])
  BY DEF IInv
<1> QED BY <1>1, Names DEF OpInv, Proved, Operations
-----------------------------------------------------------------------------
(* Steps that leave our file, its marker and what the row says of them.    *)

OursStay ==
  /\ row'.path = row.path /\ history \subseteq history'
  /\ \A g \in Folders : /\ (file'[g] = "ours") = (file[g] = "ours")
                        /\ (marker'[g] = "ours") = (marker[g] = "ours")

RecordStays == \A f \in Folders : OnRecord(f) => OnRecord(f)'

LEMMA ArrivedStays ==
  ASSUME OursStay, NEW f \in Folders, Arrived(f)
  PROVE  Arrived(f)'
BY DEF OursStay, Settled, Arrived

LEMMA TaskStays ==
  ASSUME IInv, TasksOK, OursStay, RecordStays, NEW t \in tasks
  PROVE  TaskInv(t)'
<1>1. TaskInv(t) /\ t.to \in Folders /\ row.path \in Folders
  BY Typed DEF TasksOK
<1> QED BY <1>1 DEF TaskInv, OursStay, RecordStays

LEMMA PlaceStays ==
  ASSUME MoveIsOnRecord, OursStay, RecordStays
  PROVE  MoveIsOnRecord'
<1> SUFFICES ASSUME NEW f \in Folders, file'[f] = "ours", f # row'.path
             PROVE  OnRecord(f)'
  BY DEF MoveIsOnRecord, OnRecord, Unfinished
<1>1. OnRecord(f)
  BY DEF OursStay, MoveIsOnRecord, OnRecord, Unfinished
<1> QED BY <1>1 DEF RecordStays

(* No operation changes.                                                   *)
LEMMA SameKeys ==
  ASSUME IInv, KeysOK, OursStay, op' = op
  PROVE  KeysOK' /\ RecordStays
<1>1. RecordStays
  BY DEF RecordStays, OnRecord, Unfinished
<1>2. ASSUME NEW k \in Keys, Proved(op[k]) PROVE Arrived(op[k].target)'
  <2>1. op[k].target \in Folders /\ Arrived(op[k].target)
    BY <1>2, ProvedTarget DEF KeysOK, KeyInv
  <2> QED BY <2>1 DEF Arrived, Settled, OursStay
<1> QED BY <1>1, <1>2 DEF KeysOK, KeyInv, Proved

(* One operation becomes n.                                                *)
LEMMA KeyMoves ==
  ASSUME IInv, KeysOK, OursStay, NEW k \in Keys, NEW n, op' = [op EXCEPT ![k] = n],
         Unfinished(n),
         Unfinished(op[k]) /\ op[k].target # None => n.target = op[k].target,
         Proved(n) => n.target \in Folders /\ Arrived(n.target)
  PROVE  KeysOK' /\ RecordStays
<1>1. \A j \in Keys : op'[j] = IF j = k THEN n ELSE op[j]
  BY DEF IInv, TypeOK
<1>2. RecordStays
  <2> SUFFICES ASSUME NEW f \in Folders, NEW j \in Keys, op[j].target = f, Unfinished(op[j])
               PROVE  op'[j].target = f /\ Unfinished(op'[j])
    BY DEF RecordStays, OnRecord, Unfinished
  <2> QED BY <1>1, Names
<1>3. ASSUME NEW j \in Keys, Proved(op'[j]) PROVE Arrived(op[j].target)'
  <2>1. op'[j].target \in Folders /\ Arrived(op'[j].target)
    <3>1. CASE j = k
      BY <1>1, <1>3, <3>1
    <3>2. CASE j # k
      BY <1>1, <1>3, <3>2, ProvedTarget DEF KeysOK, KeyInv
    <3> QED BY <3>1, <3>2
  <2> QED BY <2>1 DEF Arrived, Settled, OursStay
<1> QED BY <1>2, <1>3 DEF KeysOK, KeyInv, Proved

(* A request that runs makes its step and comes to another.                *)
LEMMA RunGoes ==
  ASSUME Before, NEW p \in Requests, pc[p] # "idle",
         \A q \in Requests \ {p} : pc'[q] = pc[q],
         RunInv(p)'
  PROVE  RunsOK'
<1> SUFFICES ASSUME NEW q \in Requests, q # p PROVE RunInv(q)'
  BY DEF RunsOK
<1>1. pc'[q] = "idle"
  BY Alone DEF Before
<1> QED BY <1>1 DEF RunInv
-----------------------------------------------------------------------------
(* The building blocks of the requests.                                    *)

Quiet == UNCHANGED <<file, marker, tasks, history>>

LEMMA RowStays ==
  ASSUME UNCHANGED <<file, marker, history>>, ClearLease \/ row' = row, IInv
  PROVE  OursStay
<1>1. row \in Rows
  BY DEF IInv, TypeOK
<1>2. row'.path = row.path
  BY <1>1 DEF ClearLease, Rows
<1> QED BY <1>2 DEF OursStay

LEMMA Together ==
  ASSUME Before, OursStay, RecordStays, KeysOK', tasks' \subseteq tasks, RunsOK'
  PROVE  MoveInv'
BY TaskStays, PlaceStays DEF Before, MoveInv, TasksOK

LEMMA OverRuns ==
  ASSUME Before, NEW p \in Requests, pc[p] # "idle", Over(p)
  PROVE  RunsOK'
<1>1. pc'[p] = "idle" /\ \A q \in Requests \ {p} : pc'[q] = pc[q]
  BY Typed DEF Over, Goto, Processes, Before
<1>2. RunInv(p)'
  BY <1>1 DEF RunInv
<1> QED BY <1>1, <1>2, RunGoes

LEMMA FailMoves ==
  ASSUME Before, NEW p \in Requests, pc[p] # "idle", Fail(p), Quiet
  PROVE  MoveInv'
<1> DEFINE k == job[p]
           n == [op[k] EXCEPT !.status = "failed"]
<1>1. k \in Keys /\ op[k] \in Operations
  BY Running, Typed DEF Before
<1>2. OursStay /\ tasks' \subseteq tasks /\ IInv /\ KeysOK /\ KeyInv(op[k])
  BY <1>1, RowStays DEF Fail, Quiet, Before, MoveInv, KeysOK
<1>3. op' = [op EXCEPT ![k] = n]
  BY <1>1, Typed DEF Fail, Before, IInv, TypeOK
<1>4. /\ n.status = "failed"
      /\ n.target = op[k].target /\ n.url = op[k].url
  BY <1>1 DEF Operations
<1>5. Proved(n) => Proved(op[k])
  BY <1>4 DEF Proved
<1>6. Proved(n) => n.target \in Folders /\ Arrived(n.target)
  BY <1>1, <1>2, <1>4, <1>5, ProvedTarget DEF KeyInv
<1> HIDE DEF n
<1>7. Unfinished(n)
  BY <1>4 DEF Unfinished
<1>8. KeysOK' /\ RecordStays
  BY <1>1, <1>2, <1>3, <1>4, <1>6, <1>7, KeyMoves
<1>9. RunsOK'
  BY OverRuns DEF Fail
<1> QED BY <1>2, <1>8, <1>9, Together

LEMMA GiveUpMoves ==
  ASSUME Before, NEW p \in Requests, pc[p] # "idle", GiveUp(p), Quiet
  PROVE  MoveInv'
<1>1. OursStay /\ IInv /\ KeysOK /\ tasks' \subseteq tasks /\ op' = op
  BY RowStays DEF Before, GiveUp, Quiet, MoveInv
<1>2. RunsOK'
  BY OverRuns DEF GiveUp
<1> QED BY <1>1, <1>2, SameKeys, Together

(* The copies of a request that goes on, and nothing else is disturbed.    *)
LEMMA GoesOn ==
  ASSUME Before, NEW p \in Requests, pc[p] # "idle", NEW step, Goto(p, step),
         job' = job, row' = row, mem'[p].row = mem[p].row,
         op'[job[p]].status # "completed",
         StepInv(step, Target(p))'
  PROVE  RunsOK'
<1>1. pc'[p] = step /\ \A q \in Requests \ {p} : pc'[q] = pc[q]
  BY Typed DEF Goto, Processes, Before
<1>2. RunInv(p)
  BY DEF Before, MoveInv, RunsOK
<1>3. RunInv(p)'
  BY <1>1, <1>2 DEF RunInv
<1> QED BY <1>1, <1>3, RunGoes

LEMMA ContinueMoves ==
  ASSUME Before, NEW p \in Requests, pc[p] # "idle", NEW step, Continue(p, step), Quiet,
         StepInv(step, Target(p))
  PROVE  MoveInv'
<1>1. OursStay /\ IInv /\ KeysOK /\ tasks' \subseteq tasks /\ op' = op
  BY RowStays DEF Before, Continue, Quiet, MoveInv
<1>2. StepInv(step, Target(p))'
  BY DEF Continue, Quiet, StepInv, Later, Target, Settled, Arrived, NoMarkerTask
<1>3. op[job[p]].status # "completed"
  BY DEF Before, MoveInv, RunsOK, RunInv
<1>4. RunsOK'
  BY <1>2, <1>3, GoesOn DEF Continue
<1> QED BY <1>1, <1>4, SameKeys, Together

(* The commit of a phase, after the move.                                  *)
LEMMA PhaseMoves ==
  ASSUME Before, NEW p \in Requests, pc[p] \notin {"idle", "checkpoint", "reject"},
         NEW o \in Operations, NEW step, Phase(p, o, step), Quiet,
         o.status \in {"moved", "linked", "notion_updated"}, o.target = Target(p),
         Arrived(Target(p)),
         step \in {"find", "write_card", "finish"}
  PROVE  MoveInv'
<1> DEFINE k == job[p]
           n == [op[k] EXCEPT !.status = o.status, !.url = IF o.url = None THEN @ ELSE o.url]
<1>1. /\ k \in Keys /\ op[k] \in Operations /\ p \in Processes /\ IInv
      /\ Target(p) \in Folders /\ op[k].target = Target(p)
  BY Running, Typed DEF Before
<1>2. OursStay /\ tasks' \subseteq tasks /\ KeysOK /\ row' = row /\ job' = job
  BY <1>1, RowStays DEF Phase, Quiet, Before, MoveInv
<1>3. op' = [op EXCEPT ![k] = n]
  <2>1. op \in [Keys -> Operations]
    BY <1>1 DEF IInv, TypeOK
  <2> QED BY <1>1, <2>1 DEF Phase, Operations
<1>4. n.status = o.status /\ n.target = Target(p)
  BY <1>1 DEF Operations
<1> HIDE DEF n
<1>5. Unfinished(n)
  BY <1>4 DEF Unfinished
<1>6. KeysOK' /\ RecordStays
  BY <1>1, <1>2, <1>3, <1>4, <1>5, KeyMoves
<1>7. op'[k] = n
  BY <1>1, <1>3, Typed DEF IInv, TypeOK
<1>8. mem'[p].op = o /\ mem'[p].row = mem[p].row
  BY <1>1, Typed DEF Phase
<1>9. StepInv(step, Target(p))'
  BY <1>8, <1>2 DEF StepInv, Later, Quiet, Settled, Arrived, Target
<1>10. RunsOK'
  BY <1>2, <1>4, <1>7, <1>8, <1>9, GoesOn DEF Phase
<1> QED BY <1>2, <1>6, <1>10, Together
-----------------------------------------------------------------------------
(* One lemma for each step of a request.                                   *)

LEMMA RejectMoves ==
  ASSUME Before, NEW p \in Requests, Reject(p)
  PROVE  MoveInv'
BY FailMoves DEF Reject, Quiet, storage

LEMMA CheckpointMoves ==
  ASSUME Before, NEW p \in Requests, Checkpoint(p)
  PROVE  MoveInv'
<1> DEFINE k == job[p]
           n == IF mem[p].op.target = None THEN [op[k] EXCEPT !.target = mem[p].op.dest]
                ELSE op[k]
<1>1. /\ k \in Keys /\ op[k] \in Operations /\ p \in Processes /\ IInv /\ KeysOK
      /\ OpInv(op[k]) /\ OpInv(mem[p].op) /\ Grows(mem[p].op, op[k]) /\ KeyInv(op[k])
      /\ op[k].status \notin {"absent", "completed"} /\ Quiet /\ row' = row /\ job' = job
  BY Running, Typed DEF Before, Checkpoint, MoveInv, KeysOK, RunsOK, RunInv, Quiet, storage
<1>2. OursStay /\ tasks' \subseteq tasks
  BY <1>1, RowStays DEF Quiet
<1>3. op' = [op EXCEPT ![k] = n]
  <2>1. op \in [Keys -> Operations]
    BY <1>1 DEF IInv, TypeOK
  <2> QED BY <1>1, <2>1 DEF Checkpoint
<1>4. /\ n.status = op[k].status /\ n.url = op[k].url
      /\ n.target = IF mem[p].op.target = None THEN op[k].dest ELSE op[k].target
  BY <1>1 DEF Operations, Grows
<1> HIDE DEF n
<1>5. op[k].target # None => n.target = op[k].target
  BY <1>1, <1>4 DEF OpInv
<1>6. Proved(n) => n.target \in Folders /\ Arrived(n.target)
  <2> SUFFICES ASSUME Proved(n) PROVE n.target \in Folders /\ Arrived(n.target)
    OBVIOUS
  <2>1. Proved(op[k])
    BY <1>4 DEF Proved
  <2>2. op[k].target \in Folders
    BY <1>1, <2>1, ProvedTarget
  <2> QED BY <1>1, <1>4, <1>5, <2>1, <2>2, Names DEF KeyInv
<1>7. KeysOK' /\ RecordStays
  BY <1>1, <1>2, <1>3, <1>4, <1>5, <1>6, KeyMoves DEF Unfinished
<1>8. op'[k] = n
  BY <1>1, <1>3, Typed DEF IInv, TypeOK
<1>9. mem'[p].row = mem[p].row /\ pc[p] # "idle"
  BY <1>1, Typed DEF Checkpoint
<1>10. Goto(p, "probe") /\ StepInv("probe", Target(p))'
  BY DEF Checkpoint, StepInv, Later
<1>11. RunsOK'
  BY <1>1, <1>4, <1>8, <1>9, <1>10, GoesOn
<1> QED BY <1>2, <1>7, <1>11, Together

LEMMA ProbeMoves ==
  ASSUME Before, NEW p \in Requests, Probe(p)
  PROVE  MoveInv'
<1> DEFINE o == [mem[p].op EXCEPT !.status = "moved"]
<1>1. Quiet /\ pc[p] = "probe" /\ RunInv(p)
  BY DEF Probe, Quiet, storage, Before, MoveInv, RunsOK
<1>2. /\ Target(p) \in Folders /\ p \in Processes /\ mem[p].op \in Operations
      /\ Source(p) = row.path
  BY <1>1, Running DEF Before, OpInv, RunInv, Source
<1>3. o \in Operations /\ o.status = "moved" /\ o.target = Target(p)
  BY <1>2 DEF Operations, Phases, Target
<1> HIDE DEF o
<1>4. CASE Fail(p)
  BY <1>1, <1>4, FailMoves
<1>5. CASE Continue(p, "inspect")
  <2>1. StepInv("inspect", Target(p))
    BY DEF StepInv, Later
  <2> QED BY <1>1, <1>5, <2>1, ContinueMoves
<1>6. CASE /\ Phase(p, o, "find")
           /\ file[Target(p)] = "ours" /\ marker[Target(p)] = "ours"
           /\ file[Source(p)] = "nobody"
  <2>1. Arrived(Target(p))
    BY <1>2, <1>6 DEF Settled, Arrived
  <2> QED BY <1>1, <1>3, <1>6, <2>1, PhaseMoves
<1> QED BY <1>4, <1>5, <1>6 DEF Probe, o

LEMMA InspectMoves ==
  ASSUME Before, NEW p \in Requests, Inspect(p)
  PROVE  MoveInv'
<1>1. Quiet /\ pc[p] = "inspect" /\ RunInv(p)
  BY DEF Inspect, Quiet, storage, Before, MoveInv, RunsOK
<1>2. Source(p) = row.path /\ Target(p) \in Folders /\ row.path \in Folders
  BY <1>1, Running, Typed DEF Before, RunInv, Source
<1>3. CASE Fail(p)
  BY <1>1, <1>3, FailMoves
<1>4. CASE /\ Continue(p, "move_file") /\ file[Target(p)] = "nobody"
           /\ file[Source(p)] = "ours" /\ marker[Source(p)] = "ours"
  <2>1. \A t \in tasks : t.item # "marker"
    BY <1>2, <1>4, OnePlace, Typed DEF Before, MoveInv, TasksOK, TaskInv
  <2>2. StepInv("move_file", Target(p))
    BY <1>2, <1>4, <2>1 DEF StepInv, Later, NoMarkerTask
  <2> QED BY <1>1, <1>4, <2>2, ContinueMoves
<1> QED BY <1>3, <1>4 DEF Inspect

(* A new task begins where the row says.                                   *)
LEMMA NewTaskMoves ==
  ASSUME Before, NEW p \in Requests, pc[p] # "idle", NEW item, NEW step,
         tasks' = tasks \cup {Task(p, item)}, Continue(p, step),
         UNCHANGED <<file, marker, history>>,
         TaskInv(Task(p, item)),
         StepInv(step, Target(p))'
  PROVE  MoveInv'
<1>1. OursStay /\ IInv /\ KeysOK /\ op' = op
  BY RowStays DEF Before, Continue, MoveInv
<1>2. KeysOK' /\ RecordStays
  BY <1>1, SameKeys
<1>3. op[job[p]].status # "completed"
  BY DEF Before, MoveInv, RunsOK, RunInv
<1>4. RunsOK'
  BY <1>3, GoesOn DEF Continue
<1>5. TaskInv(Task(p, item))'
  BY <1>1 DEF Task, TaskInv, Source, Target, Continue, OnRecord, Unfinished
<1>6. TasksOK'
  <2> SUFFICES ASSUME NEW t \in tasks' PROVE TaskInv(t)'
    BY DEF TasksOK
  <2>1. CASE t \in tasks
    BY <2>1, <1>1, <1>2, TaskStays DEF Before, MoveInv
  <2>2. CASE t = Task(p, item)
    <3>1. TaskInv(t)
      BY <2>2
    <3>2. UNCHANGED <<row, file, marker, op>>
      BY DEF Continue
    <3> QED BY <3>1, <3>2 DEF TaskInv, OnRecord, Unfinished
  <2> QED BY <2>1, <2>2
<1> QED BY <1>1, <1>2, <1>4, <1>6, PlaceStays DEF Before, MoveInv

LEMMA MoveFileMoves ==
  ASSUME Before, NEW p \in Requests, MoveFile(p)
  PROVE  MoveInv'
<1>1. /\ UNCHANGED <<file, marker, history>> /\ pc[p] = "move_file" /\ RunInv(p)
      /\ StepInv("move_file", Target(p))
  BY DEF MoveFile, Before, MoveInv, RunsOK, RunInv
<1>2. /\ Source(p) = row.path /\ Target(p) \in Folders /\ row.path \in Folders
      /\ job[p] \in Keys /\ op[job[p]].target = Target(p) /\ Unfinished(op[job[p]])
  BY <1>1, Running, Typed DEF Before, RunInv, Source, Unfinished
<1>3. CASE GiveUp(p) /\ UNCHANGED tasks
  BY <1>1, <1>3, GiveUpMoves DEF Quiet
<1>4. CASE /\ file[Source(p)] # "nobody" /\ Continue(p, "moving_file")
           /\ tasks' = tasks \cup {Task(p, "file")}
  <2>1. file[row.path] = "ours" /\ marker[row.path] = "ours" /\ Target(p) # row.path
    BY <1>1, <1>2, <1>4, Typed DEF StepInv, Later, Whose, Before
  <2>2. OnRecord(Target(p))
    BY <1>2 DEF OnRecord
  <2>3. TaskInv(Task(p, "file"))
    BY <1>2, <2>1, <2>2 DEF TaskInv, Task
  <2>4. StepInv("moving_file", Target(p))'
    <3>1. NoMarkerTask
      BY <1>1 DEF StepInv, Later
    <3>2. NoMarkerTask'
      BY <1>4, <3>1 DEF NoMarkerTask, Task
    <3>3. UNCHANGED <<row, file, marker, mem>>
      BY <1>1, <1>4 DEF Continue
    <3> QED BY <2>1, <3>2, <3>3 DEF StepInv, Later, Target
  <2> QED BY <1>1, <1>4, <2>3, <2>4, NewTaskMoves
<1> QED BY <1>3, <1>4 DEF MoveFile

LEMMA MoveMarkerMoves ==
  ASSUME Before, NEW p \in Requests, MoveMarker(p)
  PROVE  MoveInv'
<1>1. /\ UNCHANGED <<file, marker, history>> /\ pc[p] = "moving_file" /\ RunInv(p)
      /\ StepInv("moving_file", Target(p)) /\ file[Target(p)] = "ours"
  BY DEF MoveMarker, Before, MoveInv, RunsOK, RunInv
<1>2. Source(p) = row.path /\ Target(p) # row.path /\ marker[row.path] = "ours"
  BY <1>1 DEF RunInv, Source, StepInv, Later
<1>3. CASE Fail(p) /\ UNCHANGED tasks
  BY <1>1, <1>3, FailMoves DEF Quiet
<1>4. CASE GiveUp(p) /\ UNCHANGED tasks
  BY <1>1, <1>4, GiveUpMoves DEF Quiet
<1>5. CASE Continue(p, "moving_marker") /\ tasks' = tasks \cup {Task(p, "marker")}
  <2>1. TaskInv(Task(p, "marker"))
    BY <1>1, <1>2 DEF TaskInv, Task
  <2>2. StepInv("moving_marker", Target(p))'
    BY <1>1, <1>2, <1>5 DEF Continue, StepInv, Later, Target
  <2> QED BY <1>1, <1>5, <2>1, <2>2, NewTaskMoves
<1> QED BY <1>3, <1>4, <1>5 DEF MoveMarker

LEMMA ProveMoveMoves ==
  ASSUME Before, NEW p \in Requests, ProveMove(p)
  PROVE  MoveInv'
<1> DEFINE o == [mem[p].op EXCEPT !.status = "moved"]
<1>1. Quiet /\ pc[p] = "moving_marker" /\ RunInv(p)
  BY DEF ProveMove, Quiet, storage, Before, MoveInv, RunsOK
<1>2. mem[p].op \in Operations
  BY <1>1, Running DEF Before, OpInv
<1>3. o \in Operations /\ o.status = "moved" /\ o.target = Target(p)
  BY <1>2 DEF Operations, Phases, Target
<1> HIDE DEF o
<1>4. CASE Fail(p)
  BY <1>1, <1>4, FailMoves
<1>5. CASE Phase(p, o, "find") /\ marker[Target(p)] = "ours"
  <2>1. Arrived(Target(p))
    BY <1>1, <1>5 DEF Settled, Arrived, RunInv, StepInv, Later
  <2> QED BY <1>1, <1>3, <1>5, <2>1, PhaseMoves
<1> QED BY <1>4, <1>5 DEF ProveMove, o

LEMMA NotMovedMoves ==
  ASSUME Before, NEW p \in Requests, NotMoved(p)
  PROVE  MoveInv'
<1>1. Quiet /\ pc[p] # "idle" /\ (Fail(p) \/ GiveUp(p))
  BY DEF NotMoved, Quiet, storage
<1> QED BY <1>1, FailMoves, GiveUpMoves

(* The steps after the move.                                               *)
LEMMA LinkMoves ==
  ASSUME Before, NEW p \in Requests, Find(p) \/ Create(p) \/ WriteCard(p)
  PROVE  MoveInv'
<1>1. /\ Quiet /\ pc[p] \in {"find", "create", "write_card"} /\ RunInv(p)
      /\ \E step \in {"commit_link", "create", "read_card"} : Continue(p, step)
  BY DEF Find, Create, WriteCard, Quiet, storage, Before, MoveInv, RunsOK
<1>2. Arrived(Target(p))
  BY <1>1 DEF RunInv, StepInv, Later
<1>3. \A step \in {"commit_link", "create", "read_card"} : StepInv(step, Target(p))
  BY <1>2 DEF StepInv, Later
<1> QED BY <1>1, <1>3, ContinueMoves

LEMMA CommitLinkMoves ==
  ASSUME Before, NEW p \in Requests, CommitLink(p)
  PROVE  MoveInv'
<1> DEFINE o == [mem[p].op EXCEPT !.status = "linked", !.url = Target(p)]
<1>1. Quiet /\ pc[p] = "commit_link" /\ RunInv(p) /\ Phase(p, o, "write_card")
  BY DEF CommitLink, Quiet, storage, Before, MoveInv, RunsOK
<1>2. mem[p].op \in Operations /\ Target(p) \in Folders
  BY <1>1, Running DEF Before, OpInv
<1>3. o \in Operations /\ o.status = "linked" /\ o.target = Target(p)
  BY <1>2 DEF Operations, Phases, Target
<1> HIDE DEF o
<1>4. Arrived(Target(p))
  BY <1>1 DEF RunInv, StepInv, Later
<1> QED BY <1>1, <1>3, <1>4, PhaseMoves

LEMMA ReadCardMoves ==
  ASSUME Before, NEW p \in Requests, ReadCard(p)
  PROVE  MoveInv'
<1> DEFINE o == [mem[p].op EXCEPT !.status = "notion_updated"]
<1>1. Quiet /\ pc[p] = "read_card" /\ RunInv(p) /\ (Phase(p, o, "finish") \/ Fail(p))
  BY DEF ReadCard, Quiet, storage, Before, MoveInv, RunsOK
<1>2. mem[p].op \in Operations
  BY <1>1, Running DEF Before, OpInv
<1>3. o \in Operations /\ o.status = "notion_updated" /\ o.target = Target(p)
  BY <1>2 DEF Operations, Phases, Target
<1> HIDE DEF o
<1>4. Arrived(Target(p))
  BY <1>1 DEF RunInv, StepInv, Later
<1> QED BY <1>1, <1>3, <1>4, PhaseMoves, FailMoves

(* The row follows: what is settled there was proved, and no task is left. *)
LEMMA FinishMoves ==
  ASSUME Before, NEW p \in Requests, Finish(p)
  PROVE  /\ MoveInv'
         /\ Settled(Target(p)) /\ row'.path = Target(p)
         /\ row'.version = mem[p].row.version + 1
<1> DEFINE k == job[p]
           n == [op[k] EXCEPT !.status = "completed"]
<1>1. /\ UNCHANGED <<file, marker, tasks>> /\ pc[p] = "finish" /\ RunInv(p) /\ Over(p)
      /\ Target(p) \notin history /\ history' = history \cup {Target(p)}
  BY DEF Finish, storage, Before, MoveInv, RunsOK
<1>2. Target(p) \in Folders /\ k \in Keys /\ op[k] \in Operations /\ row \in Rows
  BY <1>1, Running, Typed DEF Before, IInv, TypeOK
<1>3. Settled(Target(p))
  BY <1>1 DEF RunInv, StepInv, Later, Arrived
<1>4. row'.path = Target(p) /\ row'.version = mem[p].row.version + 1
  BY <1>2 DEF Finish, Rows
<1>5. tasks' = {}
  BY <1>1, <1>2, <1>3, SettledAtRest DEF Before, MoveInv
<1>6. op' = [op EXCEPT ![k] = n] /\ n.target = op[k].target /\ op[k].target = Target(p)
  <2>1. op[k].target = Target(p)
    BY <1>1, Running DEF Before
  <2> QED BY <1>2, <2>1, Typed DEF Finish, Operations, Before, IInv, TypeOK
<1> HIDE DEF n
<1>7. ASSUME NEW j \in Keys, Proved(op'[j]) PROVE op'[j].target \in history'
  <2>1. CASE j = k
    BY <1>1, <1>2, <1>6, <2>1, Typed DEF Before, IInv, TypeOK
  <2>2. CASE j # k
    <3>1. op'[j] = op[j] /\ Arrived(op[j].target) /\ op[j].target \in Folders
      BY <1>2, <1>6, <1>7, <2>2, ProvedTarget DEF Before, IInv, TypeOK, MoveInv, KeysOK, KeyInv
    <3>2. Settled(op[j].target) => op[j].target = Target(p)
      BY <1>2, <1>3, <3>1, OnePlace DEF Settled, Before
    <3> QED BY <1>1, <3>1, <3>2 DEF Arrived
  <2> QED BY <2>1, <2>2
<1>8. KeysOK'
  BY <1>7 DEF KeysOK, KeyInv, Arrived, Proved
<1>9. MoveIsOnRecord'
  BY <1>1, <1>2, <1>3, <1>4, OnePlace DEF Before, Settled, MoveIsOnRecord
<1>10. RunsOK'
  BY <1>1, OverRuns
<1> QED BY <1>3, <1>4, <1>5, <1>8, <1>9, <1>10 DEF MoveInv, TasksOK

LEMMA ConflictMoves ==
  ASSUME Before, NEW p \in Requests, Conflict(p)
  PROVE  MoveInv'
<1>1. OursStay /\ tasks' \subseteq tasks /\ KeysOK /\ IInv /\ op' = op
  BY RowStays DEF Conflict, storage, Before, MoveInv
<1>2. RunsOK'
  BY OverRuns DEF Conflict
<1> QED BY <1>1, <1>2, SameKeys, Together

LEMMA InterruptMoves ==
  ASSUME Before, NEW p \in Requests, Interrupt(p)
  PROVE  MoveInv'
<1>1. Quiet /\ pc[p] # "idle" /\ GiveUp(p)
  BY DEF Interrupt, Quiet, storage
<1> QED BY <1>1, GiveUpMoves

LEMMA CrashMoves ==
  ASSUME Before, NEW p \in Requests, Crash(p)
  PROVE  MoveInv'
<1>1. OursStay /\ tasks' \subseteq tasks /\ KeysOK /\ IInv /\ op' = op
  BY RowStays DEF Crash, storage, Before, MoveInv
<1>2. RunsOK'
  BY OverRuns DEF Crash
<1> QED BY <1>1, <1>2, SameKeys, Together
-----------------------------------------------------------------------------
(* The steps of the others.                                                *)

(* An operation that is taken up again begins where its phase allows.      *)
LEMMA FirstStepFits ==
  ASSUME NEW o, Proved(o) => Arrived(o.target)
  PROVE  StepInv(FirstStep(o), o.target) /\ FirstStep(o) # "idle"
<1>1. FirstStep(o) \in {"checkpoint", "reject", "find", "write_card", "finish"}
  BY DEF FirstStep
<1>2. FirstStep(o) \in {"find", "write_card", "finish"} => Proved(o)
  BY DEF FirstStep, Proved
<1> QED BY <1>1, <1>2 DEF StepInv, Later

LEMMA StartMoves ==
  ASSUME Before, NEW p \in Requests, NEW k \in Keys, NEW o \in Operations, Start(p, k, o),
         \A q \in Requests : pc[q] = "idle",
         Quiet, Unfinished(o),
         Unfinished(op[k]) /\ op[k].target # None => o.target = op[k].target,
         Proved(o) => o.target \in Folders /\ Arrived(o.target)
  PROVE  MoveInv'
<1>1. IInv /\ KeysOK /\ row \in Rows
  BY Typed DEF Before, MoveInv, IInv, TypeOK
<1>2. OursStay /\ tasks' \subseteq tasks
  BY <1>1 DEF OursStay, Start, Quiet, Rows
<1>3. KeysOK' /\ RecordStays
  <2>1. op' = [op EXCEPT ![k] = o]
    BY DEF Start
  <2> QED BY <1>1, <1>2, <2>1, KeyMoves
<1>4. /\ \A q \in Requests \ {p} : pc'[q] = "idle"
      /\ pc'[p] = FirstStep(o) /\ job'[p] = k /\ op'[k] = o
      /\ mem'[p].row = row' /\ mem'[p].op = o
  BY Typed, <1>1 DEF Start, Goto, Processes, IInv, TypeOK
<1>5. StepInv(FirstStep(o), o.target)
  BY FirstStepFits
<1>6. StepInv(pc[p], Target(p))'
  BY <1>2, <1>4, <1>5 DEF StepInv, Later, Target, OursStay, Settled, Arrived, Quiet, NoMarkerTask
<1>7. RunInv(p)'
  BY <1>2, <1>4, <1>6 DEF RunInv, Unfinished, OursStay
<1>8. RunsOK'
  BY <1>4, <1>7 DEF RunsOK, RunInv
<1> QED BY <1>2, <1>3, <1>8, Together

LEMMA BeginMoves ==
  ASSUME Before, NEW p \in Requests, NEW k \in Keys, NEW d \in Folders, Begin(p, k, d)
  PROVE  MoveInv'
<1> DEFINE o == [NoOperation EXCEPT !.status = "pending", !.dest = d, !.version = row.version]
<1>1. Quiet /\ IInv /\ row.version \in Nat /\ op[k] \in Operations
  BY Typed DEF Begin, Quiet, storage, Before
<1>2. \A q \in Requests : pc[q] = "idle"
  BY NamesAssumption DEF Begin, Before, HoldsLease
<1>3. CASE op[k].status = "absent" /\ Start(p, k, o)
  <2>1. o \in Operations /\ o.status = "pending" /\ o.url = None
    BY <1>1 DEF NoOperation, Operations, Phases
  <2> HIDE DEF o
  <2>2. Unfinished(o) /\ ~Proved(o) /\ ~Unfinished(op[k])
    BY <1>3, <2>1 DEF Unfinished, Proved
  <2> QED BY <1>1, <1>2, <1>3, <2>1, <2>2, StartMoves
<1>4. CASE op[k].status \notin {"absent", "completed"} /\ Start(p, k, op[k])
  <2>1. Proved(op[k]) => op[k].target \in Folders /\ Arrived(op[k].target)
    BY <1>1, <1>4, ProvedTarget DEF Before, MoveInv, KeysOK, KeyInv
  <2> QED BY <1>1, <1>2, <1>4, <2>1, StartMoves DEF Unfinished
<1> QED BY <1>3, <1>4 DEF Begin

(* No request makes a step; one may learn that its task has failed.        *)
LEMMA TaskFailedRuns ==
  ASSUME Before, UNCHANGED <<row, op, job, mem>>,
         \A p \in Requests : pc'[p] \in {pc[p], "task_failed"},
         \A p \in Requests : pc'[p] # pc[p] => pc[p] # "idle",
         \A p \in Requests : \A step \in Steps :
           pc[p] = step /\ step # "idle" /\ StepInv(step, Target(p)) => StepInv(step, Target(p))'
  PROVE  RunsOK'
<1> SUFFICES ASSUME NEW p \in Requests, pc'[p] # "idle" PROVE RunInv(p)'
  BY DEF RunsOK, RunInv
<1>1. pc[p] # "idle" /\ RunInv(p) /\ pc[p] \in Steps
  BY Typed DEF Before, MoveInv, RunsOK, Processes
<1>2. PICK step \in Steps : step = pc[p]
  BY <1>1
<1>3. StepInv(step, Target(p))'
  BY <1>1, <1>2 DEF RunInv
<1>4. StepInv(pc[p], Target(p))'
  BY <1>2, <1>3 DEF StepInv, Later
<1> QED BY <1>1, <1>4 DEF RunInv

(* How the requests see the end of tasks.                                  *)
LEMMA EndTasksSeen ==
  ASSUME NEW done, NEW lost, NEW reported, EndTasks(done, lost, reported)
  PROVE  /\ \A p \in Requests : pc'[p] \in {pc[p], "task_failed"}
         /\ \A p \in Requests : pc'[p] # pc[p] => pc[p] # "idle"
BY DEF EndTasks, Waiting, Processes

(* The file is carried: it is on its way, and no task is left.             *)
LEMMA FileCarried ==
  ASSUME Before, NEW t \in tasks, t.item = "file", FinishTask(t), Movable(file, t)
  PROVE  MoveInv' /\ file'[t.to] = "ours" /\ file[row.path] = "ours" /\ t.to # row.path
<1> DEFINE rivals == {u \in tasks \ {t} : u.item = t.item /\ u.from = t.from}
<1>1. /\ IInv /\ NothingLost /\ TasksOK /\ KeysOK /\ TaskInv(t) /\ row.path \in Folders
      /\ t.to \in Folders /\ t.from \in Folders
  BY Typed DEF Before, MoveInv, TasksOK
<1>2. /\ t.from = row.path /\ t.to # row.path /\ file[row.path] = "ours"
      /\ marker[row.path] = "ours" /\ OnRecord(t.to)
  BY <1>1 DEF TaskInv
<1>3. \A f \in Folders : ~Settled(f)
  BY <1>1, <1>2, OnePlace DEF Settled
<1>4. ASSUME NEW u \in tasks PROVE u.item = "file" /\ u.from = t.from
  <2>1. TaskInv(u) /\ u.to \in Folders /\ u.item \in {"file", "marker"}
    BY <1>1, Typed DEF TasksOK
  <2> QED BY <1>1, <1>2, <2>1, OnePlace DEF TaskInv
<1>5. /\ file' = Carried(file, t) /\ marker' = marker /\ UNCHANGED <<row, op, job, mem, history>>
      /\ \E reported \in BOOLEAN : EndTasks({t}, rivals, reported)
  BY DEF FinishTask
<1>6. tasks' = {}
  BY <1>4, <1>5 DEF EndTasks
<1>7. \A g \in Folders : file'[g] = IF g = t.to THEN "ours"
                                    ELSE IF g = row.path THEN "nobody" ELSE file[g]
  BY <1>1, <1>2, <1>5, Typed DEF Carried
<1>8. MoveIsOnRecord'
  <2>1. \A f \in Folders : file'[f] = "ours" => f = t.to
    BY <1>1, <1>2, <1>7, OnePlace
  <2>2. OnRecord(t.to)'
    BY <1>2, <1>5 DEF OnRecord, Unfinished
  <2> QED BY <2>1, <2>2 DEF MoveIsOnRecord, OnRecord, Unfinished
<1>9. KeysOK'
  <2>1. \A k \in Keys : Proved(op[k]) => op[k].target \in history
    BY <1>1, <1>3, ProvedTarget DEF KeysOK, KeyInv, Arrived
  <2> QED BY <1>5, <2>1 DEF KeysOK, KeyInv, Proved, Arrived
<1>10. RunsOK'
  <2>1. ASSUME NEW p \in Requests, NEW step \in Steps, pc[p] = step, step # "idle",
               StepInv(step, Target(p))
        PROVE  StepInv(step, Target(p))'
    <3>1. pc[p] \notin {"checkpoint", "reject"} => Target(p) \in Folders
      BY <1>1, <2>1, Running
    <3>2. pc[p] # "moving_marker"
      BY <1>1, <1>2, <2>1, <3>1, OnePlace DEF StepInv, Later
    <3>3. pc[p] \in {"move_file", "moving_file"} =>
            /\ marker'[row'.path] = "ours" /\ file'[row'.path] # "theirs"
            /\ NoMarkerTask' /\ Target(p)' # row'.path
      BY <1>1, <1>2, <1>5, <1>6, <1>7, <2>1 DEF StepInv, Later, NoMarkerTask, Target
    <3>4. step \in Later => Target(p) \in history
      BY <1>3, <2>1, <3>1 DEF StepInv, Arrived, Later
    <3> QED BY <1>5, <2>1, <3>2, <3>3, <3>4 DEF StepInv, Arrived, Target, Later
  <2> QED BY <1>5, <2>1, EndTasksSeen, TaskFailedRuns
<1> QED BY <1>1, <1>2, <1>6, <1>7, <1>8, <1>9, <1>10 DEF MoveInv, TasksOK

(* The marker is carried after it.                                         *)
LEMMA MarkerCarried ==
  ASSUME Before, NEW t \in tasks, t.item = "marker", FinishTask(t), Movable(marker, t)
  PROVE  MoveInv' /\ file' = file /\ marker[t.from] = "ours" /\ UNCHANGED row
<1> DEFINE rivals == {u \in tasks \ {t} : u.item = t.item /\ u.from = t.from}
<1>1. /\ IInv /\ NothingLost /\ TasksOK /\ KeysOK /\ TaskInv(t) /\ row.path \in Folders
      /\ t.to \in Folders /\ t.from \in Folders
  BY Typed DEF Before, MoveInv, TasksOK
<1>2. /\ t.from = row.path /\ t.to # row.path /\ file[t.to] = "ours"
      /\ marker[row.path] = "ours"
  BY <1>1 DEF TaskInv
<1>3. \A f \in Folders : ~Settled(f)
  BY <1>1, <1>2, OnePlace DEF Settled
<1>4. ASSUME NEW u \in tasks PROVE u.item = "marker" /\ u.from = t.from
  <2>1. TaskInv(u) /\ u.to \in Folders /\ u.item \in {"file", "marker"}
    BY <1>1, Typed DEF TasksOK
  <2> QED BY <1>1, <1>2, <2>1, OnePlace DEF TaskInv
<1>5. /\ marker' = Carried(marker, t) /\ file' = file /\ UNCHANGED <<row, op, job, mem, history>>
      /\ \E reported \in BOOLEAN : EndTasks({t}, rivals, reported)
  BY DEF FinishTask
<1>6. tasks' = {}
  BY <1>4, <1>5 DEF EndTasks
<1>7. MoveIsOnRecord'
  BY <1>5 DEF MoveIsOnRecord, Before, MoveInv
<1>8. KeysOK'
  <2>1. \A k \in Keys : Proved(op[k]) => op[k].target \in history
    BY <1>1, <1>3, ProvedTarget DEF KeysOK, KeyInv, Arrived
  <2> QED BY <1>5, <2>1 DEF KeysOK, KeyInv, Proved, Arrived
<1>9. RunsOK'
  <2>1. ASSUME NEW p \in Requests, NEW step \in Steps, pc[p] = step, step # "idle",
               StepInv(step, Target(p))
        PROVE  StepInv(step, Target(p))'
    <3>1. pc[p] \notin {"checkpoint", "reject"} => Target(p) \in Folders
      BY <1>1, <2>1, Running
    <3>2. pc[p] \notin {"move_file", "moving_file"}
      BY <2>1 DEF StepInv, Later, NoMarkerTask
    <3>3. step \in Later => Target(p) \in history
      BY <1>3, <2>1, <3>1 DEF StepInv, Arrived, Later
    <3> QED BY <1>5, <2>1, <3>2, <3>3 DEF StepInv, Arrived, Target, Later
  <2> QED BY <1>5, <2>1, EndTasksSeen, TaskFailedRuns
<1> QED BY <1>1, <1>2, <1>5, <1>6, <1>7, <1>8, <1>9 DEF MoveInv, TasksOK

(* A task is refused.                                                      *)
LEMMA TaskRefused ==
  ASSUME Before, NEW t \in tasks, UNCHANGED <<file, marker, row, op, job, mem, history>>,
         NEW reported, EndTasks({}, {t}, reported)
  PROVE  MoveInv'
<1>1. OursStay /\ tasks' \subseteq tasks /\ IInv /\ KeysOK /\ op' = op
  BY RowStays DEF EndTasks, Before, MoveInv
<1>2. RunsOK'
  <2>1. ASSUME NEW p \in Requests, NEW step \in Steps, pc[p] = step, step # "idle",
               StepInv(step, Target(p))
        PROVE  StepInv(step, Target(p))'
    BY <1>1, <2>1 DEF StepInv, Later, Target, Settled, Arrived, NoMarkerTask
  <2> QED BY <2>1, EndTasksSeen, TaskFailedRuns
<1> QED BY <1>1, <1>2, SameKeys, Together

LEMMA FinishTaskMoves ==
  ASSUME Before, NEW t \in tasks, FinishTask(t)
  PROVE  MoveInv'
<1>1. t.item \in {"file", "marker"}
  BY Typed DEF Before
<1>2. CASE t.item = "file" /\ Movable(file, t)
  BY <1>2, FileCarried
<1>3. CASE t.item = "marker" /\ Movable(marker, t)
  BY <1>3, MarkerCarried
<1>4. CASE ~Movable(IF t.item = "file" THEN file ELSE marker, t)
  <2>1. UNCHANGED <<file, marker, row, op, job, mem, history>>
        /\ \E reported \in BOOLEAN : EndTasks({}, {t}, reported)
    BY <1>4 DEF FinishTask
  <2> QED BY <2>1, TaskRefused
<1> QED BY <1>1, <1>2, <1>3, <1>4

(* Another recording does not come to a folder where our marker is.        *)
LEMMA OtherRecordingMoves ==
  ASSUME Before, NEW f \in Folders, ClaimOther(f) \/ StoreOther(f)
  PROVE  MoveInv'
<1>1. /\ UNCHANGED <<row, op, pc, job, mem, tasks, history>> /\ IInv /\ KeysOK
      /\ file \in [Folders -> Whose] /\ marker \in [Folders -> Whose] /\ row.path \in Folders
  BY Typed DEF ClaimOther, StoreOther, local, Before, MoveInv
<1>2. OursStay
  BY <1>1 DEF ClaimOther, StoreOther, OursStay
<1>3. marker[row.path] = "ours" => file'[row.path] = file[row.path]
  BY <1>1 DEF ClaimOther, StoreOther
<1>4. ASSUME NEW p \in Requests PROVE RunInv(p)'
  <2> SUFFICES ASSUME pc[p] # "idle" PROVE RunInv(p)'
    BY <1>1 DEF RunInv
  <2>1. RunInv(p) /\ (pc[p] \notin {"checkpoint", "reject"} => Target(p) \in Folders)
    BY <1>1, Running DEF Before, MoveInv, RunsOK
  <2>2. StepInv(pc[p], Target(p))
    BY <2>1 DEF RunInv
  <2>3. StepInv(pc[p], Target(p))'
    BY <1>1, <1>2, <1>3, <2>1, <2>2
       DEF StepInv, OursStay, Settled, Arrived, NoMarkerTask, Target, Later
  <2> QED BY <1>1, <2>1, <2>3 DEF RunInv
<1>5. RunsOK'
  BY <1>4 DEF RunsOK
<1> QED BY <1>1, <1>2, <1>5, SameKeys, Together

(* Steps that are not about the file: neither do confirmations touch it.   *)
LEMMA AsideMoves ==
  ASSUME Before, UNCHANGED <<op, file, marker, tasks, history>>, row'.path = row.path,
         \A p \in Requests : pc'[p] = pc[p] /\ job'[p] = job[p] /\ mem'[p] = mem[p]
  PROVE  MoveInv'
<1>1. OursStay /\ tasks' \subseteq tasks /\ IInv /\ KeysOK
  BY DEF OursStay, Before, MoveInv
<1>2. RunsOK'
  BY DEF Before, MoveInv, RunsOK, RunInv, StepInv, Later, Settled, Arrived, NoMarkerTask, Target
<1> QED BY <1>1, <1>2, SameKeys, Together

LEMMA ConfirmMoves ==
  ASSUME Before, NEW c \in Confirmers,
         ConfirmStep(c) \/ \E q \in Proposals : BeginConfirm(c, q)
  PROVE  MoveInv'
<1>1. \A p \in Requests : p # c /\ p \in Processes
  BY Names DEF Processes
<1>2. \A step : Goto(c, step) => \A p \in Requests : pc'[p] = pc[p]
  BY <1>1, Typed DEF Goto, Before
<1>3. Abandon(c) => \A p \in Requests : pc'[p] = pc[p] /\ job'[p] = job[p] /\ mem'[p] = mem[p]
  BY <1>1, <1>2 DEF Abandon, Over, Before, IInv, TypeOK
<1>4. \A p \in Requests : pc'[p] = pc[p] /\ job'[p] = job[p] /\ mem'[p] = mem[p]
  <2>1. CASE Compare(c) \/ WriteTarget(c) \/ VerifyTarget(c) \/ Clear(c)
    BY <1>2, <1>3, <2>1 DEF Compare, WriteTarget, VerifyTarget, Clear
  <2>2. CASE CommitPage(c)
    BY <1>3, <2>2 DEF CommitPage
  <2>3. CASE \E q \in Proposals : BeginConfirm(c, q)
    BY <1>1, <1>2, <2>3 DEF BeginConfirm, Before, IInv, TypeOK
  <2> QED BY <2>1, <2>2, <2>3 DEF ConfirmStep
<1>5. UNCHANGED <<op, file, marker, tasks, history>>
  <2>1. CASE Compare(c) \/ WriteTarget(c) \/ VerifyTarget(c)
    BY <2>1 DEF Compare, WriteTarget, VerifyTarget, storage
  <2>2. CASE Clear(c) \/ CommitPage(c) \/ \E q \in Proposals : BeginConfirm(c, q)
    BY <2>2 DEF Clear, CommitPage, BeginConfirm, storage
  <2> QED BY <2>1, <2>2 DEF ConfirmStep
<1>6. row'.path = row.path
  <2>1. CASE CommitPage(c)
    BY <2>1 DEF CommitPage, Before, IInv, TypeOK, Rows
  <2>2. CASE ~CommitPage(c)
    BY <2>2 DEF ConfirmStep, Compare, WriteTarget, VerifyTarget, Clear, BeginConfirm
  <2> QED BY <2>1, <2>2
<1> QED BY <1>4, <1>5, <1>6, AsideMoves

(* The death of a confirmation.                                            *)
LEMMA ConfirmDies ==
  ASSUME Before, NEW c \in Confirmers, Crash(c)
  PROVE  MoveInv'
<1>1. \A p \in Requests : p # c /\ p \in Processes
  BY Names DEF Processes
<1>2. \A p \in Requests : pc'[p] = pc[p] /\ job'[p] = job[p] /\ mem'[p] = mem[p]
  BY <1>1 DEF Crash, Over, Goto, Before, IInv, TypeOK
<1>3. UNCHANGED <<row, op, file, marker, tasks, history>>
  BY DEF Crash, storage
<1> QED BY <1>2, <1>3, AsideMoves
-----------------------------------------------------------------------------
(* The invariant.                                                          *)

LEMMA StepMoves ==
  ASSUME Before, NEW p \in Requests, RequestStep(p)
  PROVE  MoveInv'
<1>1. CASE Reject(p) \/ Checkpoint(p) \/ Probe(p) \/ Inspect(p)
  BY <1>1, RejectMoves, CheckpointMoves, ProbeMoves, InspectMoves
<1>2. CASE MoveFile(p) \/ MoveMarker(p) \/ ProveMove(p) \/ NotMoved(p)
  BY <1>2, MoveFileMoves, MoveMarkerMoves, ProveMoveMoves, NotMovedMoves
<1>3. CASE Find(p) \/ Create(p) \/ CommitLink(p) \/ WriteCard(p) \/ ReadCard(p)
  BY <1>3, LinkMoves, CommitLinkMoves, ReadCardMoves
<1>4. CASE Finish(p) \/ Conflict(p)
  BY <1>4, FinishMoves, ConflictMoves
<1> QED BY <1>1, <1>2, <1>3, <1>4 DEF RequestStep

LEMMA NextMoves ==
  ASSUME Before, [Next]_vars
  PROVE  MoveInv'
<1>1. ASSUME NEW p \in Requests, NEW k \in Keys, NEW d \in Folders, Begin(p, k, d)
      PROVE  MoveInv'
  BY <1>1, BeginMoves
<1>2. ASSUME NEW p \in Requests, RequestStep(p) \/ Interrupt(p) \/ Crash(p)
      PROVE  MoveInv'
  BY <1>2, StepMoves, InterruptMoves, CrashMoves
<1>3. ASSUME NEW t \in tasks, FinishTask(t)
      PROVE  MoveInv'
  BY <1>3, FinishTaskMoves
<1>4. ASSUME NEW f \in Shared, ClaimOther(f) \/ StoreOther(f)
      PROVE  MoveInv'
  BY <1>4, HomeAssumption, OtherRecordingMoves
<1>5. CASE \/ \E q \in Proposals : ExpireProposal(q) \/ \E g \in Pages : Propose(q, g)
           \/ \E g \in Pages : EditCard(g)
           \/ ExpireLease
           \/ UNCHANGED vars
  <2>1. /\ UNCHANGED <<op, pc, job, mem, file, marker, tasks, history>>
        /\ row' = row \/ row' = [row EXCEPT !.expired = TRUE]
    BY <1>5 DEF ExpireProposal, Propose, EditCard, ExpireLease, vars, local, storage
  <2>2. row'.path = row.path
    BY <2>1 DEF Before, IInv, TypeOK, Rows
  <2> QED BY <2>1, <2>2, AsideMoves
<1>6. ASSUME NEW c \in Confirmers,
             ConfirmStep(c) \/ Crash(c) \/ \E q \in Proposals : BeginConfirm(c, q)
      PROVE  MoveInv'
  BY <1>6, ConfirmMoves, ConfirmDies
<1> QED BY <1>1, <1>2, <1>3, <1>4, <1>5, <1>6 DEF Next, Processes

LEMMA InitMoves == Init => MoveInv
<1> SUFFICES ASSUME Init PROVE MoveInv
  OBVIOUS
<1>1. TasksOK
  BY DEF Init, TasksOK
<1>2. KeysOK
  BY DEF Init, KeysOK, KeyInv, Proved, NoOperation
<1>3. RunsOK
  BY DEF Init, RunsOK, RunInv, Processes
<1>4. MoveIsOnRecord
  BY DEF Init, MoveIsOnRecord, StoredFiles, FirstRow
<1> QED BY <1>1, <1>2, <1>3, <1>4 DEF MoveInv

LEMMA BeforeHolds ==
  ASSUME SlowRequests = FALSE
  PROVE  /\ Init => Before
         /\ Before /\ [Next]_vars => Before'
<1>1. Init => HoldsLease
  BY DEF Init, HoldsLease, Processes
<1>2. IInv => TypeOK
  BY DEF IInv
<1>3. Init => Before
  BY <1>1, InitOK, InitKeepsOne, InitMoves DEF Before
<1>4. ASSUME Before, [Next]_vars PROVE Before'
  <2>1. IInv /\ HoldsLease /\ NothingLost
    BY <1>4 DEF Before
  <2>2. IInv' /\ HoldsLease' /\ NothingLost'
    BY <1>2, <1>4, <2>1, NextOK, NextHoldsLease, NextKeepsOne
  <2>3. MoveInv'
    BY <1>4, NextMoves
  <2> QED BY <2>2, <2>3 DEF Before
<1> QED BY <1>3, <1>4

(* A file away from the folder the row names is in the target of an        *)
(* unfinished operation, however many requests failed or died and whatever *)
(* tasks the NAS carries out after them (the checkpoint of                 *)
(* reroute.py:130-133 comes before the move).                              *)
THEOREM MovesAreOnRecord ==
  ASSUME SlowRequests = FALSE
  PROVE  Spec => []MoveIsOnRecord
<1>1. Before => MoveIsOnRecord
  BY DEF Before, MoveInv
<1> QED BY <1>1, BeforeHolds, PTL DEF Spec
-----------------------------------------------------------------------------
(* What a step may not do.                                                 *)

(* A step of a request without its end keeps the path, and the versions of *)
(* the row and of its copy.                                                *)
Keeps(p) ==
  /\ row'.path = row.path /\ row'.version = row.version
  /\ Over(p) \/ (mem'[p].row = mem[p].row /\ \A q \in Requests \ {p} : pc'[q] = pc[q])

LEMMA StepKeeps ==
  ASSUME IInv, NEW p \in Requests, RequestStep(p) \/ Interrupt(p) \/ Crash(p)
  PROVE  Keeps(p) \/ Finish(p)
<1>1. row \in Rows /\ p \in Processes
  BY DEF IInv, TypeOK, Processes
<1>2. ClearLease \/ row' = row => row'.path = row.path /\ row'.version = row.version
  BY <1>1 DEF ClearLease, Rows
<1>3. Fail(p) \/ GiveUp(p) \/ (Over(p) /\ row' = row) => Keeps(p)
  BY <1>2 DEF Fail, GiveUp, Keeps
<1>4. ASSUME NEW step, Goto(p, step) PROVE \A q \in Requests \ {p} : pc'[q] = pc[q]
  BY <1>4, Typed DEF Goto, Processes
<1>5. ASSUME NEW step, Continue(p, step) PROVE Keeps(p)
  BY <1>2, <1>4, <1>5 DEF Continue, Keeps
<1>6. ASSUME NEW o, NEW step, Phase(p, o, step) PROVE Keeps(p)
  <2>1. mem'[p].row = mem[p].row
    BY <1>1, <1>6, Typed DEF Phase
  <2> QED BY <1>2, <1>4, <1>6, <2>1 DEF Phase, Keeps
<1>7. CASE Reject(p) \/ Conflict(p) \/ NotMoved(p) \/ Interrupt(p) \/ Crash(p)
  BY <1>3, <1>7 DEF Reject, Conflict, NotMoved, Interrupt, Crash
<1>8. CASE Checkpoint(p)
  <2>1. mem'[p].row = mem[p].row
    BY <1>1, <1>8, Typed DEF Checkpoint
  <2> QED BY <1>2, <1>4, <1>8, <2>1 DEF Checkpoint, Keeps
<1>9. CASE Probe(p) \/ Inspect(p) \/ MoveFile(p) \/ MoveMarker(p) \/ ProveMove(p)
  BY <1>3, <1>5, <1>6, <1>9 DEF Probe, Inspect, MoveFile, MoveMarker, ProveMove
<1>10. CASE Find(p) \/ Create(p) \/ CommitLink(p) \/ WriteCard(p) \/ ReadCard(p)
  BY <1>3, <1>5, <1>6, <1>10 DEF Find, Create, CommitLink, WriteCard, ReadCard
<1> QED BY <1>7, <1>8, <1>9, <1>10 DEF RequestStep

(* Steps that are not a request's.                                         *)
LEMMA OthersKeep ==
  ASSUME IInv,
         \/ \E t \in tasks : FinishTask(t)
         \/ \E f \in Shared : ClaimOther(f) \/ StoreOther(f)
         \/ \E q \in Proposals : ExpireProposal(q) \/ \E g \in Pages : Propose(q, g)
         \/ \E g \in Pages : EditCard(g)
         \/ ExpireLease
         \/ UNCHANGED vars
  PROVE  /\ row'.path = row.path /\ row'.version = row.version /\ mem' = mem
         /\ \A p \in Requests : pc[p] = "idle" => pc'[p] = "idle"
<1>1. row \in Rows
  BY DEF IInv, TypeOK
<1>2. CASE \E t \in tasks : FinishTask(t)
  BY <1>2, EndTasksSeen DEF FinishTask
<1>3. CASE ~ \E t \in tasks : FinishTask(t)
  <2>1. UNCHANGED <<pc, mem>> /\ (row' = row \/ row' = [row EXCEPT !.expired = TRUE])
    BY <1>3 DEF ClaimOther, StoreOther, ExpireProposal, Propose, EditCard, ExpireLease, vars,
       local
  <2> QED BY <1>1, <2>1 DEF Rows
<1> QED BY <1>2, <1>3

(* Only the end of a request changes the path.                             *)
LEMMA PathFollows ==
  ASSUME IInv, [Next]_vars
  PROVE  row'.path = row.path \/ \E p \in Requests : Finish(p)
<1>1. row \in Rows
  BY DEF IInv, TypeOK
<1>2. ASSUME NEW p \in Requests, NEW k \in Keys, NEW d \in Folders, Begin(p, k, d)
      PROVE  row'.path = row.path
  BY <1>1, <1>2 DEF Begin, Start, Rows
<1>3. ASSUME NEW c \in Confirmers,
             ConfirmStep(c) \/ Crash(c) \/ \E q \in Proposals : BeginConfirm(c, q)
      PROVE  row'.path = row.path
  <2>1. CASE CommitPage(c)
    BY <1>1, <2>1 DEF CommitPage, Rows
  <2>2. CASE ~CommitPage(c)
    BY <1>3, <2>2 DEF ConfirmStep, Compare, WriteTarget, VerifyTarget, Clear, BeginConfirm, Crash
  <2> QED BY <2>1, <2>2
<1> QED BY <1>2, <1>3, StepKeeps, OthersKeep DEF Next, Processes, Keeps

(* A file or marker of another recording that is stored meanwhile, also in *)
(* the folder the recording has just left, is neither replaced nor carried *)
(* away by a task of a request that is long over                           *)
(* (synology.py:640-643, 664, 704).                                        *)
THEOREM OthersAreUntouched ==
  ASSUME SlowRequests = FALSE
  PROVE  Spec => OthersUntouched
<1> DEFINE A == \A f \in Folders :
                  /\ file[f] = "theirs" => file'[f] = "theirs"
                  /\ marker[f] = "theirs" => marker'[f] = "theirs"
<1>1. Before /\ [Next]_vars => [A]_vars
  <2> SUFFICES ASSUME Before, [Next]_vars PROVE A
    OBVIOUS
  <2>1. /\ IInv /\ file \in [Folders -> Whose] /\ marker \in [Folders -> Whose]
        /\ \A t \in tasks : TaskInv(t) /\ t.from \in Folders /\ t.to \in Folders
    BY Typed DEF Before, MoveInv, TasksOK
  <2>2. CASE UNCHANGED <<file, marker>>
    BY <2>2
  <2>3. ASSUME NEW t \in tasks, FinishTask(t) PROVE A
    <3>1. TaskInv(t) /\ t.item \in {"file", "marker"}
      BY <2>1, Typed
    <3>2. \/ UNCHANGED <<file, marker>>
          \/ file' = Carried(file, t) /\ marker' = marker /\ Movable(file, t) /\ t.item = "file"
          \/ marker' = Carried(marker, t) /\ file' = file /\ Movable(marker, t)
      BY <2>3, <3>1 DEF FinishTask
    <3> QED BY <2>1, <3>1, <3>2 DEF TaskInv, Carried, Movable
  <2>4. ASSUME NEW f \in Folders, ClaimOther(f) \/ StoreOther(f) PROVE A
    BY <2>1, <2>4 DEF ClaimOther, StoreOther
  <2> QED BY <2>1, <2>2, <2>3, <2>4, StorageStays
<1>2. [][A]_vars => OthersUntouched
  BY PTL DEF OthersUntouched
<1> HIDE DEF A
<1> QED BY <1>1, <1>2, BeforeHolds, PTL DEF Spec
-----------------------------------------------------------------------------
(* The switch of the artifact, also by requests that outlive their lease.  *)

(* The file and its marker are in f, or have been there when the row       *)
(* followed; the file alone.                                               *)
There(f)     == f \in history \/ (file[f] = "ours" /\ marker[f] = "ours")
FileThere(f) == f \in history \/ file[f] = "ours"

(* Whatever a stale copy names as its source the row has named before, so  *)
(* that no task leaves a folder the row never named: what has arrived in a *)
(* new folder stays there until the row has followed.                      *)
SourcesInv ==
  /\ Home \in history /\ row.path \in history
  /\ \A p \in Processes : Source(p) \in history
  /\ \A t \in tasks : t.from \in history

ArrivalsInv ==
  /\ \A k \in Keys : Proved(op[k]) => There(op[k].target)
  /\ \A p \in Requests : /\ pc[p] \in Later => There(Target(p))
                         /\ pc[p] = "moving_marker" => FileThere(Target(p))

SwitchInv == SourcesInv /\ ArrivalsInv

(* The same after the step.                                                *)
ThereThen(f) == f \in history' \/ (file'[f] = "ours" /\ marker'[f] = "ours")
FileThen(f)  == f \in history' \/ file'[f] = "ours"

ArrivalsStay ==
  /\ history \subseteq history'
  /\ \A f \in Folders : (There(f) => ThereThen(f)) /\ (FileThere(f) => FileThen(f))

(* Only the end of a request adds to the history.                          *)
LEMMA HistoryGrows ==
  ASSUME [Next]_vars
  PROVE  history \subseteq history'
<1>1. ASSUME NEW p \in Requests, RequestStep(p) PROVE history \subseteq history'
  <2>1. CASE Reject(p) \/ Checkpoint(p) \/ Probe(p) \/ Inspect(p)
    BY <2>1 DEF Reject, Checkpoint, Probe, Inspect
  <2>2. CASE MoveFile(p) \/ MoveMarker(p) \/ ProveMove(p) \/ NotMoved(p)
    BY <2>2 DEF MoveFile, MoveMarker, ProveMove, NotMoved
  <2>3. CASE Find(p) \/ Create(p) \/ CommitLink(p) \/ WriteCard(p) \/ ReadCard(p)
    BY <2>3 DEF Find, Create, CommitLink, WriteCard, ReadCard
  <2>4. CASE Finish(p) \/ Conflict(p)
    BY <2>4 DEF Finish, Conflict
  <2> QED BY <1>1, <2>1, <2>2, <2>3, <2>4 DEF RequestStep
<1>2. ASSUME NEW c \in Confirmers, ConfirmStep(c) \/ \E q \in Proposals : BeginConfirm(c, q)
      PROVE  history \subseteq history'
  BY <1>2 DEF ConfirmStep, Compare, WriteTarget, VerifyTarget, Clear, CommitPage, BeginConfirm
<1>3. ASSUME NEW p \in Requests, NEW k \in Keys, NEW d \in Folders, Begin(p, k, d)
      PROVE  history \subseteq history'
  BY <1>3 DEF Begin
<1>4. ASSUME NEW p \in Processes, Interrupt(p) \/ Crash(p)
      PROVE  history \subseteq history'
  BY <1>4 DEF Interrupt, Crash
<1>5. CASE \/ \E t \in tasks : FinishTask(t)
           \/ \E f \in Shared : ClaimOther(f) \/ StoreOther(f)
  BY <1>5 DEF FinishTask, ClaimOther, StoreOther
<1>6. CASE \/ \E q \in Proposals : ExpireProposal(q) \/ \E g \in Pages : Propose(q, g)
           \/ \E g \in Pages : EditCard(g)
           \/ ExpireLease
           \/ UNCHANGED vars
  BY <1>6 DEF ExpireProposal, Propose, EditCard, ExpireLease, vars
<1> QED BY <1>1, <1>2, <1>3, <1>4, <1>5, <1>6 DEF Next, Processes

LEMMA NextArrivals ==
  ASSUME IInv, SourcesInv, [Next]_vars
  PROVE  ArrivalsStay
<1>1. /\ file \in [Folders -> Whose] /\ marker \in [Folders -> Whose]
      /\ \A t \in tasks : t.item \in {"file", "marker"} /\ t.from \in history
  BY Typed DEF SourcesInv
<1>2. ASSUME NEW f \in Folders, f \notin history
      PROVE  /\ file[f] = "ours" => file'[f] = "ours"
             /\ marker[f] = "ours" => marker'[f] = "ours"
  <2>1. CASE UNCHANGED <<file, marker>>
    BY <2>1
  <2>2. ASSUME NEW t \in tasks, FinishTask(t)
        PROVE  /\ file[f] = "ours" => file'[f] = "ours"
               /\ marker[f] = "ours" => marker'[f] = "ours"
    <3>1. \/ UNCHANGED <<file, marker>>
          \/ file' = Carried(file, t) /\ marker' = marker /\ Movable(file, t)
          \/ marker' = Carried(marker, t) /\ file' = file /\ Movable(marker, t)
      BY <1>1, <2>2 DEF FinishTask
    <3>2. f # t.from
      BY <1>1, <1>2
    <3> QED BY <1>1, <3>1, <3>2 DEF Carried, Movable
  <2>3. ASSUME NEW g \in Folders, ClaimOther(g) \/ StoreOther(g)
        PROVE  /\ file[f] = "ours" => file'[f] = "ours"
               /\ marker[f] = "ours" => marker'[f] = "ours"
    BY <1>1, <2>3 DEF ClaimOther, StoreOther
  <2> QED BY <2>1, <2>2, <2>3, StorageStays
<1>3. history \subseteq history'
  BY HistoryGrows
<1> QED BY <1>2, <1>3 DEF ArrivalsStay, There, FileThere, ThereThen, FileThen

(* A step of a request touches the copies and the operation of its own     *)
(* only, and its tasks start from the source it knows.                     *)
OwnWork(p) ==
  /\ pc[p] # "idle"
  /\ \A q \in Processes \ {p} : pc'[q] = pc[q] /\ mem'[q] = mem[q]
  /\ \A k \in Keys \ {job[p]} : op'[k] = op[k]
  /\ \A t \in tasks' : t \in tasks \/ t.from = Source(p)

LEMMA StepIsOwn ==
  ASSUME IInv, NEW p \in Requests, RequestStep(p) \/ Interrupt(p) \/ Crash(p)
  PROVE  OwnWork(p)
<1>1. pc[p] # "idle"
  BY DEF RequestStep, Reject, Checkpoint, Probe, Inspect, MoveFile, MoveMarker,
     ProveMove, NotMoved, Find, Create, CommitLink, WriteCard, ReadCard, Finish, Conflict,
     Interrupt, Crash
<1>2. job[p] \in Keys /\ op \in [Keys -> Operations]
  BY <1>1, Running DEF IInv, TypeOK
<1> DEFINE Mine == /\ \A q \in Processes \ {p} : pc'[q] = pc[q] /\ mem'[q] = mem[q]
                   /\ \A k \in Keys \ {job[p]} : op'[k] = op[k]
<1>3. ASSUME NEW step, Goto(p, step) PROVE \A q \in Processes \ {p} : pc'[q] = pc[q]
  BY <1>3, Typed DEF Goto
<1>4. Over(p) => \A q \in Processes \ {p} : pc'[q] = pc[q] /\ mem'[q] = mem[q]
  BY <1>3, Typed DEF Over
<1>5. Fail(p) \/ GiveUp(p) \/ (Over(p) /\ op' = op) => Mine
  BY <1>2, <1>4 DEF Fail, GiveUp
<1>6. ASSUME NEW step, Continue(p, step) PROVE Mine
  BY <1>3, <1>6 DEF Continue
<1>7. ASSUME NEW o, NEW step, Phase(p, o, step) PROVE Mine
  BY <1>2, <1>3, <1>7, Typed DEF Phase
<1>8. CASE Reject(p) \/ Conflict(p) \/ NotMoved(p) \/ Interrupt(p) \/ Crash(p)
  <2>1. Mine
    BY <1>5, <1>8 DEF Reject, Conflict, NotMoved, Interrupt, Crash
  <2>2. tasks' = tasks
    BY <1>8 DEF Reject, Conflict, NotMoved, Interrupt, Crash, storage
  <2> QED BY <1>1, <2>1, <2>2 DEF OwnWork
<1>9. CASE Checkpoint(p)
  BY <1>1, <1>2, <1>3, <1>9, Typed DEF Checkpoint, OwnWork, storage
<1>10. CASE Probe(p) \/ Inspect(p) \/ ProveMove(p)
  <2>1. Mine
    BY <1>5, <1>6, <1>7, <1>10 DEF Probe, Inspect, ProveMove
  <2>2. tasks' = tasks
    BY <1>10 DEF Probe, Inspect, ProveMove, storage
  <2> QED BY <1>1, <2>1, <2>2 DEF OwnWork
<1>11. CASE MoveFile(p) \/ MoveMarker(p)
  <2>1. Mine
    BY <1>5, <1>6, <1>11 DEF MoveFile, MoveMarker
  <2>2. \A t \in tasks' : t \in tasks \/ t = Task(p, "file") \/ t = Task(p, "marker")
    BY <1>11 DEF MoveFile, MoveMarker
  <2>3. \A i : Task(p, i).from = Source(p)
    BY DEF Task
  <2> QED BY <1>1, <2>1, <2>2, <2>3 DEF OwnWork
<1>12. CASE Find(p) \/ Create(p) \/ CommitLink(p) \/ WriteCard(p) \/ ReadCard(p)
  <2>1. Mine
    BY <1>5, <1>6, <1>7, <1>12 DEF Find, Create, CommitLink, WriteCard, ReadCard
  <2>2. tasks' = tasks
    BY <1>12 DEF Find, Create, CommitLink, WriteCard, ReadCard, storage
  <2> QED BY <1>1, <2>1, <2>2 DEF OwnWork
<1>13. CASE Finish(p)
  BY <1>1, <1>2, <1>4, <1>13 DEF Finish, OwnWork, storage
<1> QED BY <1>8, <1>9, <1>10, <1>11, <1>12, <1>13 DEF RequestStep

(* What the step of a request says of its own target and operation.        *)
Reaches(p) ==
  /\ Proved(op'[job[p]]) => ThereThen(op'[job[p]].target)
  /\ pc'[p] \in Later => ThereThen(mem'[p].op.target)
  /\ pc'[p] = "moving_marker" => FileThen(mem'[p].op.target)

(* The end of a request, whatever becomes of its operation.                *)
LEMMA OverReaches ==
  ASSUME IInv, ArrivalsInv, ArrivalsStay, NEW p \in Requests, pc[p] # "idle", Over(p),
         \/ op' = op
         \/ \E s \in {"failed", "completed"} : op' = [op EXCEPT ![job[p]].status = s]
  PROVE  Reaches(p)
<1>1. job[p] \in Keys /\ op \in [Keys -> Operations] /\ op[job[p]] \in Operations
  BY Running DEF IInv, TypeOK
<1>2. op'[job[p]].target = op[job[p]].target /\ (Proved(op'[job[p]]) => Proved(op[job[p]]))
  BY <1>1 DEF Proved, Operations
<1>3. Proved(op[job[p]]) => ThereThen(op[job[p]].target)
  BY <1>1, ProvedTarget DEF ArrivalsInv, ArrivalsStay
<1>4. pc'[p] = "idle"
  BY Typed DEF Over, Goto, Processes
<1> QED BY <1>2, <1>3, <1>4 DEF Reaches, Later

LEMMA ContinueReaches ==
  ASSUME IInv, ArrivalsInv, ArrivalsStay, NEW p \in Requests, pc[p] # "idle",
         NEW step, Continue(p, step),
         step \in Later => pc[p] \in Later,
         step = "moving_marker" => Target(p) \in Folders /\ FileThere(Target(p))
  PROVE  Reaches(p)
<1>1. op' = op /\ mem' = mem /\ job[p] \in Keys /\ pc'[p] = step
  BY Running, Typed DEF Continue, Goto
<1>2. Proved(op[job[p]]) => ThereThen(op[job[p]].target)
  BY <1>1, ProvedTarget DEF ArrivalsInv, ArrivalsStay
<1>3. pc[p] \in Later => ThereThen(Target(p))
  BY Running DEF ArrivalsInv, ArrivalsStay, Later
<1> QED BY <1>1, <1>2, <1>3 DEF Reaches, ArrivalsStay, Target

LEMMA PhaseReaches ==
  ASSUME IInv, ArrivalsInv, ArrivalsStay, NEW p \in Requests,
         pc[p] \notin {"idle", "checkpoint", "reject"}, There(Target(p)),
         NEW o, o.target = mem[p].op.target, NEW step \in Later, Phase(p, o, step)
  PROVE  Reaches(p)
<1>1. job[p] \in Keys /\ Target(p) \in Folders /\ op[job[p]].target = Target(p)
      /\ op[job[p]] \in Operations
  BY Running, Typed
<1>3. ThereThen(Target(p))
  BY <1>1 DEF ArrivalsStay
<1>4. op'[job[p]].target = Target(p)
  BY <1>1 DEF Phase, Operations, IInv, TypeOK
<1>5. mem'[p].op.target = Target(p) /\ pc'[p] = step
  BY <1>1, Running, Typed DEF Phase, Goto, Target
<1> QED BY <1>1, <1>3, <1>4, <1>5 DEF Reaches, Later

(* The steps of a request, one by one.                                     *)
LEMMA StepReaches ==
  ASSUME IInv, ArrivalsInv, ArrivalsStay, NEW p \in Requests,
         RequestStep(p) \/ Interrupt(p) \/ Crash(p)
  PROVE  Reaches(p)
<1>1. pc[p] # "idle" /\ job[p] \in Keys
  BY StepIsOwn, Running DEF OwnWork
<1>2. Fail(p) \/ GiveUp(p) => Reaches(p)
  BY <1>1, OverReaches DEF Fail, GiveUp
<1>3. ASSUME pc[p] \notin {"idle", "checkpoint", "reject"}
      PROVE  Target(p) \in Folders
  BY <1>3, Running
<1>4. CASE Reject(p) \/ NotMoved(p) \/ Interrupt(p)
  BY <1>2, <1>4 DEF Reject, NotMoved, Interrupt
<1>5. CASE Conflict(p) \/ Crash(p)
  BY <1>1, <1>5, OverReaches DEF Conflict, Crash
<1>6. CASE Finish(p)
  BY <1>1, <1>6, OverReaches DEF Finish
<1>7. CASE Checkpoint(p)
  <2> DEFINE s == op[job[p]]
             n == op'[job[p]]
  <2>1. OpInv(s) /\ Grows(mem[p].op, s) /\ s \in Operations /\ OpInv(mem[p].op)
    BY <1>1, Running, Typed
  <2>2. n.status = s.status /\ n.url = s.url /\ (n.target = s.target \/ n.target = s.dest)
    BY <1>1, <1>7, <2>1 DEF Checkpoint, Operations, Grows, IInv, TypeOK
  <2>3. Proved(s) => s.target \in Folders /\ ThereThen(s.target)
    BY <1>1, ProvedTarget DEF ArrivalsInv, ArrivalsStay
  <2>4. Proved(n) => Proved(s) /\ n.target = s.target
    BY <2>1, <2>2, <2>3, Names DEF Proved, OpInv
  <2>5. pc'[p] = "probe"
    BY <1>7, Typed DEF Checkpoint, Goto, Processes
  <2> QED BY <2>3, <2>4, <2>5 DEF Reaches, Later
<1>8. CASE Probe(p)
  <2>1. CASE Continue(p, "inspect")
    BY <1>1, <2>1, ContinueReaches DEF Later
  <2>2. CASE /\ Phase(p, [mem[p].op EXCEPT !.status = "moved"], "find")
             /\ file[Target(p)] = "ours" /\ marker[Target(p)] = "ours"
    <3> DEFINE o == [mem[p].op EXCEPT !.status = "moved"]
    <3>1. o.target = mem[p].op.target
      BY Typed DEF Processes, Operations
    <3>2. pc[p] = "probe" /\ There(Target(p))
      BY <1>8, <2>2 DEF Probe, There
    <3> HIDE DEF o
    <3> QED BY <2>2, <3>1, <3>2, PhaseReaches DEF Later, o
  <2> QED BY <1>2, <1>8, <2>1, <2>2 DEF Probe
<1>9. CASE Inspect(p)
  BY <1>1, <1>2, <1>9, ContinueReaches DEF Inspect, Later
<1>10. CASE MoveFile(p)
  BY <1>1, <1>2, <1>10, ContinueReaches DEF MoveFile, Later
<1>11. CASE MoveMarker(p)
  <2>1. FileThere(Target(p)) /\ Target(p) \in Folders
    BY <1>3, <1>11 DEF MoveMarker, FileThere
  <2> QED BY <1>1, <1>2, <1>11, <2>1, ContinueReaches DEF MoveMarker, Later
<1>12. CASE ProveMove(p)
  <2> DEFINE o == [mem[p].op EXCEPT !.status = "moved"]
  <2>1. o.target = mem[p].op.target
    BY Typed DEF Processes, Operations
  <2>2. pc[p] = "moving_marker" /\ There(Target(p))
    BY <1>12 DEF ProveMove, ArrivalsInv, FileThere, There
  <2> HIDE DEF o
  <2>3. Phase(p, o, "find") => Reaches(p)
    BY <2>1, <2>2, PhaseReaches DEF Later
  <2> QED BY <1>2, <1>12, <2>3 DEF ProveMove, o
<1>13. CASE Find(p) \/ Create(p) \/ WriteCard(p)
  BY <1>1, <1>13, ContinueReaches DEF Find, Create, WriteCard, Later
<1>14. CASE CommitLink(p)
  <2> DEFINE o == [mem[p].op EXCEPT !.status = "linked", !.url = Target(p)]
  <2>1. o.target = mem[p].op.target
    BY Typed DEF Processes, Operations
  <2>2. pc[p] = "commit_link" /\ There(Target(p))
    BY <1>14 DEF CommitLink, ArrivalsInv, Later
  <2> HIDE DEF o
  <2>3. Phase(p, o, "write_card") => Reaches(p)
    BY <2>1, <2>2, PhaseReaches DEF Later
  <2> QED BY <1>14, <2>3 DEF CommitLink, o
<1>15. CASE ReadCard(p)
  <2> DEFINE o == [mem[p].op EXCEPT !.status = "notion_updated"]
  <2>1. o.target = mem[p].op.target
    BY Typed DEF Processes, Operations
  <2>2. pc[p] = "read_card" /\ There(Target(p))
    BY <1>15 DEF ReadCard, ArrivalsInv, Later
  <2> HIDE DEF o
  <2>3. Phase(p, o, "finish") => Reaches(p)
    BY <2>1, <2>2, PhaseReaches DEF Later
  <2> QED BY <1>2, <1>15, <2>3 DEF ReadCard, o
<1> QED BY <1>4, <1>5, <1>6, <1>7, <1>8, <1>9, <1>10, <1>11, <1>12, <1>13, <1>14, <1>15
        DEF RequestStep

LEMMA StepSwitches ==
  ASSUME IInv, SwitchInv, [Next]_vars, NEW p \in Requests,
         RequestStep(p) \/ Interrupt(p) \/ Crash(p)
  PROVE  SwitchInv'
<1>1. ArrivalsStay /\ OwnWork(p) /\ Reaches(p)
  BY NextArrivals, StepIsOwn, StepReaches DEF SwitchInv
<1>2. p \in Processes /\ job[p] \in Keys
  BY <1>1, Running DEF OwnWork, Processes
<1>3. \A k \in Keys : Proved(op'[k]) => ThereThen(op'[k].target)
  <2>1. ASSUME NEW k \in Keys, k # job[p], Proved(op[k]) PROVE ThereThen(op[k].target)
    BY <1>1, <2>1, ProvedTarget DEF SwitchInv, ArrivalsInv, ArrivalsStay
  <2> QED BY <1>1, <2>1 DEF OwnWork, Reaches
<1>4. ASSUME NEW q \in Requests
      PROVE  /\ pc'[q] \in Later => ThereThen(mem'[q].op.target)
             /\ pc'[q] = "moving_marker" => FileThen(mem'[q].op.target)
  <2>1. CASE q = p
    BY <1>1, <2>1 DEF Reaches
  <2>2. CASE q # p
    <3>1. pc'[q] = pc[q] /\ mem'[q] = mem[q]
      BY <1>1, <2>2 DEF OwnWork, Processes
    <3>2. pc[q] \in Later \cup {"moving_marker"} => Target(q) \in Folders
      BY Running DEF Later
    <3> QED BY <1>1, <3>1, <3>2 DEF SwitchInv, ArrivalsInv, ArrivalsStay, Target
  <2> QED BY <2>1, <2>2
<1>5. ArrivalsInv'
  BY <1>3, <1>4 DEF ArrivalsInv, ThereThen, FileThen, There, FileThere, Proved, Later, Target
<1>6. Keeps(p) \/ Finish(p)
  BY StepKeeps
<1>7. row'.path \in history'
  <2>1. CASE Finish(p)
    BY <2>1, Typed DEF Finish, IInv, TypeOK, Rows
  <2> QED BY <1>1, <1>6, <2>1 DEF Keeps, SwitchInv, SourcesInv, ArrivalsStay
<1>8. mem'[p].row.path \in {Home, Source(p)}
  <2>1. CASE Over(p)
    BY <1>2, <2>1, Typed DEF Over, NoCopy, FirstRow
  <2>2. CASE ~Over(p)
    BY <1>6, <2>2 DEF Keeps, Finish, Source
  <2> QED BY <2>1, <2>2
<1>9. SourcesInv'
  <2>1. history \subseteq history' /\ Home \in history /\ Source(p) \in history
    BY <1>1, <1>2 DEF ArrivalsStay, SwitchInv, SourcesInv
  <2>2. \A q \in Processes : Source(q)' \in history'
    BY <1>1, <1>8, <2>1 DEF OwnWork, SwitchInv, SourcesInv, Source
  <2>3. \A t \in tasks' : t.from \in history'
    BY <1>1, <2>1 DEF OwnWork, SwitchInv, SourcesInv
  <2> QED BY <1>7, <2>1, <2>2, <2>3 DEF SourcesInv
<1> QED BY <1>5, <1>9 DEF SwitchInv

(* Where no request makes a step: a request may learn that its task has    *)
(* failed, and a confirmation works on its own copy.                       *)
LEMMA OthersSwitch ==
  ASSUME IInv, SwitchInv, ArrivalsStay,
         row'.path = row.path, tasks' \subseteq tasks, op' = op,
         \A p \in Requests : mem'[p] = mem[p] /\ pc'[p] \in {pc[p], "task_failed"},
         \A p \in Processes : Source(p)' \in {Source(p), row.path, Home}
  PROVE  SwitchInv'
<1>1. SourcesInv'
  BY DEF SwitchInv, SourcesInv, ArrivalsStay
<1>2. \A k \in Keys : Proved(op'[k]) => ThereThen(op'[k].target)
  BY ProvedTarget DEF SwitchInv, ArrivalsInv, ArrivalsStay
<1>3. ASSUME NEW q \in Requests
      PROVE  /\ pc'[q] \in Later => ThereThen(mem'[q].op.target)
             /\ pc'[q] = "moving_marker" => FileThen(mem'[q].op.target)
  <2>1. pc[q] \in Later \cup {"moving_marker"} => Target(q) \in Folders
    BY Running DEF Later
  <2> QED BY <2>1 DEF SwitchInv, ArrivalsInv, ArrivalsStay, Target, Later
<1>4. ArrivalsInv'
  BY <1>2, <1>3 DEF ArrivalsInv, ThereThen, FileThen, There, FileThere, Proved, Later, Target
<1> QED BY <1>1, <1>4 DEF SwitchInv

LEMMA BeginSwitches ==
  ASSUME IInv, SwitchInv, [Next]_vars,
         NEW p \in Requests, NEW k \in Keys, NEW d \in Folders, Begin(p, k, d)
  PROVE  SwitchInv'
<1> DEFINE new == [NoOperation EXCEPT !.status = "pending", !.dest = d, !.version = row.version]
<1>1. ArrivalsStay /\ row \in Rows /\ p \in Processes /\ op \in [Keys -> Operations]
  BY NextArrivals DEF SwitchInv, IInv, TypeOK, Processes
<1>2. PICK o : Start(p, k, o) /\ (Proved(o) => Proved(op[k]) /\ o = op[k])
  <2>1. ~Proved(new)
    BY DEF Proved, NoOperation
  <2> HIDE DEF new
  <2> QED BY <2>1 DEF Begin, new
<1>3. Proved(o) => ThereThen(o.target)
  BY <1>1, <1>2, ProvedTarget DEF SwitchInv, ArrivalsInv, ArrivalsStay
<1>4. /\ pc'[p] = FirstStep(o) /\ mem'[p].op = o /\ mem'[p].row.path = row.path
      /\ row'.path = row.path
      /\ \A q \in Processes \ {p} : pc'[q] = pc[q] /\ mem'[q] = mem[q]
      /\ \A j \in Keys : op'[j] = IF j = k THEN o ELSE op[j]
  BY <1>1, <1>2, Typed DEF Start, Goto, Rows
<1>5. FirstStep(o) # "moving_marker" /\ (FirstStep(o) \in Later => Proved(o))
  BY DEF FirstStep, Later, Proved
<1>6. \A j \in Keys : Proved(op'[j]) => ThereThen(op'[j].target)
  <2>1. ASSUME NEW j \in Keys, Proved(op[j]) PROVE ThereThen(op[j].target)
    BY <1>1, <2>1, ProvedTarget DEF SwitchInv, ArrivalsInv, ArrivalsStay
  <2> QED BY <1>3, <1>4, <2>1
<1>7. ASSUME NEW q \in Requests
      PROVE  /\ pc'[q] \in Later => ThereThen(mem'[q].op.target)
             /\ pc'[q] = "moving_marker" => FileThen(mem'[q].op.target)
  <2>1. CASE q = p
    BY <1>3, <1>4, <1>5, <2>1
  <2>2. CASE q # p
    <3>1. pc'[q] = pc[q] /\ mem'[q] = mem[q]
      BY <1>4, <2>2 DEF Processes
    <3>2. pc[q] \in Later \cup {"moving_marker"} => Target(q) \in Folders
      BY Running DEF Later
    <3> QED BY <1>1, <3>1, <3>2 DEF SwitchInv, ArrivalsInv, ArrivalsStay, Target
  <2> QED BY <2>1, <2>2
<1>8. ArrivalsInv'
  BY <1>6, <1>7 DEF ArrivalsInv, ThereThen, FileThen, There, FileThere, Proved, Later, Target
<1>9. tasks' = tasks
  BY DEF Begin, storage
<1>10. SourcesInv'
  BY <1>1, <1>4, <1>9 DEF SwitchInv, SourcesInv, ArrivalsStay, Source
<1> QED BY <1>8, <1>10 DEF SwitchInv

LEMMA NextSwitches ==
  ASSUME IInv, SwitchInv, [Next]_vars
  PROVE  SwitchInv'
<1>1. ArrivalsStay /\ row \in Rows
  BY NextArrivals DEF SwitchInv, IInv, TypeOK
<1>2. CASE \/ \E p \in Requests : RequestStep(p) \/ Interrupt(p) \/ Crash(p)
           \/ \E p \in Requests, k \in Keys, d \in Folders : Begin(p, k, d)
  BY <1>2, StepSwitches, BeginSwitches
<1>3. CASE \E t \in tasks : FinishTask(t)
  <2>1. UNCHANGED <<row, op, mem>> /\ tasks' \subseteq tasks
    BY <1>3 DEF FinishTask, EndTasks
  <2>2. \A p \in Requests : pc'[p] \in {pc[p], "task_failed"}
    BY <1>3, EndTasksSeen DEF FinishTask
  <2>3. \A p \in Processes : Source(p)' = Source(p)
    BY <2>1 DEF Source
  <2> QED BY <1>1, <2>1, <2>2, <2>3, OthersSwitch
<1>4. CASE \/ \E f \in Shared : ClaimOther(f) \/ StoreOther(f)
           \/ \E q \in Proposals : ExpireProposal(q) \/ \E g \in Pages : Propose(q, g)
           \/ \E g \in Pages : EditCard(g)
           \/ ExpireLease
           \/ UNCHANGED vars
  <2>1. UNCHANGED <<op, pc, mem, tasks>> /\ row'.path = row.path
    BY <1>1, <1>4 DEF ClaimOther, StoreOther, ExpireProposal, Propose, EditCard, ExpireLease,
       vars, local, storage, Rows
  <2>2. \A p \in Processes : Source(p)' = Source(p)
    BY <2>1 DEF Source
  <2> QED BY <1>1, <2>1, <2>2, OthersSwitch
<1>5. ASSUME NEW c \in Confirmers,
             ConfirmStep(c) \/ Crash(c) \/ \E q \in Proposals : BeginConfirm(c, q)
      PROVE  SwitchInv'
  <2>1. c \in Processes /\ \A p \in Requests : p # c /\ p \in Processes
    BY Names DEF Processes
  <2>2. \A step : Goto(c, step) => \A p \in Requests : pc'[p] = pc[p]
    BY <2>1, Typed DEF Goto
  <2>3. Over(c) => /\ \A p \in Requests : pc'[p] = pc[p] /\ mem'[p] = mem[p]
                   /\ \A p \in Processes : Source(p)' \in {Source(p), Home}
    BY <2>1, <2>2, Typed DEF Over, Source, NoCopy, FirstRow
  <2>4. CASE Crash(c)
    BY <1>1, <2>3, <2>4, OthersSwitch DEF Crash, storage
  <2>5. CASE CommitPage(c)
    <3>1. row'.path = row.path /\ UNCHANGED <<op, tasks>> /\ Over(c)
      BY <1>1, <2>5 DEF CommitPage, Rows, storage, Abandon
    <3> QED BY <1>1, <2>3, <3>1, OthersSwitch
  <2>6. CASE Compare(c) \/ WriteTarget(c) \/ VerifyTarget(c) \/ Clear(c)
    <3>1. UNCHANGED <<row, op, tasks>>
      BY <2>6 DEF Compare, WriteTarget, VerifyTarget, Clear, storage
    <3>2. Over(c) \/ (mem' = mem /\ \E step : Goto(c, step))
      BY <2>6 DEF Compare, WriteTarget, VerifyTarget, Clear, Abandon
    <3>3. mem' = mem => \A p \in Processes : Source(p)' = Source(p)
      BY DEF Source
    <3> QED BY <1>1, <2>2, <2>3, <3>1, <3>2, <3>3, OthersSwitch
  <2>7. CASE \E q \in Proposals : BeginConfirm(c, q)
    <3>1. UNCHANGED <<row, op, tasks>> /\ Goto(c, "compare")
      BY <2>7 DEF BeginConfirm, storage
    <3>2. mem' = [mem EXCEPT ![c].row = row]
      BY <2>7 DEF BeginConfirm
    <3>3. /\ \A p \in Requests : mem'[p] = mem[p]
          /\ \A p \in Processes : Source(p)' \in {Source(p), row.path}
      BY <2>1, <3>2, Typed DEF Source
    <3> QED BY <1>1, <2>2, <3>1, <3>3, OthersSwitch
  <2> QED BY <1>5, <2>4, <2>5, <2>6, <2>7 DEF ConfirmStep
<1> QED BY <1>2, <1>3, <1>4, <1>5 DEF Next, Processes

(* The artifact is switched only to a folder where the file lies with its  *)
(* own marker, nothing of it being left in the old one: neither the poll   *)
(* of a task nor the phase of an earlier attempt is trusted                *)
(* (synology.py:618-675, reroute.py:197-216).  This holds also when a      *)
(* request outlives its lease and another works beside it.                 *)
THEOREM SwitchesAreProved == Spec => SwitchAfterProof
<1> DEFINE A == row'.path # row.path =>
                  /\ file[row'.path] = "ours" /\ marker[row'.path] = "ours"
                  /\ file[row.path] # "ours" /\ marker[row.path] # "ours"
           I == IInv /\ NothingLost /\ SwitchInv
<1>1. Init => I
  <2>1. Init => SwitchInv
    BY DEF Init, SwitchInv, SourcesInv, ArrivalsInv, Source, NoCopy, FirstRow, Proved,
       NoOperation, Later, Processes
  <2> QED BY <2>1, InitOK, InitKeepsOne
<1>2. I /\ [Next]_vars => I'
  BY NextOK, NextKeepsOne, NextSwitches
<1>3. I /\ [Next]_vars => [A]_vars
  <2> SUFFICES ASSUME I, [Next]_vars, row'.path # row.path PROVE A
    OBVIOUS
  <2>1. PICK p \in Requests : Finish(p)
    BY PathFollows
  <2>2. row'.path = Target(p) /\ Target(p) \notin history
    BY <2>1 DEF Finish, IInv, TypeOK, Rows
  <2>3. There(Target(p))
    BY <2>1 DEF Finish, SwitchInv, ArrivalsInv, Later
  <2>4. Target(p) \in Folders /\ row.path \in Folders
    BY <2>1, Running, Typed DEF Finish
  <2>5. file[Target(p)] = "ours" /\ marker[Target(p)] = "ours"
    BY <2>2, <2>3 DEF There
  <2> QED BY <2>2, <2>4, <2>5, OnePlace
<1>4. [][A]_vars => SwitchAfterProof
  BY PTL DEF SwitchAfterProof
<1> HIDE DEF A, I
<1> QED BY <1>1, <1>2, <1>3, <1>4, PTL DEF Spec
-----------------------------------------------------------------------------
(* Reroute implements Relocation.                                          *)

LEMMA TheOne ==
  ASSUME NEW where, OnlyOne(where), NEW f \in Folders, where[f] = "ours"
  PROVE  (CHOOSE g \in Folders : where[g] = "ours") = f
BY DEF OnlyOne

(* The file is there.                                                      *)
LEMMA PlaceIs ==
  ASSUME NothingLost, NEW f \in Folders, file[f] = "ours"
  PROVE  Place = f
BY TheOne DEF NothingLost, OnlyOne, Place

LEMMA PlaceUnmoved ==
  ASSUME NothingLost, NothingLost', OursStay
  PROVE  Place' = Place
<1>1. PICK f \in Folders : file[f] = "ours"
  BY DEF NothingLost
<1>2. Place = f
  BY <1>1, PlaceIs
<1>3. Place' = f
  BY <1>1, TheOne DEF NothingLost, OnlyOne, Place, OursStay
<1> QED BY <1>2, <1>3

(* Without reassignments the copy of the version is up to date as well, so *)
(* that the row gets the next one.                                         *)
CopiesInv == \A p \in Requests : pc[p] # "idle" => mem[p].row.version = row.version

LEMMA CopiesStay ==
  ASSUME Confirmers = {}, Before, CopiesInv, [Next]_vars
  PROVE  CopiesInv'
<1>1. IInv /\ HoldsLease /\ row \in Rows
  BY DEF Before, IInv, TypeOK
<1>2. ASSUME NEW p \in Requests, NEW k \in Keys, NEW d \in Folders, Begin(p, k, d)
      PROVE  CopiesInv'
  <2>1. \A q \in Requests : pc[q] = "idle"
    BY <1>1, <1>2, NamesAssumption DEF Begin, HoldsLease
  <2>2. \E o : Start(p, k, o)
    BY <1>2 DEF Begin
  <2>3. (\A q \in Requests \ {p} : pc'[q] = "idle") /\ mem'[p].row = row'
    BY <1>1, <2>1, <2>2, Typed DEF Start, Goto, Processes
  <2> QED BY <2>3 DEF CopiesInv
<1>3. ASSUME NEW p \in Requests, RequestStep(p) \/ Interrupt(p) \/ Crash(p)
      PROVE  CopiesInv'
  <2>1. pc[p] # "idle"
    BY <1>3 DEF RequestStep, Reject, Checkpoint, Probe, Inspect, MoveFile, MoveMarker,
       ProveMove, NotMoved, Find, Create, CommitLink, WriteCard, ReadCard, Finish, Conflict,
       Interrupt, Crash
  <2>2. \A q \in Requests \ {p} : pc[q] = "idle"
    BY <1>1, <2>1, Alone
  <2>3. CASE Over(p)
    <3>1. \A q \in Requests : pc'[q] = "idle"
      BY <1>1, <2>2, <2>3, Typed DEF Over, Goto, Processes
    <3> QED BY <3>1 DEF CopiesInv
  <2>4. CASE Keeps(p) /\ ~Over(p)
    BY <2>1, <2>2, <2>4 DEF Keeps, CopiesInv
  <2> QED BY <1>1, <1>3, <2>3, <2>4, StepKeeps DEF Finish
<1>4. ASSUME row'.version = row.version, mem' = mem,
             \A p \in Requests : pc[p] = "idle" => pc'[p] = "idle"
      PROVE  CopiesInv'
  BY <1>4 DEF CopiesInv
<1> QED BY <1>1, <1>2, <1>3, <1>4, OthersKeep DEF Next, Processes

LEMMA RowFollows ==
  ASSUME Confirmers = {}, IInv, [Next]_vars
  PROVE  \/ row'.path = row.path /\ row'.version = row.version
         \/ \E p \in Requests : Finish(p)
<1>1. row \in Rows
  BY DEF IInv, TypeOK
<1>2. ASSUME NEW p \in Requests, NEW k \in Keys, NEW d \in Folders, Begin(p, k, d)
      PROVE  row'.path = row.path /\ row'.version = row.version
  BY <1>1, <1>2 DEF Begin, Start, Rows
<1> QED BY <1>2, StepKeeps, OthersKeep DEF Next, Processes, Keeps

LEMMA StepRelocates ==
  ASSUME Confirmers = {}, Before, Before', CopiesInv, [Next]_vars
  PROVE  [Placement!Next]_<<row.path, Place, row.version>>
<1>1. IInv /\ NothingLost /\ NothingLost' /\ row.path \in Folders
  BY Typed DEF Before
<1>2. ASSUME NEW p \in Requests, Finish(p) PROVE Placement!Follow
  <2>1. /\ Settled(Target(p)) /\ row'.path = Target(p) /\ row'.version = row.version + 1
        /\ file' = file
    BY <1>2, FinishMoves DEF Finish, storage, CopiesInv
  <2>2. Target(p) \in Folders
    BY <1>1, <1>2, Running DEF Finish
  <2>3. Place = Target(p) /\ Place # row.path
    BY <1>1, <2>1, <2>2, PlaceIs DEF Settled
  <2>4. Place' = Place
    BY <2>1 DEF Place
  <2> QED BY <2>1, <2>3, <2>4 DEF Placement!Follow
<1>3. ASSUME row'.path = row.path, row'.version = row.version
      PROVE  Placement!Carry \/ UNCHANGED <<row.path, Place, row.version>>
  <2>1. CASE UNCHANGED <<file, marker>>
    BY <1>3, <2>1 DEF Place
  <2>2. ASSUME NEW t \in tasks, FinishTask(t)
        PROVE  Placement!Carry \/ UNCHANGED <<row.path, Place, row.version>>
    <3>1. CASE t.item = "file" /\ Movable(file, t)
      <4>1. /\ file'[t.to] = "ours" /\ file[row.path] = "ours" /\ t.to # row.path
            /\ t.to \in Folders
        BY <1>1, <2>2, <3>1, FileCarried, Typed
      <4>2. Place = row.path
        BY <1>1, <4>1, PlaceIs
      <4>3. Place' = t.to
        BY <1>1, <4>1, TheOne DEF NothingLost, OnlyOne, Place
      <4> QED BY <1>3, <4>1, <4>2, <4>3 DEF Placement!Carry
    <3>2. CASE ~(t.item = "file" /\ Movable(file, t))
      <4>1. file' = file
        BY <2>2, <3>2 DEF FinishTask
      <4> QED BY <1>3, <4>1 DEF Place
    <3> QED BY <3>1, <3>2
  <2>3. ASSUME NEW f \in Folders, ClaimOther(f) \/ StoreOther(f)
        PROVE  Placement!Carry \/ UNCHANGED <<row.path, Place, row.version>>
    <3>1. OursStay
      <4>1. history' = history
        BY <2>3 DEF ClaimOther, StoreOther
      <4> QED BY <1>1, <1>3, <2>3, <4>1, Typed DEF ClaimOther, StoreOther, OursStay
    <3> QED BY <1>1, <1>3, <3>1, PlaceUnmoved
  <2> QED BY <1>1, <2>1, <2>2, <2>3, StorageStays
<1> QED BY <1>1, <1>2, <1>3, RowFollows DEF Placement!Next

(* Whatever requests run, retry or die, and whatever tasks end after them: *)
(* the file is never more than one move away from the folder the row       *)
(* names, is not moved again before the row has followed, and the row      *)
(* follows it under the next version (reroute.py:79-235).                  *)
THEOREM RerouteImplementsRelocation ==
  ASSUME SlowRequests = FALSE, Confirmers = {}
  PROVE  Spec => ImplementsRelocation
<1>1. Init => Placement!Init
  <2> SUFFICES ASSUME Init PROVE Placement!Init
    OBVIOUS
  <2>1. file[Home] = "ours" /\ NothingLost /\ Home \in Folders
    BY InitKeepsOne, HomeAssumption DEF Init, StoredFiles
  <2>2. Place = Home
    BY <2>1, PlaceIs
  <2> QED BY <2>2 DEF Init, FirstRow, Placement!Init
<1>2. Before /\ Before' /\ CopiesInv /\ [Next]_vars
        => [Placement!Next]_<<row.path, Place, row.version>>
  BY StepRelocates
<1>3. Init => CopiesInv
  BY DEF Init, CopiesInv, Processes
<1>4. Before /\ CopiesInv /\ [Next]_vars => CopiesInv'
  BY CopiesStay
<1> QED BY <1>1, <1>2, <1>3, <1>4, BeforeHolds, PTL DEF Spec, ImplementsRelocation, Placement!Spec
-----------------------------------------------------------------------------
(* The link of a recording that goes from card to card.                    *)

(* What has been read back stays: only the confirmation itself writes.     *)
CardInv ==
  \A c \in Confirmers : pc[c] # "idle" =>
    /\ mem[c].row.link = row.link
    /\ pc[c] = "clear" => card[proposal[job[c]].target] = row.link

(* A proposal keeps its cards.                                             *)
ProposalsKeep ==
  \A q \in Proposals : proposal[q].status # "absent" =>
    /\ proposal'[q].status # "absent"
    /\ proposal'[q].source = proposal[q].source /\ proposal'[q].target = proposal[q].target

LinkInv == IInv /\ CardInv /\ LinkOnSomeCard

(* The cards and the row stay, or another card gets the link.              *)
LEMMA LinkStays ==
  ASSUME IInv, LinkOnSomeCard, ProposalsKeep, row'.link = row.link,
         \/ card' = card
         \/ \E g \in Pages : card'[g] = row.link
  PROVE  LinkOnSomeCard'
BY DEF LinkOnSomeCard, ProposalsKeep

(* The only confirmation makes a step.                                     *)
LEMMA CardsStay ==
  ASSUME IInv, CardInv, NEW c \in Confirmers, \A d \in Confirmers : d = c,
         row'.link = row.link,
         pc'[c] # "idle" =>
           /\ mem'[c].row.link = row.link
           /\ pc'[c] = "clear" => card'[proposal'[job'[c]].target] = row.link
  PROVE  CardInv'
BY DEF CardInv

LEMMA ConfirmLinks ==
  ASSUME LinkInv, NEW c \in Confirmers, \A d \in Confirmers : d = c,
         ConfirmStep(c) \/ Crash(c) \/ \E q \in Proposals : BeginConfirm(c, q)
  PROVE  CardInv' /\ LinkOnSomeCard'
<1>1. /\ IInv /\ CardInv /\ LinkOnSomeCard /\ c \in Processes /\ row \in Rows
      /\ pc \in [Processes -> Steps] /\ card \in [Pages -> Folders \cup {None}]
      /\ mem \in [Processes -> [row : Rows, op : Operations]]
      /\ job \in [Processes -> Keys \cup Proposals \cup {None}]
      /\ proposal \in [Proposals -> ProposalRows]
  BY DEF LinkInv, IInv, TypeOK, Processes
<1>2. Over(c) => pc'[c] = "idle"
  BY <1>1 DEF Over, Goto
<1>3. \A step : Goto(c, step) => pc'[c] = step
  BY <1>1 DEF Goto
<1>4. pc[c] # "idle" => /\ job[c] \in Proposals /\ proposal[job[c]].status # "absent"
                        /\ proposal[job[c]].source \in Pages /\ proposal[job[c]].target \in Pages
                        /\ mem[c].row.link = row.link
  BY <1>1 DEF IInv, ConfirmInv, ProposalInv, CardInv
<1>5. CASE Crash(c)
  <2>1. pc'[c] = "idle" /\ row' = row /\ card' = card /\ ProposalsKeep
    BY <1>2, <1>5 DEF Crash, ProposalsKeep
  <2> QED BY <1>1, <2>1, CardsStay, LinkStays
<1>6. CASE \E q \in Proposals : BeginConfirm(c, q)
  <2>1. /\ pc'[c] = "compare" /\ row' = row /\ card' = card /\ ProposalsKeep
        /\ mem'[c].row = row
    BY <1>1, <1>3, <1>6 DEF BeginConfirm, ProposalsKeep
  <2> QED BY <1>1, <2>1, CardsStay, LinkStays
<1>7. CASE Compare(c)
  <2>1. row' = row /\ card' = card /\ proposal' = proposal /\ pc[c] # "idle" /\ ProposalsKeep
    BY <1>7 DEF Compare, ProposalsKeep
  <2>2. \/ pc'[c] = "idle"
        \/ pc'[c] = "write_target" /\ mem' = mem
        \/ /\ pc'[c] = "clear" /\ mem' = mem /\ job' = job
           /\ card[proposal[job[c]].target] = mem[c].row.link
    BY <1>2, <1>3, <1>7 DEF Compare, Abandon
  <2> QED BY <1>1, <1>4, <2>1, <2>2, CardsStay, LinkStays
<1>8. CASE WriteTarget(c)
  <2>1. row' = row /\ pc'[c] = "verify_target" /\ pc[c] # "idle" /\ mem' = mem /\ ProposalsKeep
    BY <1>3, <1>8 DEF WriteTarget, ProposalsKeep
  <2>2. card'[proposal[job[c]].target] = row.link /\ proposal[job[c]].target \in Pages
    BY <1>1, <1>4, <1>8, <2>1 DEF WriteTarget
  <2> QED BY <1>1, <1>4, <2>1, <2>2, CardsStay, LinkStays
<1>9. CASE VerifyTarget(c)
  <2>1. row' = row /\ card' = card /\ pc[c] # "idle"
    BY <1>9 DEF VerifyTarget
  <2>2. ProposalsKeep
    BY <1>1, <1>4, <1>9 DEF VerifyTarget, ProposalsKeep, ProposalRows
  <2>3. \/ pc'[c] = "idle"
        \/ /\ pc'[c] = "clear" /\ mem' = mem /\ job' = job
           /\ card[proposal[job[c]].target] = mem[c].row.link
    BY <1>2, <1>3, <1>9 DEF VerifyTarget, Abandon
  <2>4. proposal'[job[c]].target = proposal[job[c]].target
    BY <1>4, <2>1, <2>2 DEF ProposalsKeep
  <2> QED BY <1>1, <1>4, <2>1, <2>2, <2>3, <2>4, CardsStay, LinkStays
<1>10. CASE Clear(c)
  <2> DEFINE q == proposal[job[c]]
  <2>1. /\ row' = row /\ proposal' = proposal /\ pc[c] = "clear" /\ pc'[c] = "commit_page"
        /\ mem' = mem /\ card' = [card EXCEPT ![q.source] = None]
    BY <1>3, <1>10 DEF Clear
  <2>2. CASE q.source = q.target
    BY <1>1, <1>4, <2>1, <2>2, CardsStay DEF LinkOnSomeCard
  <2>3. CASE q.source # q.target
    <3>1. card'[q.target] = row.link
      BY <1>1, <1>4, <2>1, <2>3 DEF CardInv
    <3>2. ProposalsKeep
      BY <2>1 DEF ProposalsKeep
    <3> QED BY <1>1, <1>4, <2>1, <3>1, <3>2, CardsStay, LinkStays
  <2> QED BY <2>2, <2>3
<1>11. CASE CommitPage(c)
  <2>1. pc'[c] = "idle" /\ card' = card /\ row'.link = row.link /\ pc[c] # "idle"
    BY <1>1, <1>2, <1>11 DEF CommitPage, Abandon, Rows
  <2>2. ProposalsKeep
    BY <1>1, <1>4, <1>11, <2>1 DEF CommitPage, ProposalsKeep, ProposalRows
  <2> QED BY <1>1, <2>1, <2>2, CardsStay, LinkStays
<1> QED BY <1>5, <1>6, <1>7, <1>8, <1>9, <1>10, <1>11 DEF ConfirmStep

(* While a recording goes from card to card its link is always on some     *)
(* card, whatever confirmation fails, dies or is tried again: the target   *)
(* is written and read back before the source is cleared                   *)
(* (notion_reassignment.py:164-181).  It takes that confirmations follow   *)
(* one another, that no reroute changes the link meanwhile, and that no    *)
(* person empties a card; a proposal from a card to itself is the          *)
(* exception the property names.                                           *)
THEOREM LinkIsOnSomeCard ==
  ASSUME \A c, d \in Confirmers : c = d, Requests = {}, MaxEdits = 0
  PROVE  Spec => []LinkOnSomeCard
<1>1. Init => LinkInv
  <2> SUFFICES ASSUME Init PROVE LinkInv
    OBVIOUS
  <2>1. CardInv
    BY DEF Init, CardInv, Processes
  <2>2. LinkOnSomeCard
    BY PageAssumption DEF Init, LinkOnSomeCard, FirstRow
  <2> QED BY <2>1, <2>2, InitOK DEF LinkInv
<1>2. LinkInv /\ [Next]_vars => LinkInv'
  <2> SUFFICES ASSUME LinkInv, [Next]_vars PROVE LinkInv'
    OBVIOUS
  <2>1. IInv /\ CardInv /\ LinkOnSomeCard /\ edits \in 0..MaxEdits /\ row \in Rows
    BY DEF LinkInv, IInv, TypeOK
  <2>2. IInv'
    BY <2>1, NextOK
  <2>3. ASSUME NEW c \in Confirmers,
               ConfirmStep(c) \/ Crash(c) \/ \E q \in Proposals : BeginConfirm(c, q)
        PROVE  CardInv' /\ LinkOnSomeCard'
    <3>1. \A d \in Confirmers : d = c
      OBVIOUS
    <3> QED BY <2>3, <3>1, ConfirmLinks
  <2>4. ASSUME UNCHANGED <<pc, job, mem, card>>, row'.link = row.link, ProposalsKeep
        PROVE  CardInv' /\ LinkOnSomeCard'
    <3>1. ASSUME NEW c \in Confirmers, pc[c] # "idle"
          PROVE  proposal'[job[c]].target = proposal[job[c]].target
      BY <2>1, <2>4, <3>1 DEF IInv, ConfirmInv, ProposalsKeep
    <3>2. CardInv'
      BY <2>1, <2>4, <3>1 DEF CardInv
    <3> QED BY <2>1, <2>4, <3>2, LinkStays
  <2>5. ASSUME NEW q \in Proposals, ExpireProposal(q) \/ \E g \in Pages : Propose(q, g)
        PROVE  CardInv' /\ LinkOnSomeCard'
    <3>1. UNCHANGED <<pc, job, mem, card, row>>
      BY <2>5 DEF ExpireProposal, Propose, local
    <3>2. /\ proposal \in [Proposals -> ProposalRows]
          /\ \A r \in Proposals \ {q} : proposal'[r] = proposal[r]
      BY <2>1, <2>5 DEF ExpireProposal, Propose, IInv, TypeOK
    <3>3. CASE ExpireProposal(q)
      <4>1. proposal'[q] = [proposal[q] EXCEPT !.status = "expired"]
        BY <3>2, <3>3 DEF ExpireProposal
      <4>2. ProposalsKeep
        BY <3>2, <4>1 DEF ProposalsKeep, ProposalRows
      <4> QED BY <2>4, <3>1, <4>2
    <3>4. CASE \E g \in Pages : Propose(q, g)
      <4>1. ProposalsKeep
        BY <3>2, <3>4 DEF Propose, ProposalsKeep
      <4> QED BY <2>4, <3>1, <4>1
    <3> QED BY <2>5, <3>3, <3>4
  <2>6. CASE ExpireLease \/ UNCHANGED vars \/ \E f \in Shared : ClaimOther(f) \/ StoreOther(f)
    <3>1. UNCHANGED <<pc, job, mem, card, proposal>> /\ row'.link = row.link
      BY <2>1, <2>6 DEF ExpireLease, ClaimOther, StoreOther, vars, local, Rows
    <3> QED BY <2>2, <2>4, <3>1 DEF ProposalsKeep, LinkInv
  <2>7. ASSUME NEW t \in tasks, FinishTask(t) PROVE CardInv' /\ LinkOnSomeCard'
    BY <2>1, <2>7, Typed DEF Tasks
  <2>8. ~ \E g \in Pages : EditCard(g)
    BY <2>1 DEF EditCard
  <2> QED BY <2>2, <2>3, <2>5, <2>6, <2>7, <2>8 DEF Next, Processes, LinkInv
<1>3. LinkInv => LinkOnSomeCard
  BY DEF LinkInv
<1> QED BY <1>1, <1>2, <1>3, PTL DEF Spec
=============================================================================
