---------------------------- MODULE RerouteProofs ----------------------------
(***************************************************************************)
(* Proofs about Reroute for any folders, keys, cards and requests, with    *)
(* requests that may outlive their lease: type correctness, and that the   *)
(* file and its marker are neither lost nor doubled.                       *)
(*                                                                         *)
(* TypeOK alone is not inductive: a task moves a file to mem[p].op.target, *)
(* which is a folder only because the steps that use it come after the     *)
(* checkpoint, of this attempt or of an earlier one.  IInv adds what the   *)
(* phases of an operation and the steps of a request say of its columns.   *)
(***************************************************************************)
EXTENDS Reroute, TLAPS

(* What the phase of an operation says of its columns.                     *)
OpInv(o) ==
  /\ o \in Operations
  /\ o.status # "absent" => o.dest \in Folders
  /\ o.target \in {None, o.dest}
  /\ o.url \in {None, o.target}
  /\ o.status \in {"moved", "linked", "notion_updated"} => o.target # None
  /\ o.status \in {"linked", "notion_updated"} => o.url # None

(* An operation only gains columns.                                        *)
Grows(o, n) ==
  /\ n.dest = o.dest
  /\ n.status # "absent"
  /\ o.target # None => n.target = o.target
  /\ o.url # None => n.url = o.url

RequestSteps ==
  { "checkpoint", "probe", "inspect", "move_file", "moving_file", "moving_marker",
    "task_failed", "find", "create", "commit_link", "write_card", "read_card", "finish",
    "reject" }

ConfirmSteps == {"compare", "write_target", "verify_target", "clear", "commit_page"}

(* What the step of a request says of the operation it holds a copy o of;  *)
(* s is the stored one.                                                    *)
HeldInv(step, o, s) ==
  /\ OpInv(o)
  /\ o.status # "absent"
  /\ Grows(o, s)
  /\ step \notin {"checkpoint", "reject"} => o.target # None
  /\ step \in {"write_card", "read_card", "finish"} => o.url # None

RequestInv(p) ==
  pc[p] # "idle" =>
    /\ pc[p] \in RequestSteps
    /\ job[p] \in Keys
    /\ HeldInv(pc[p], mem[p].op, op[job[p]])

ConfirmInv(c) ==
  pc[c] # "idle" =>
    /\ pc[c] \in ConfirmSteps
    /\ job[c] \in Proposals
    /\ proposal[job[c]].status # "absent"

ProposalInv(x) == x.status # "absent" => x.source \in Pages /\ x.target \in Pages

IInv ==
  /\ TypeOK
  /\ \A k \in Keys : OpInv(op[k])
  /\ \A p \in Requests : RequestInv(p)
  /\ \A c \in Confirmers : ConfirmInv(c)
  /\ \A q \in Proposals : ProposalInv(proposal[q])

(* The part of IInv that the requests work on, and the rest.               *)
Core ==
  /\ row \in Rows
  /\ op \in [Keys -> Operations]
  /\ pc \in [Processes -> Steps]
  /\ job \in [Processes -> Keys \cup Proposals \cup {None}]
  /\ mem \in [Processes -> [row : Rows, op : Operations]]
  /\ \A k \in Keys : OpInv(op[k])
  /\ \A p \in Requests : RequestInv(p)
  /\ \A c \in Confirmers : ConfirmInv(c)

Rest ==
  /\ lock \in Confirmers \cup {None}
  /\ history \in SUBSET Folders
  /\ proposal \in [Proposals -> ProposalRows]
  /\ \A q \in Proposals : ProposalInv(proposal[q])
  /\ file \in [Folders -> Whose]
  /\ marker \in [Folders -> Whose]
  /\ tasks \in SUBSET Tasks
  /\ links \in [Folders -> Nat]
  /\ card \in [Pages -> Folders \cup {None}]
  /\ faults \in 0..MaxFaults
  /\ edits \in 0..MaxEdits

ProposalsStay ==
  \A q \in Proposals : proposal[q].status # "absent" => proposal'[q].status # "absent"

(* IInv is what the two parts say together.                                *)
LEMMA Parts == IInv <=> Core /\ Rest
BY DEF IInv, Core, Rest, TypeOK
-----------------------------------------------------------------------------
(* The building blocks of the steps preserve Core.                         *)

(* A request and a confirmation are different processes; None is neither.  *)
LEMMA Names ==
  /\ Requests \cap Confirmers = {}
  /\ None \notin Folders /\ None \notin Keys /\ None \notin Proposals
  /\ \A k \in Keys : k \notin Proposals
BY NamesAssumption

(* Gaining columns is transitive.                                          *)
LEMMA GrowsTwice ==
  ASSUME NEW o, NEW s, NEW n, Grows(o, s), Grows(s, n)
  PROVE  Grows(o, n)
BY DEF Grows

(* What a process says of its own state does not change while its local    *)
(* state does not, and stored operations only gain columns.                *)
LEMMA OtherRequest ==
  ASSUME NEW p \in Requests, RequestInv(p),
         pc'[p] = pc[p], job'[p] = job[p], mem'[p] = mem[p],
         \A k \in Keys : op[k].status # "absent" => Grows(op[k], op'[k])
  PROVE  RequestInv(p)'
<1>1. CASE pc[p] = "idle"
  BY <1>1 DEF RequestInv
<1>2. CASE pc[p] # "idle"
  <2>1. HeldInv(pc[p], mem[p].op, op[job[p]]) /\ job[p] \in Keys /\ pc[p] \in RequestSteps
    BY <1>2 DEF RequestInv
  <2>2. Grows(mem[p].op, op'[job[p]])
    BY <2>1, GrowsTwice DEF HeldInv, Grows
  <2> QED BY <2>1, <2>2 DEF RequestInv, HeldInv
<1> QED BY <1>1, <1>2

(* The same for a confirmation.                                            *)
LEMMA OtherConfirm ==
  ASSUME NEW c \in Confirmers, ConfirmInv(c), ProposalsStay,
         pc'[c] = pc[c], job'[c] = job[c]
  PROVE  ConfirmInv(c)'
BY DEF ConfirmInv, ProposalsStay

(* The end of a request or of a confirmation.                              *)
LEMMA OverOK ==
  ASSUME Core, ProposalsStay, NEW p \in Processes, Over(p), row' \in Rows,
         op' \in [Keys -> Operations],
         \A k \in Keys : OpInv(op'[k]),
         \A k \in Keys : op[k].status # "absent" => Grows(op[k], op'[k])
  PROVE  Core'
<1>1. pc' \in [Processes -> Steps] /\ job' \in [Processes -> Keys \cup Proposals \cup {None}]
  BY DEF Core, Over, Goto, Steps
<1>2. NoCopy \in [row : Rows, op : Operations]
  BY HomeAssumption, PageAssumption DEF NoCopy, FirstRow, NoOperation, Rows, Operations
<1>3. mem' \in [Processes -> [row : Rows, op : Operations]]
  BY <1>2 DEF Core, Over
<1>4. \A q \in Processes \ {p} : pc'[q] = pc[q] /\ job'[q] = job[q] /\ mem'[q] = mem[q]
  BY DEF Core, Over, Goto
<1>5. pc'[p] = "idle"
  BY DEF Core, Over, Goto
<1>6. ASSUME NEW q \in Requests PROVE RequestInv(q)'
  <2>1. CASE q = p
    BY <2>1, <1>5 DEF RequestInv
  <2>2. CASE q # p
    BY <2>2, <1>4, OtherRequest DEF Core, Processes
  <2> QED BY <2>1, <2>2
<1>7. ASSUME NEW c \in Confirmers PROVE ConfirmInv(c)'
  <2>1. CASE c = p
    BY <2>1, <1>5 DEF ConfirmInv
  <2>2. CASE c # p
    BY <2>2, <1>4, OtherConfirm DEF Core, Processes
  <2> QED BY <2>1, <2>2
<1> QED BY <1>1, <1>3, <1>6, <1>7 DEF Core

(* Nothing of the operations changed.                                      *)
LEMMA SameOps ==
  ASSUME Core, op' = op
  PROVE  /\ op' \in [Keys -> Operations]
         /\ \A k \in Keys : OpInv(op'[k])
         /\ \A k \in Keys : op[k].status # "absent" => Grows(op[k], op'[k])
BY DEF Core, Grows

(* The operation of a running request becomes n.                           *)
LEMMA OneOp ==
  ASSUME Core, NEW k \in Keys, NEW n, OpInv(n), Grows(op[k], n),
         op' = [op EXCEPT ![k] = n]
  PROVE  /\ op' \in [Keys -> Operations]
         /\ \A j \in Keys : OpInv(op'[j])
         /\ \A j \in Keys : op[j].status # "absent" => Grows(op[j], op'[j])
<1>1. n \in Operations
  BY DEF OpInv
<1>2. op' \in [Keys -> Operations]
  BY <1>1 DEF Core
<1>3. \A j \in Keys : op'[j] = IF j = k THEN n ELSE op[j]
  BY DEF Core
<1>4. \A j \in Keys : op[j].status # "absent" => Grows(op[j], op[j])
  BY DEF Grows
<1> QED BY <1>2, <1>3, <1>4 DEF Core

LEMMA LeaseCleared ==
  ASSUME row \in Rows, ClearLease
  PROVE  row' \in Rows
BY DEF ClearLease, Rows

(* A request fails.                                                        *)
LEMMA FailOK ==
  ASSUME Core, ProposalsStay, NEW p \in Requests, pc[p] # "idle", Fail(p)
  PROVE  Core'
<1> DEFINE n == [op[job[p]] EXCEPT !.status = "failed"]
<1>1. job[p] \in Keys /\ op[job[p]].status # "absent" /\ OpInv(op[job[p]])
  BY DEF Core, RequestInv, HeldInv, Grows
<1>2. op[job[p]] \in Operations
  BY <1>1 DEF OpInv
<1>3. OpInv(n) /\ Grows(op[job[p]], n)
  BY <1>1, <1>2 DEF OpInv, Grows, Operations, Phases
<1>4. op' = [op EXCEPT ![job[p]] = n]
  BY <1>1 DEF Fail, Core
<1>5. row' \in Rows
  BY LeaseCleared DEF Fail, Core
<1> HIDE DEF n
<1> QED BY <1>1, <1>3, <1>4, <1>5, OneOp, OverOK DEF Fail, Processes

(* A request ends and its operation keeps its phase.                       *)
LEMMA GiveUpOK ==
  ASSUME Core, ProposalsStay, NEW p \in Requests, GiveUp(p)
  PROVE  Core'
<1>1. row' \in Rows /\ op' = op
  BY LeaseCleared DEF GiveUp, Core
<1> QED BY <1>1, SameOps, OverOK DEF GiveUp, Processes

(* A request goes on: its next step and the copy it holds fit together.    *)
LEMMA LocalOK ==
  ASSUME Core, ProposalsStay, NEW p \in Requests, pc[p] # "idle",
         NEW step \in RequestSteps, Goto(p, step), job' = job, row' = row,
         mem' \in [Processes -> [row : Rows, op : Operations]],
         \A q \in Processes \ {p} : mem'[q] = mem[q],
         op' \in [Keys -> Operations],
         \A k \in Keys : OpInv(op'[k]),
         \A k \in Keys : op[k].status # "absent" => Grows(op[k], op'[k]),
         HeldInv(step, mem'[p].op, op'[job[p]])
  PROVE  Core'
<1>1. pc' \in [Processes -> Steps]
  BY DEF Core, Goto, Steps, RequestSteps
<1>2. \A q \in Processes \ {p} : pc'[q] = pc[q]
  BY DEF Core, Goto
<1>3. pc'[p] = step
  BY DEF Core, Goto, Processes
<1>4. RequestInv(p)'
  BY <1>3 DEF RequestInv, Core
<1>5. ASSUME NEW q \in Requests, q # p PROVE RequestInv(q)'
  BY <1>5, <1>2, OtherRequest DEF Core, Processes
<1>6. ASSUME NEW c \in Confirmers PROVE ConfirmInv(c)'
  BY <1>2, Names, OtherConfirm DEF Core, Processes
<1> QED BY <1>1, <1>4, <1>5, <1>6 DEF Core

(* A step that commits nothing.                                            *)
LEMMA ContinueOK ==
  ASSUME Core, ProposalsStay, NEW p \in Requests, pc[p] # "idle",
         NEW step \in RequestSteps, Continue(p, step),
         HeldInv(step, mem[p].op, op[job[p]])
  PROVE  Core'
<1>1. op' = op /\ mem' = mem /\ job' = job /\ row' = row /\ Goto(p, step)
  BY DEF Continue
<1>2. mem' \in [Processes -> [row : Rows, op : Operations]]
  BY <1>1 DEF Core
<1> QED BY <1>1, <1>2, SameOps, LocalOK

(* The commit of a phase.                                                  *)
LEMMA PhaseOK ==
  ASSUME Core, ProposalsStay, NEW p \in Requests, pc[p] # "idle",
         NEW step \in RequestSteps, NEW o, Phase(p, o, step),
         OpInv(o), o.status # "absent", o.dest = mem[p].op.dest,
         o.target = mem[p].op.target, o.target # None,
         mem[p].op.url # None => o.url = mem[p].op.url,
         step \in {"write_card", "read_card", "finish"} => o.url # None
  PROVE  Core'
<1> DEFINE s == op[job[p]]
           n == [s EXCEPT !.status = o.status, !.url = IF o.url = None THEN s.url ELSE o.url]
<1>1. job[p] \in Keys /\ OpInv(s) /\ s.status # "absent" /\ Grows(mem[p].op, s)
  BY DEF Core, RequestInv, HeldInv, Grows
<1>2. s \in Operations /\ o \in Operations
  BY <1>1 DEF OpInv
<1>3. s.target = o.target /\ s.dest = o.dest
  BY <1>1 DEF Grows
<1>4. /\ n \in Operations /\ n.status = o.status /\ n.dest = s.dest /\ n.target = s.target
      /\ n.url = IF o.url = None THEN s.url ELSE o.url
  BY <1>2 DEF Operations
<1> HIDE DEF n
<1>5. OpInv(n) /\ Grows(s, n) /\ Grows(o, n)
  BY <1>1, <1>2, <1>3, <1>4 DEF OpInv, Grows
<1>6. op' = [op EXCEPT ![job[p]] = n]
  BY <1>1 DEF Phase, Core, n
<1>7. op'[job[p]] = n
  BY <1>1, <1>6 DEF Core
<1>8. mem' \in [Processes -> [row : Rows, op : Operations]]
  BY <1>2 DEF Phase, Core
<1>9. mem'[p].op = o /\ \A q \in Processes \ {p} : mem'[q] = mem[q]
  BY DEF Phase, Core, Processes
<1>10. HeldInv(step, mem'[p].op, op'[job[p]])
  BY <1>5, <1>7, <1>9 DEF HeldInv
<1>11. Goto(p, step) /\ job' = job /\ row' = row
  BY DEF Phase
<1> HIDE DEF s
<1>12. Grows(op[job[p]], n)
  BY <1>5 DEF s
<1> QED BY <1>1, <1>5, <1>6, <1>8, <1>9, <1>10, <1>11, <1>12, OneOp, LocalOK
-----------------------------------------------------------------------------
(* Each step of a request preserves IInv.                                  *)

(* What is known of a request that runs.                                   *)
LEMMA Held ==
  ASSUME Core, NEW p \in Requests, pc[p] # "idle"
  PROVE  /\ pc[p] \in RequestSteps
         /\ job[p] \in Keys
         /\ HeldInv(pc[p], mem[p].op, op[job[p]])
         /\ OpInv(op[job[p]]) /\ op[job[p]] \in Operations
         /\ mem[p].row \in Rows /\ mem[p].op \in Operations
         /\ Source(p) \in Folders
<1>1. /\ pc[p] \in RequestSteps /\ job[p] \in Keys
      /\ HeldInv(pc[p], mem[p].op, op[job[p]])
  BY DEF Core, RequestInv
<1>2. OpInv(op[job[p]]) /\ op[job[p]] \in Operations
  BY <1>1 DEF Core, OpInv
<1>3. mem[p] \in [row : Rows, op : Operations]
  BY DEF Core, Processes
<1>4. mem[p].row \in Rows /\ mem[p].op \in Operations
  BY <1>3
<1>5. Source(p) \in Folders
  BY <1>4 DEF Source, Rows
<1> QED BY <1>1, <1>2, <1>4, <1>5

(* After the checkpoint the target is a folder.                            *)
LEMMA TargetIsFolder ==
  ASSUME Core, NEW p \in Requests, pc[p] \notin {"idle", "checkpoint", "reject"}
  PROVE  /\ Target(p) \in Folders /\ Target(p) # None
         /\ mem[p].op.dest \in Folders
<1>1. HeldInv(pc[p], mem[p].op, op[job[p]])
  BY Held
<1> QED BY <1>1 DEF HeldInv, OpInv, Target

(* A step that leaves everything but row, operations and local state.      *)
LEMMA RestStays ==
  ASSUME Rest, UNCHANGED <<lock, history, proposal, storage, card, faults, edits>>
  PROVE  Rest' /\ ProposalsStay
BY DEF Rest, storage, ProposalsStay

(* A step beyond the checkpoint that commits nothing, or ends the request. *)
LEMMA NextStep ==
  ASSUME Core, ProposalsStay, NEW p \in Requests,
         pc[p] \notin {"idle", "checkpoint", "reject"},
         NEW step \in RequestSteps \ {"finish"}, Continue(p, step),
         step = "read_card" => pc[p] = "write_card", step # "write_card"
  PROVE  Core'
<1>1. HeldInv(pc[p], mem[p].op, op[job[p]])
  BY Held
<1>2. HeldInv(step, mem[p].op, op[job[p]])
  BY <1>1 DEF HeldInv
<1> QED BY <1>2, ContinueOK

LEMMA RejectOK ==
  ASSUME IInv, NEW p \in Requests, Reject(p)
  PROVE  IInv'
<1>1. Core /\ Rest' /\ ProposalsStay
  BY Parts, RestStays DEF Reject
<1>2. Core'
  BY <1>1, FailOK DEF Reject
<1> QED BY <1>1, <1>2, Parts, PTL

LEMMA CheckpointOK ==
  ASSUME IInv, NEW p \in Requests, Checkpoint(p)
  PROVE  IInv'
<1>1. Core /\ Rest' /\ ProposalsStay
  BY Parts, RestStays DEF Checkpoint
<1> DEFINE m == mem[p].op
           s == op[job[p]]
           o == [m EXCEPT !.target = m.dest]
           n == IF m.target = None THEN [s EXCEPT !.target = m.dest] ELSE s
<1>2. pc[p] = "checkpoint" /\ pc[p] # "idle"
  BY DEF Checkpoint
<1>3. /\ job[p] \in Keys /\ OpInv(m) /\ OpInv(s) /\ m \in Operations /\ s \in Operations
      /\ Grows(m, s) /\ m.status # "absent"
  BY <1>1, <1>2, Held DEF HeldInv
<1>4. m.dest \in Folders /\ m.dest # None /\ s.dest = m.dest
  BY <1>3, Names DEF OpInv, Grows
<1>5. /\ o \in Operations /\ o.status = m.status /\ o.dest = m.dest /\ o.version = m.version
      /\ o.target = m.dest /\ o.url = m.url
  BY <1>3, <1>4 DEF Operations
<1>6. /\ n \in Operations /\ n.status = s.status /\ n.dest = s.dest
      /\ n.target = m.dest /\ n.url = s.url
  BY <1>3, <1>4 DEF Operations, OpInv, Grows
<1>7. mem' = [mem EXCEPT ![p].op = o] /\ Goto(p, "probe") /\ job' = job /\ row' = row
  BY <1>1 DEF Checkpoint, Core
<1>8. op' = [op EXCEPT ![job[p]] = n]
  BY <1>1, <1>3 DEF Checkpoint, Core
<1> HIDE DEF n, o
<1>9. OpInv(n) /\ OpInv(o) /\ Grows(s, n) /\ Grows(o, n)
  BY <1>3, <1>4, <1>5, <1>6 DEF OpInv, Grows
<1>10. op'[job[p]] = n
  BY <1>1, <1>3, <1>8 DEF Core
<1>11. mem' \in [Processes -> [row : Rows, op : Operations]]
  BY <1>1, <1>5, <1>7 DEF Core
<1>12. mem'[p].op = o /\ \A q \in Processes \ {p} : mem'[q] = mem[q]
  BY <1>1, <1>7 DEF Core, Processes
<1>13. HeldInv("probe", mem'[p].op, op'[job[p]])
  BY <1>3, <1>4, <1>5, <1>9, <1>10, <1>12 DEF HeldInv
<1>14. "probe" \in RequestSteps
  BY DEF RequestSteps
<1> HIDE DEF m, s
<1>15. Grows(op[job[p]], n)
  BY <1>9 DEF s
<1>16. Core'
  BY <1>1, <1>2, <1>3, <1>7, <1>8, <1>9, <1>11, <1>12, <1>13, <1>14, <1>15, OneOp, LocalOK
<1> QED BY <1>1, <1>16, Parts, PTL

(* The commits of the phases moved and notion_updated, after which nothing *)
(* new is held, as one case.                                               *)
LEMMA PhaseStatus ==
  ASSUME Core, ProposalsStay, NEW p \in Requests,
         pc[p] \notin {"idle", "checkpoint", "reject"},
         NEW status \in {"moved", "notion_updated"}, NEW step \in {"find", "finish"},
         Phase(p, [mem[p].op EXCEPT !.status = status], step),
         step = "finish" => pc[p] = "read_card", status = "notion_updated" => step = "finish"
  PROVE  Core'
<1> DEFINE m == mem[p].op
           o == [m EXCEPT !.status = status]
<1>1. OpInv(m) /\ m \in Operations /\ m.status # "absent" /\ m.target # None
  BY Held, TargetIsFolder DEF HeldInv, Target
<1>2. pc[p] = "read_card" => m.url # None
  BY Held DEF HeldInv
<1>3. /\ o.status = status /\ o.dest = m.dest /\ o.target = m.target /\ o.url = m.url
      /\ o \in Operations
  BY <1>1 DEF Operations, Phases
<1>4. Phase(p, o, step) /\ step \in RequestSteps
  BY DEF RequestSteps
<1> HIDE DEF o
<1>5. OpInv(o)
  BY <1>1, <1>2, <1>3 DEF OpInv
<1> QED BY <1>1, <1>2, <1>3, <1>4, <1>5, PhaseOK

LEMMA ProbeOK ==
  ASSUME IInv, NEW p \in Requests, Probe(p)
  PROVE  IInv'
<1>1. Core /\ Rest' /\ ProposalsStay
  BY Parts, RestStays DEF Probe
<1>2. Continue(p, "inspect") => Core'
  BY <1>1, NextStep DEF Probe, RequestSteps
<1>3. Phase(p, [mem[p].op EXCEPT !.status = "moved"], "find") => Core'
  BY <1>1, PhaseStatus DEF Probe
<1>4. Fail(p) => Core'
  BY <1>1, FailOK DEF Probe
<1>5. Core'
  BY <1>2, <1>3, <1>4 DEF Probe
<1> QED BY <1>1, <1>5, Parts, PTL

LEMMA InspectOK ==
  ASSUME IInv, NEW p \in Requests, Inspect(p)
  PROVE  IInv'
<1>1. Core /\ Rest' /\ ProposalsStay
  BY Parts, RestStays DEF Inspect
<1>2. Continue(p, "move_file") => Core'
  BY <1>1, NextStep DEF Inspect, RequestSteps
<1>3. Fail(p) => Core'
  BY <1>1, FailOK DEF Inspect
<1>4. Core'
  BY <1>2, <1>3 DEF Inspect
<1> QED BY <1>1, <1>4, Parts, PTL

(* The tasks of a request are well formed.                                 *)
LEMMA TaskOK ==
  ASSUME Core, NEW p \in Requests, pc[p] \notin {"idle", "checkpoint", "reject"},
         NEW item \in {"file", "marker"}
  PROVE  Task(p, item) \in Tasks
<1>1. Source(p) \in Folders /\ Target(p) \in Folders
  BY Held, TargetIsFolder
<1> QED BY <1>1 DEF Task, Tasks

LEMMA MoveFileOK ==
  ASSUME IInv, NEW p \in Requests, MoveFile(p)
  PROVE  IInv'
<1>1. Core /\ Rest /\ ProposalsStay
  BY Parts DEF MoveFile, ProposalsStay
<1>2. pc[p] = "move_file" /\ Task(p, "file") \in Tasks
  BY <1>1, TaskOK DEF MoveFile
<1>3. Rest'
  BY <1>1, <1>2 DEF MoveFile, Rest
<1>4. Continue(p, "moving_file") => Core'
  BY <1>1, <1>2, NextStep DEF RequestSteps
<1>5. GiveUp(p) => Core'
  BY <1>1, GiveUpOK
<1>6. Core'
  BY <1>4, <1>5 DEF MoveFile
<1> QED BY <1>3, <1>6, Parts, PTL

LEMMA MoveMarkerOK ==
  ASSUME IInv, NEW p \in Requests, MoveMarker(p)
  PROVE  IInv'
<1>1. Core /\ Rest /\ ProposalsStay
  BY Parts DEF MoveMarker, ProposalsStay
<1>2. pc[p] = "moving_file" /\ Task(p, "marker") \in Tasks
  BY <1>1, TaskOK DEF MoveMarker
<1>3. Rest'
  BY <1>1, <1>2 DEF MoveMarker, Rest
<1>4. Continue(p, "moving_marker") => Core'
  BY <1>1, <1>2, NextStep DEF RequestSteps
<1>5. GiveUp(p) => Core'
  BY <1>1, GiveUpOK
<1>6. Fail(p) => Core'
  BY <1>1, <1>2, FailOK
<1>7. Core'
  BY <1>4, <1>5, <1>6 DEF MoveMarker
<1> QED BY <1>3, <1>7, Parts, PTL

LEMMA ProveMoveOK ==
  ASSUME IInv, NEW p \in Requests, ProveMove(p)
  PROVE  IInv'
<1>1. Core /\ Rest' /\ ProposalsStay
  BY Parts, RestStays DEF ProveMove
<1>2. Phase(p, [mem[p].op EXCEPT !.status = "moved"], "find") => Core'
  BY <1>1, PhaseStatus DEF ProveMove
<1>3. Fail(p) => Core'
  BY <1>1, FailOK DEF ProveMove
<1>4. Core'
  BY <1>2, <1>3 DEF ProveMove
<1> QED BY <1>1, <1>4, Parts, PTL

LEMMA NotMovedOK ==
  ASSUME IInv, NEW p \in Requests, NotMoved(p)
  PROVE  IInv'
<1>1. Core /\ Rest' /\ ProposalsStay
  BY Parts, RestStays DEF NotMoved
<1>2. GiveUp(p) => Core'
  BY <1>1, GiveUpOK
<1>3. Fail(p) /\ pc[p] # "idle" => Core'
  BY <1>1, FailOK
<1>4. Core'
  BY <1>2, <1>3 DEF NotMoved
<1> QED BY <1>1, <1>4, Parts, PTL

LEMMA FindOK ==
  ASSUME IInv, NEW p \in Requests, Find(p)
  PROVE  IInv'
<1>1. Core /\ Rest' /\ ProposalsStay
  BY Parts, RestStays DEF Find
<1> DEFINE step == IF links[Target(p)] > 0 THEN "commit_link" ELSE "create"
<1>2. /\ step \in RequestSteps \ {"finish"} /\ step \notin {"read_card", "write_card"}
      /\ Continue(p, step) /\ pc[p] = "find"
  BY DEF RequestSteps, Find
<1> HIDE DEF step
<1>3. Core'
  BY <1>1, <1>2, NextStep
<1> QED BY <1>1, <1>3, Parts, PTL

LEMMA CreateOK ==
  ASSUME IInv, NEW p \in Requests, Create(p)
  PROVE  IInv'
<1>1. Core /\ Rest /\ ProposalsStay
  BY Parts DEF Create, ProposalsStay
<1>2. Target(p) \in Folders
  BY <1>1, TargetIsFolder DEF Create
<1>3. Rest'
  BY <1>1, <1>2 DEF Create, Rest
<1>4. Core'
  BY <1>1, NextStep DEF Create, RequestSteps
<1> QED BY <1>3, <1>4, Parts, PTL

LEMMA CommitLinkOK ==
  ASSUME IInv, NEW p \in Requests, CommitLink(p)
  PROVE  IInv'
<1>1. Core /\ Rest' /\ ProposalsStay
  BY Parts, RestStays DEF CommitLink
<1> DEFINE m == mem[p].op
           o == [m EXCEPT !.status = "linked", !.url = Target(p)]
<1>2. pc[p] = "commit_link" /\ Phase(p, o, "write_card") /\ "write_card" \in RequestSteps
  BY DEF CommitLink, RequestSteps
<1>3. OpInv(m) /\ m \in Operations /\ m.target \in Folders /\ m.target # None
  BY <1>1, <1>2, Held, TargetIsFolder DEF HeldInv, Target
<1>4. /\ o.status = "linked" /\ o.dest = m.dest /\ o.target = m.target /\ o.url = m.target
      /\ o \in Operations
  BY <1>3 DEF Operations, Phases, Target
<1>5. m.url # None => o.url = m.url
  BY <1>3, <1>4 DEF OpInv
<1> HIDE DEF o
<1>6. OpInv(o)
  BY <1>3, <1>4 DEF OpInv
<1>7. Core'
  BY <1>1, <1>2, <1>3, <1>4, <1>5, <1>6, PhaseOK
<1> QED BY <1>1, <1>7, Parts, PTL

LEMMA WriteCardOK ==
  ASSUME IInv, NEW p \in Requests, WriteCard(p)
  PROVE  IInv'
<1>1. Core /\ Rest /\ ProposalsStay /\ pc[p] = "write_card"
  BY Parts DEF WriteCard, ProposalsStay
<1>2. /\ HeldInv("write_card", mem[p].op, op[job[p]]) /\ mem[p].row \in Rows
      /\ mem[p].op \in Operations
  BY <1>1, Held
<1>3. mem[p].op.url \in Folders /\ mem[p].row.page \in Pages
  BY <1>2 DEF HeldInv, Operations, Rows
<1>4. card' \in [Pages -> Folders \cup {None}]
  BY <1>1, <1>3 DEF Rest, WriteCard
<1>5. Rest'
  BY <1>1, <1>4 DEF Rest, WriteCard, storage
<1>6. HeldInv("read_card", mem[p].op, op[job[p]])
  BY <1>2 DEF HeldInv
<1>7. Continue(p, "read_card") /\ "read_card" \in RequestSteps
  BY DEF WriteCard, RequestSteps
<1>8. Core'
  BY <1>1, <1>6, <1>7, ContinueOK
<1> QED BY <1>5, <1>8, Parts, PTL

LEMMA ReadCardOK ==
  ASSUME IInv, NEW p \in Requests, ReadCard(p)
  PROVE  IInv'
<1>1. Core /\ Rest' /\ ProposalsStay
  BY Parts, RestStays DEF ReadCard
<1>2. Phase(p, [mem[p].op EXCEPT !.status = "notion_updated"], "finish") => Core'
  BY <1>1, PhaseStatus DEF ReadCard
<1>3. Fail(p) => Core'
  BY <1>1, FailOK DEF ReadCard
<1>4. Core'
  BY <1>2, <1>3 DEF ReadCard
<1> QED BY <1>1, <1>4, Parts, PTL

LEMMA FinishOK ==
  ASSUME IInv, NEW p \in Requests, Finish(p)
  PROVE  IInv'
<1>1. Core /\ Rest /\ ProposalsStay /\ pc[p] = "finish"
  BY Parts DEF Finish, ProposalsStay
<1> DEFINE s == op[job[p]]
           n == [s EXCEPT !.status = "completed"]
<1>2. /\ HeldInv("finish", mem[p].op, s) /\ mem[p].row \in Rows /\ mem[p].op \in Operations
      /\ job[p] \in Keys /\ OpInv(s) /\ s \in Operations
  BY <1>1, Held
<1>3. Target(p) \in Folders /\ mem[p].op.url \in Folders /\ mem[p].row.version \in Nat
  BY <1>1, <1>2, TargetIsFolder DEF HeldInv, Operations, Rows
<1>4. Rest'
  <2>1. history' = history \cup {Target(p)} /\ lock' = lock
    BY DEF Finish
  <2>2. history' \in SUBSET Folders /\ lock' \in Confirmers \cup {None}
    BY <1>1, <1>3, <2>1 DEF Rest
  <2>3. UNCHANGED <<proposal, file, marker, tasks, links, card, faults, edits>>
    BY DEF Finish, storage
  <2> QED BY <1>1, <2>2, <2>3 DEF Rest
<1>5. row' \in Rows
  <2>1. row' = [row EXCEPT !.version = mem[p].row.version + 1, !.path = Target(p),
                           !.link = mem[p].op.url, !.lease = None, !.expired = FALSE]
    BY DEF Finish
  <2>2. mem[p].row.version + 1 \in Nat
    BY <1>3
  <2> QED BY <1>1, <1>3, <2>1, <2>2 DEF Core, Rows
<1>6. /\ n \in Operations /\ n.status = "completed" /\ n.dest = s.dest
      /\ n.target = s.target /\ n.url = s.url
  BY <1>2 DEF Operations, Phases
<1>7. op' = [op EXCEPT ![job[p]] = n]
  BY <1>1, <1>2 DEF Finish, Core
<1> HIDE DEF n
<1>8. s.status # "absent"
  BY <1>2 DEF HeldInv, Grows
<1>9. OpInv(n) /\ Grows(s, n)
  BY <1>2, <1>6, <1>8 DEF OpInv, Grows
<1> HIDE DEF s
<1>10. Grows(op[job[p]], n)
  BY <1>9 DEF s
<1>11. Over(p) /\ p \in Processes
  BY DEF Finish, Processes
<1>12. Core'
  BY <1>1, <1>2, <1>5, <1>7, <1>9, <1>10, <1>11, OneOp, OverOK
<1> QED BY <1>4, <1>12, Parts, PTL

LEMMA ConflictOK ==
  ASSUME IInv, NEW p \in Requests, Conflict(p)
  PROVE  IInv'
<1>1. Core /\ Rest' /\ ProposalsStay
  BY Parts, RestStays DEF Conflict
<1>2. row' \in Rows /\ op' = op /\ Over(p) /\ p \in Processes
  BY <1>1 DEF Conflict, Core, Processes
<1>3. Core'
  BY <1>1, <1>2, SameOps, OverOK
<1> QED BY <1>1, <1>3, Parts, PTL

(* A fault leaves everything external as it is.                            *)
LEMMA InterruptOK ==
  ASSUME IInv, NEW p \in Requests, Interrupt(p)
  PROVE  IInv'
<1>1. Core /\ Rest /\ ProposalsStay
  BY Parts DEF Interrupt, ProposalsStay
<1>2. faults' \in 0..MaxFaults
  BY <1>1, BoundAssumption DEF Rest, Interrupt, Fault
<1>3. Rest'
  BY <1>1, <1>2 DEF Rest, Interrupt, storage
<1>4. Core'
  BY <1>1, GiveUpOK DEF Interrupt
<1> QED BY <1>3, <1>4, Parts, PTL

LEMMA CrashOK ==
  ASSUME IInv, NEW p \in Processes, Crash(p)
  PROVE  IInv'
<1>1. Core /\ Rest /\ ProposalsStay
  BY Parts DEF Crash, ProposalsStay
<1>2. faults' \in 0..MaxFaults /\ lock' \in Confirmers \cup {None}
  BY <1>1, BoundAssumption DEF Rest, Crash, Fault
<1>3. Rest'
  BY <1>1, <1>2 DEF Rest, Crash, storage
<1>4. row' \in Rows /\ op' = op /\ Over(p)
  BY <1>1 DEF Crash, Core
<1>5. Core'
  BY <1>1, <1>4, SameOps, OverOK
<1> QED BY <1>3, <1>5, Parts, PTL

(* The first step fits the phase the request starts from.                  *)
LEMMA FirstStepOK ==
  ASSUME NEW o, OpInv(o), o.status # "absent"
  PROVE  FirstStep(o) \in RequestSteps /\ HeldInv(FirstStep(o), o, o)
<1>1. Grows(o, o)
  BY DEF Grows
<1>2. /\ FirstStep(o) \in {"checkpoint", "find", "write_card", "finish", "reject"}
      /\ FirstStep(o) = "find" => o.target # None
      /\ FirstStep(o) = "write_card" => o.target # None /\ o.url # None
      /\ FirstStep(o) = "finish" => o.url # None
  BY DEF FirstStep, OpInv
<1>3. None # o.target => o.target = o.dest
  BY DEF OpInv
<1>4. FirstStep(o) = "finish" => o.target # None
  BY <1>2 DEF OpInv
<1> QED BY <1>1, <1>2, <1>4 DEF HeldInv, RequestSteps

LEMMA StartOK ==
  ASSUME Core, ProposalsStay, NEW p \in Requests, NEW k \in Keys, NEW o, OpInv(o),
         o.status # "absent", op[k].status # "absent" => Grows(op[k], o), Start(p, k, o)
  PROVE  Core'
<1> DEFINE x == [row EXCEPT !.lease = p, !.expired = FALSE]
           step == FirstStep(o)
<1>1. /\ row' = x /\ op' = [op EXCEPT ![k] = o] /\ job' = [job EXCEPT ![p] = k]
      /\ mem' = [mem EXCEPT ![p] = [row |-> x, op |-> o]] /\ pc' = [pc EXCEPT ![p] = step]
  BY DEF Start, Goto
<1>2. x \in Rows
  BY DEF Core, Rows
<1>3. step \in RequestSteps /\ HeldInv(step, o, o) /\ o \in Operations
  BY FirstStepOK DEF OpInv
<1> HIDE DEF x, step
<1>4. p \in Processes
  BY DEF Processes
<1>5. /\ op' \in [Keys -> Operations] /\ job' \in [Processes -> Keys \cup Proposals \cup {None}]
      /\ mem' \in [Processes -> [row : Rows, op : Operations]]
  BY <1>1, <1>2, <1>3, <1>4 DEF Core
<1>6. pc' \in [Processes -> Steps]
  BY <1>1, <1>3 DEF Core, RequestSteps, Steps
<1>7. \A j \in Keys : op'[j] = IF j = k THEN o ELSE op[j]
  BY <1>1 DEF Core
<1>8. \A j \in Keys : op[j].status # "absent" => Grows(op[j], op[j])
  BY DEF Grows
<1>9. /\ \A j \in Keys : OpInv(op'[j])
      /\ \A j \in Keys : op[j].status # "absent" => Grows(op[j], op'[j])
  BY <1>7, <1>8 DEF Core
<1>10. pc'[p] = step /\ job'[p] = k /\ mem'[p].op = o
  BY <1>1, <1>4 DEF Core
<1>11. RequestInv(p)'
  BY <1>3, <1>7, <1>10 DEF RequestInv
<1>12. \A q \in Processes \ {p} : pc'[q] = pc[q] /\ job'[q] = job[q] /\ mem'[q] = mem[q]
  BY <1>1 DEF Core
<1>13. ASSUME NEW q \in Requests, q # p PROVE RequestInv(q)'
  BY <1>9, <1>12, <1>13, OtherRequest DEF Core, Processes
<1>14. ASSUME NEW c \in Confirmers PROVE ConfirmInv(c)'
  BY <1>12, Names, OtherConfirm DEF Core, Processes
<1> QED BY <1>1, <1>2, <1>5, <1>6, <1>9, <1>11, <1>13, <1>14 DEF Core

LEMMA BeginOK ==
  ASSUME IInv, NEW p \in Requests, NEW k \in Keys, NEW d \in Folders, Begin(p, k, d)
  PROVE  IInv'
<1>1. Core /\ Rest' /\ ProposalsStay
  BY Parts, RestStays DEF Begin
<1> DEFINE n == [NoOperation EXCEPT !.status = "pending", !.dest = d, !.version = row.version]
<1>2. OpInv(n) /\ n.status # "absent"
  BY <1>1 DEF Core, Rows, OpInv, NoOperation, Operations, Phases
<1>3. (OpInv(op[k]) /\ Grows(op[k], op[k])) \/ op[k].status = "absent"
  BY <1>1 DEF Core, Grows
<1>4. \/ op[k].status = "absent" /\ Start(p, k, n)
      \/ op[k].status # "absent" /\ Start(p, k, op[k])
  BY DEF Begin
<1> HIDE DEF n
<1>5. Core'
  BY <1>1, <1>2, <1>3, <1>4, StartOK
<1> QED BY <1>1, <1>5, Parts, PTL
-----------------------------------------------------------------------------
(* The other steps.                                                        *)

(* A step that leaves the local states and the operations.                 *)
LEMMA LocalStays ==
  ASSUME Core, ProposalsStay, row' \in Rows, op' = op, UNCHANGED local
  PROVE  Core'
<1>1. UNCHANGED <<pc, job, mem>>
  BY DEF local
<1>2. ASSUME NEW p \in Requests PROVE RequestInv(p)'
  BY <1>1, SameOps, OtherRequest DEF Core
<1>3. ASSUME NEW c \in Confirmers PROVE ConfirmInv(c)'
  BY <1>1, OtherConfirm DEF Core
<1> QED BY <1>1, <1>2, <1>3, SameOps DEF Core

LEMMA ExpireLeaseOK ==
  ASSUME IInv, ExpireLease
  PROVE  IInv'
<1>1. Core /\ Rest' /\ ProposalsStay
  BY Parts, RestStays DEF ExpireLease
<1>2. row' \in Rows
  BY <1>1 DEF ExpireLease, Core, Rows
<1>3. Core'
  BY <1>1, <1>2, LocalStays DEF ExpireLease
<1> QED BY <1>1, <1>3, Parts, PTL

(* The end of a task is seen only by the request that waits for it.        *)
LEMMA EndTasksOK ==
  ASSUME Core, ProposalsStay, NEW done, NEW lost, NEW reported,
         EndTasks(done, lost, reported), UNCHANGED <<row, op, job, mem>>
  PROVE  Core'
<1>1. pc' = [p \in Processes |-> IF reported /\ \E t \in lost : Waiting(p, t)
                                   THEN "task_failed" ELSE pc[p]]
  BY DEF EndTasks
<1>2. \A p \in Processes :
        \/ pc'[p] = pc[p]
        \/ pc'[p] = "task_failed" /\ pc[p] \in {"moving_file", "moving_marker"}
  BY <1>1 DEF Waiting
<1>3. pc' \in [Processes -> Steps]
  <2>1. \A p \in Processes : pc[p] \in Steps /\ "task_failed" \in Steps
    BY DEF Core, Steps
  <2> QED BY <1>1, <2>1
<1>4. ASSUME NEW p \in Requests PROVE RequestInv(p)'
  <2>1. CASE pc'[p] = pc[p]
    BY <2>1, SameOps, OtherRequest DEF Core
  <2>2. CASE pc'[p] = "task_failed" /\ pc[p] \in {"moving_file", "moving_marker"}
    <3>1. job[p] \in Keys /\ HeldInv(pc[p], mem[p].op, op[job[p]])
      BY <2>2, Held
    <3>2. HeldInv("task_failed", mem[p].op, op[job[p]]) /\ "task_failed" \in RequestSteps
      BY <2>2, <3>1 DEF HeldInv, RequestSteps
    <3> QED BY <2>2, <3>1, <3>2 DEF RequestInv
  <2> QED BY <1>2, <2>1, <2>2 DEF Processes
<1>5. ASSUME NEW c \in Confirmers PROVE ConfirmInv(c)'
  <2>1. ConfirmInv(c) /\ c \in Processes
    BY DEF Core, Processes
  <2>2. pc[c] \notin {"moving_file", "moving_marker"}
    BY <2>1 DEF ConfirmInv, ConfirmSteps
  <2> QED BY <1>2, <2>1, <2>2, OtherConfirm
<1> QED BY <1>3, <1>4, <1>5, SameOps DEF Core

LEMMA FinishTaskOK ==
  ASSUME IInv, NEW t \in tasks, FinishTask(t)
  PROVE  IInv'
<1>1. Core /\ Rest /\ ProposalsStay
  BY Parts DEF FinishTask, ProposalsStay
<1>2. t.from \in Folders /\ t.to \in Folders
  BY <1>1 DEF Rest, Tasks
<1>3. \A done, lost, reported :
        EndTasks(done, lost, reported) => Core' /\ tasks' \in SUBSET Tasks
  <2>1. UNCHANGED <<row, op, job, mem>>
    BY DEF FinishTask
  <2>2. \A done, lost, reported : EndTasks(done, lost, reported) => tasks' \in SUBSET Tasks
    BY <1>1 DEF EndTasks, Rest
  <2> QED BY <1>1, <2>1, <2>2, EndTasksOK
<1>4. Core' /\ tasks' \in SUBSET Tasks
  BY <1>3 DEF FinishTask
<1>5. file' \in [Folders -> Whose] /\ marker' \in [Folders -> Whose]
  BY <1>1, <1>2 DEF FinishTask, Rest, Carried, Whose
<1>6. Rest'
  BY <1>1, <1>4, <1>5 DEF FinishTask, Rest
<1> QED BY <1>4, <1>6, Parts, PTL

LEMMA OtherRecordingOK ==
  ASSUME IInv, NEW f \in Folders, ClaimOther(f) \/ StoreOther(f)
  PROVE  IInv'
<1>1. Core /\ Rest /\ ProposalsStay
  BY Parts DEF ClaimOther, StoreOther, ProposalsStay
<1>2. file' \in [Folders -> Whose] /\ marker' \in [Folders -> Whose]
  BY <1>1 DEF ClaimOther, StoreOther, Rest, Whose
<1>3. Rest'
  BY <1>1, <1>2 DEF ClaimOther, StoreOther, Rest
<1>4. row' \in Rows /\ op' = op /\ UNCHANGED local
  BY <1>1 DEF ClaimOther, StoreOther, Core
<1>5. Core'
  BY <1>1, <1>4, LocalStays
<1> QED BY <1>3, <1>5, Parts, PTL

LEMMA ProposeOK ==
  ASSUME IInv, NEW q \in Proposals, NEW g \in Pages, Propose(q, g)
  PROVE  IInv'
<1>1. Core /\ Rest
  BY Parts
<1> DEFINE x == [ status |-> "pending", written |-> FALSE, version |-> row.version,
                  source |-> row.page, target |-> g,
                  shown |-> [source |-> card[row.page], target |-> card[g]] ]
<1>2. proposal' = [proposal EXCEPT ![q] = x]
  BY DEF Propose
<1>3. row.page \in Pages /\ row.version \in Nat
  BY <1>1 DEF Core, Rows
<1>4. x \in ProposalRows /\ ProposalInv(x) /\ x.status # "absent"
  BY <1>1, <1>3 DEF Rest, ProposalRows, ProposalInv
<1> HIDE DEF x
<1>5. /\ proposal' \in [Proposals -> ProposalRows]
      /\ \A r \in Proposals : ProposalInv(proposal'[r])
      /\ ProposalsStay
  BY <1>1, <1>2, <1>4 DEF Rest, ProposalsStay
<1>6. Rest'
  BY <1>1, <1>5 DEF Propose, Rest, storage
<1>7. row' \in Rows /\ op' = op /\ UNCHANGED local
  BY <1>1 DEF Propose, Core
<1>8. Core'
  BY <1>1, <1>5, <1>7, LocalStays
<1> QED BY <1>6, <1>8, Parts, PTL

(* A change of phase of a proposal.                                        *)
LEMMA ProposalPhase ==
  ASSUME Rest, NEW q \in Proposals, NEW x, x \in ProposalRows, x.status # "absent",
         x.source = proposal[q].source, x.target = proposal[q].target,
         proposal[q].status # "absent", proposal' = [proposal EXCEPT ![q] = x]
  PROVE  /\ proposal' \in [Proposals -> ProposalRows]
         /\ \A r \in Proposals : ProposalInv(proposal'[r])
         /\ ProposalsStay
BY DEF Rest, ProposalInv, ProposalsStay

LEMMA ExpireProposalOK ==
  ASSUME IInv, NEW q \in Proposals, ExpireProposal(q)
  PROVE  IInv'
<1>1. Core /\ Rest
  BY Parts
<1> DEFINE x == [proposal[q] EXCEPT !.status = "expired"]
<1>2. proposal' = [proposal EXCEPT ![q] = x] /\ proposal[q].status # "absent"
  BY DEF ExpireProposal
<1>3. proposal[q] \in ProposalRows
  BY <1>1 DEF Rest
<1>4. /\ x \in ProposalRows /\ x.status = "expired" /\ x.source = proposal[q].source
      /\ x.target = proposal[q].target
  BY <1>3 DEF ProposalRows
<1> HIDE DEF x
<1>5. /\ proposal' \in [Proposals -> ProposalRows] /\ ProposalsStay
      /\ \A r \in Proposals : ProposalInv(proposal'[r])
  BY <1>1, <1>2, <1>4, ProposalPhase
<1>6. Rest'
  BY <1>1, <1>5 DEF ExpireProposal, Rest, storage
<1>7. row' \in Rows /\ op' = op /\ UNCHANGED local
  BY <1>1 DEF ExpireProposal, Core
<1>8. Core'
  BY <1>1, <1>5, <1>7, LocalStays
<1> QED BY <1>6, <1>8, Parts, PTL

LEMMA EditCardOK ==
  ASSUME IInv, NEW g \in Pages, EditCard(g)
  PROVE  IInv'
<1>1. Core /\ Rest /\ ProposalsStay
  BY Parts DEF EditCard, ProposalsStay
<1>2. edits' \in 0..MaxEdits /\ card' \in [Pages -> Folders \cup {None}]
  BY <1>1, BoundAssumption DEF EditCard, Rest
<1>3. Rest'
  BY <1>1, <1>2 DEF EditCard, Rest, storage
<1>4. row' \in Rows /\ op' = op /\ UNCHANGED local
  BY <1>1 DEF EditCard, Core
<1>5. Core'
  BY <1>1, <1>4, LocalStays
<1> QED BY <1>3, <1>5, Parts, PTL
-----------------------------------------------------------------------------
(* Each step of a confirmation preserves IInv.                             *)

(* What is known of a confirmation that runs.                              *)
LEMMA Confirming ==
  ASSUME Core, Rest, NEW c \in Confirmers, pc[c] # "idle"
  PROVE  /\ c \in Processes /\ job[c] \in Proposals /\ mem[c].row \in Rows
         /\ proposal[job[c]] \in ProposalRows /\ proposal[job[c]].status # "absent"
         /\ proposal[job[c]].source \in Pages /\ proposal[job[c]].target \in Pages
<1>1. c \in Processes /\ ConfirmInv(c)
  BY DEF Core, Processes
<1>2. job[c] \in Proposals /\ proposal[job[c]].status # "absent"
  BY <1>1 DEF ConfirmInv
<1>3. mem[c] \in [row : Rows, op : Operations]
  BY <1>1 DEF Core
<1>4. mem[c].row \in Rows
  BY <1>3
<1> QED BY <1>1, <1>2, <1>4 DEF Rest, ProposalInv

(* It goes on.                                                             *)
LEMMA ConfirmGoes ==
  ASSUME Core, ProposalsStay, NEW c \in Confirmers, NEW step \in ConfirmSteps,
         Goto(c, step), row' = row, op' = op,
         job' \in [Processes -> Keys \cup Proposals \cup {None}],
         mem' \in [Processes -> [row : Rows, op : Operations]],
         \A q \in Processes \ {c} : job'[q] = job[q] /\ mem'[q] = mem[q],
         job'[c] \in Proposals, proposal'[job'[c]].status # "absent"
  PROVE  Core'
<1>1. pc' \in [Processes -> Steps]
  BY DEF Core, Goto, Steps, ConfirmSteps
<1>2. \A q \in Processes \ {c} : pc'[q] = pc[q]
  BY DEF Core, Goto
<1>3. pc'[c] = step
  BY DEF Core, Goto, Processes
<1>4. ConfirmInv(c)'
  BY <1>3 DEF ConfirmInv
<1>5. ASSUME NEW p \in Requests PROVE RequestInv(p)'
  <2>1. p \in Processes \ {c}
    BY Names DEF Processes
  <2> QED BY <1>2, <2>1, SameOps, OtherRequest DEF Core
<1>6. ASSUME NEW d \in Confirmers, d # c PROVE ConfirmInv(d)'
  BY <1>2, <1>6, OtherConfirm DEF Core, Processes
<1> QED BY <1>1, <1>4, <1>5, <1>6, SameOps DEF Core

(* The same while its local state stays but for the step.                  *)
LEMMA ConfirmNext ==
  ASSUME Core, Rest, ProposalsStay, NEW c \in Confirmers, pc[c] # "idle",
         NEW step \in ConfirmSteps, Goto(c, step), UNCHANGED <<row, op, job, mem>>
  PROVE  Core'
<1>1. job[c] \in Proposals /\ proposal'[job[c]].status # "absent"
  BY Confirming DEF ProposalsStay
<1>2. /\ job' \in [Processes -> Keys \cup Proposals \cup {None}]
      /\ mem' \in [Processes -> [row : Rows, op : Operations]]
  BY DEF Core
<1> QED BY <1>1, <1>2, ConfirmGoes

(* Or it ends.                                                             *)
LEMMA AbandonOK ==
  ASSUME Core, ProposalsStay, NEW c \in Confirmers, Abandon(c), row' \in Rows, op' = op
  PROVE  Core' /\ lock' \in Confirmers \cup {None}
<1>1. Over(c) /\ lock' = None /\ c \in Processes
  BY DEF Abandon, Processes
<1> QED BY <1>1, SameOps, OverOK

LEMMA BeginConfirmOK ==
  ASSUME IInv, NEW c \in Confirmers, NEW q \in Proposals, BeginConfirm(c, q)
  PROVE  IInv'
<1>1. Core /\ Rest /\ ProposalsStay
  BY Parts DEF BeginConfirm, ProposalsStay
<1>2. Rest'
  BY <1>1 DEF BeginConfirm, Rest, storage
<1>3. c \in Processes /\ proposal'[q].status # "absent"
  BY DEF BeginConfirm, Processes
<1>4. job' = [job EXCEPT ![c] = q] /\ mem' = [mem EXCEPT ![c].row = row]
  BY DEF BeginConfirm
<1>5. /\ job' \in [Processes -> Keys \cup Proposals \cup {None}] /\ job'[c] = q
      /\ mem' \in [Processes -> [row : Rows, op : Operations]]
      /\ \A r \in Processes \ {c} : job'[r] = job[r] /\ mem'[r] = mem[r]
  BY <1>1, <1>3, <1>4 DEF Core
<1>6. Goto(c, "compare") /\ "compare" \in ConfirmSteps /\ row' = row /\ op' = op
  BY DEF BeginConfirm, ConfirmSteps
<1>7. Core'
  BY <1>1, <1>3, <1>5, <1>6, ConfirmGoes
<1> QED BY <1>2, <1>7, Parts, PTL

LEMMA CompareOK ==
  ASSUME IInv, NEW c \in Confirmers, Compare(c)
  PROVE  IInv'
<1>1. Core /\ Rest /\ ProposalsStay
  BY Parts DEF Compare, ProposalsStay
<1>2. pc[c] # "idle" /\ row' \in Rows /\ UNCHANGED <<row, op>>
  BY <1>1 DEF Compare, Core
<1> DEFINE step == IF proposal[job[c]].written THEN "clear" ELSE "write_target"
<1>3. \/ Goto(c, step) /\ UNCHANGED <<job, mem, lock>>
      \/ Abandon(c)
  BY DEF Compare
<1>4. step \in ConfirmSteps
  BY DEF ConfirmSteps
<1> HIDE DEF step
<1>5. Goto(c, step) /\ UNCHANGED <<job, mem, lock>> => Core' /\ lock' \in Confirmers \cup {None}
  BY <1>1, <1>2, <1>4, ConfirmNext DEF Rest
<1>6. Core' /\ lock' \in Confirmers \cup {None}
  BY <1>1, <1>2, <1>3, <1>5, AbandonOK
<1>7. Rest'
  BY <1>1, <1>6 DEF Compare, Rest, storage
<1> QED BY <1>6, <1>7, Parts, PTL

LEMMA WriteTargetOK ==
  ASSUME IInv, NEW c \in Confirmers, WriteTarget(c)
  PROVE  IInv'
<1>1. Core /\ Rest /\ ProposalsStay /\ pc[c] # "idle"
  BY Parts DEF WriteTarget, ProposalsStay
<1>2. mem[c].row.link \in Folders
  BY <1>1, Confirming DEF Rows
<1>3. card' \in [Pages -> Folders \cup {None}]
  BY <1>1, <1>2 DEF WriteTarget, Rest
<1>4. Rest'
  BY <1>1, <1>3 DEF WriteTarget, Rest, storage
<1>5. Core'
  BY <1>1, ConfirmNext DEF WriteTarget, ConfirmSteps
<1> QED BY <1>4, <1>5, Parts, PTL

LEMMA VerifyTargetOK ==
  ASSUME IInv, NEW c \in Confirmers, VerifyTarget(c)
  PROVE  IInv'
<1>1. Core /\ Rest /\ pc[c] # "idle" /\ row' \in Rows /\ UNCHANGED <<row, op>>
  BY Parts DEF VerifyTarget, Core
<1> DEFINE x == [proposal[job[c]] EXCEPT !.written = TRUE]
<1>2. /\ job[c] \in Proposals /\ proposal[job[c]] \in ProposalRows
      /\ proposal[job[c]].status # "absent"
  BY <1>1, Confirming
<1>3. /\ x \in ProposalRows /\ x.status # "absent"
      /\ x.source = proposal[job[c]].source /\ x.target = proposal[job[c]].target
  BY <1>2 DEF ProposalRows
<1>4. \/ /\ proposal' = [proposal EXCEPT ![job[c]] = x] /\ lock' = None
         /\ Goto(c, "clear") /\ UNCHANGED <<job, mem>>
      \/ Abandon(c) /\ proposal' = proposal
  BY <1>1, <1>2 DEF VerifyTarget, Rest
<1> HIDE DEF x
<1>5. /\ proposal' \in [Proposals -> ProposalRows] /\ ProposalsStay
      /\ \A r \in Proposals : ProposalInv(proposal'[r])
  <2>1. proposal' = [proposal EXCEPT ![job[c]] = x] \/ proposal' = proposal
    BY <1>4
  <2>2. CASE proposal' = proposal
    BY <1>1, <2>2 DEF Rest, ProposalsStay
  <2> QED BY <1>1, <1>2, <1>3, <2>1, <2>2, ProposalPhase
<1>6. "clear" \in ConfirmSteps
  BY DEF ConfirmSteps
<1>7. Goto(c, "clear") /\ UNCHANGED <<job, mem>> => Core'
  BY <1>1, <1>5, <1>6, ConfirmNext
<1>8. Core' /\ lock' \in Confirmers \cup {None}
  BY <1>1, <1>4, <1>5, <1>7, AbandonOK
<1>9. Rest'
  BY <1>1, <1>5, <1>8 DEF VerifyTarget, Rest, storage
<1> QED BY <1>8, <1>9, Parts, PTL

LEMMA ClearOK ==
  ASSUME IInv, NEW c \in Confirmers, Clear(c)
  PROVE  IInv'
<1>1. Core /\ Rest /\ ProposalsStay /\ pc[c] # "idle"
  BY Parts DEF Clear, ProposalsStay
<1>2. card' \in [Pages -> Folders \cup {None}]
  BY <1>1 DEF Clear, Rest
<1>3. Rest'
  BY <1>1, <1>2 DEF Clear, Rest, storage
<1>4. Core'
  BY <1>1, ConfirmNext DEF Clear, ConfirmSteps
<1> QED BY <1>3, <1>4, Parts, PTL

LEMMA CommitPageOK ==
  ASSUME IInv, NEW c \in Confirmers, CommitPage(c)
  PROVE  IInv'
<1>1. Core /\ Rest /\ pc[c] # "idle" /\ op' = op /\ Abandon(c)
  BY Parts DEF CommitPage
<1> DEFINE x == [proposal[job[c]] EXCEPT !.status = "completed", !.written = FALSE]
<1>2. /\ job[c] \in Proposals /\ proposal[job[c]] \in ProposalRows
      /\ proposal[job[c]].status # "absent" /\ proposal[job[c]].target \in Pages
      /\ mem[c].row \in Rows
  BY <1>1, Confirming
<1>3. /\ x \in ProposalRows /\ x.status # "absent"
      /\ x.source = proposal[job[c]].source /\ x.target = proposal[job[c]].target
  BY <1>2 DEF ProposalRows
<1>4. proposal' = [proposal EXCEPT ![job[c]] = x]
  BY <1>1, <1>2 DEF CommitPage, Rest
<1> HIDE DEF x
<1>5. /\ proposal' \in [Proposals -> ProposalRows] /\ ProposalsStay
      /\ \A r \in Proposals : ProposalInv(proposal'[r])
  BY <1>1, <1>2, <1>3, <1>4, ProposalPhase
<1>6. row' \in Rows
  <2>1. mem[c].row.version + 1 \in Nat
    BY <1>2 DEF Rows
  <2> QED BY <1>1, <1>2, <2>1 DEF CommitPage, Core, Rows
<1>7. Core' /\ lock' \in Confirmers \cup {None}
  BY <1>1, <1>5, <1>6, AbandonOK
<1>8. Rest'
  BY <1>1, <1>5, <1>7 DEF CommitPage, Rest, storage
<1> QED BY <1>7, <1>8, Parts, PTL
-----------------------------------------------------------------------------
(* The invariant.                                                          *)

LEMMA InitOK == Init => IInv
<1> SUFFICES ASSUME Init PROVE IInv
  OBVIOUS
<1>1. FirstRow \in Rows /\ NoOperation \in Operations /\ NoProposal \in ProposalRows
  BY HomeAssumption, PageAssumption DEF FirstRow, Rows, NoOperation, Operations,
     NoProposal, ProposalRows
<1>2. OpInv(NoOperation) /\ ProposalInv(NoProposal)
  BY <1>1 DEF OpInv, NoOperation, ProposalInv, NoProposal
<1>3. \A p \in Processes : pc[p] = "idle"
  BY DEF Init
<1>4. Core
  <2>1. NoCopy \in [row : Rows, op : Operations]
    BY <1>1 DEF NoCopy
  <2>2. /\ row \in Rows /\ op \in [Keys -> Operations] /\ pc \in [Processes -> Steps]
        /\ job \in [Processes -> Keys \cup Proposals \cup {None}]
        /\ mem \in [Processes -> [row : Rows, op : Operations]]
    BY <1>1, <2>1 DEF Init, Steps
  <2>3. \A k \in Keys : OpInv(op[k])
    BY <1>2 DEF Init
  <2> QED BY <1>3, <2>2, <2>3 DEF Core, RequestInv, ConfirmInv, Processes
<1>5. Rest
  <2>1. StoredFiles \in [Folders -> Whose]
    BY DEF StoredFiles, Whose
  <2>2. /\ proposal \in [Proposals -> ProposalRows]
        /\ \A q \in Proposals : ProposalInv(proposal[q])
    BY <1>1, <1>2 DEF Init
  <2>3. links \in [Folders -> Nat] /\ card \in [Pages -> Folders \cup {None}]
    BY HomeAssumption DEF Init
  <2> QED BY <2>1, <2>2, <2>3, HomeAssumption, BoundAssumption DEF Init, Rest
<1> QED BY <1>4, <1>5, Parts

LEMMA NextOK == IInv /\ [Next]_vars => IInv'
<1> SUFFICES ASSUME IInv, [Next]_vars PROVE IInv'
  OBVIOUS
<1>1. ASSUME NEW p \in Requests, NEW k \in Keys, NEW d \in Folders, Begin(p, k, d)
      PROVE  IInv'
  BY <1>1, BeginOK
<1>2. ASSUME NEW p \in Requests, RequestStep(p) \/ Interrupt(p)
      PROVE  IInv'
  BY <1>2, RejectOK, CheckpointOK, ProbeOK, InspectOK, MoveFileOK, MoveMarkerOK, ProveMoveOK,
     NotMovedOK, FindOK, CreateOK, CommitLinkOK, WriteCardOK, ReadCardOK, FinishOK,
     ConflictOK, InterruptOK DEF RequestStep
<1>3. ASSUME NEW p \in Processes, Crash(p)
      PROVE  IInv'
  BY <1>3, CrashOK
<1>4. ASSUME NEW t \in tasks, FinishTask(t)
      PROVE  IInv'
  BY <1>4, FinishTaskOK
<1>5. ASSUME NEW f \in Shared, ClaimOther(f) \/ StoreOther(f)
      PROVE  IInv'
  BY <1>5, HomeAssumption, OtherRecordingOK
<1>6. ASSUME NEW q \in Proposals, ExpireProposal(q) \/ \E g \in Pages : Propose(q, g)
      PROVE  IInv'
  BY <1>6, ExpireProposalOK, ProposeOK
<1>7. ASSUME NEW c \in Confirmers, ConfirmStep(c) \/ \E q \in Proposals : BeginConfirm(c, q)
      PROVE  IInv'
  BY <1>7, BeginConfirmOK, CompareOK, WriteTargetOK, VerifyTargetOK, ClearOK, CommitPageOK
     DEF ConfirmStep
<1>8. ASSUME NEW g \in Pages, EditCard(g)
      PROVE  IInv'
  BY <1>8, EditCardOK
<1>9. ExpireLease => IInv'
  BY ExpireLeaseOK
<1>10. CASE UNCHANGED vars
  <2>1. Core /\ Rest /\ UNCHANGED local /\ row' = row /\ op' = op /\ ProposalsStay
    BY <1>10, Parts DEF vars, local, ProposalsStay
  <2>2. row' \in Rows
    BY <2>1 DEF Core
  <2>3. Core'
    BY <2>1, <2>2, LocalStays
  <2>4. Rest'
    BY <1>10, <2>1 DEF Rest, vars, storage
  <2> QED BY <2>3, <2>4, Parts, PTL
<1> QED BY <1>1, <1>2, <1>3, <1>4, <1>5, <1>6, <1>7, <1>8, <1>9, <1>10 DEF Next

(* Type correctness of reroutes and reassignments (app/services/reroute.py *)
(* and app/services/notion_reassignment.py): a request that carries a file *)
(* or writes a card always has a folder and a link to do it with.          *)
THEOREM RerouteTypeCorrect == Spec => []TypeOK
<1>1. IInv => TypeOK
  BY DEF IInv
<1> QED BY <1>1, InitOK, NextOK, PTL DEF Spec
-----------------------------------------------------------------------------
(* Neither lost nor doubled.                                               *)

OnlyOne(where) == \E f \in Folders : \A g \in Folders : (where[g] = "ours") = (g = f)

(* A task that is carried out moves one item into an empty place.          *)
LEMMA CarriedKeepsOne ==
  ASSUME NEW where \in [Folders -> Whose], NEW t \in Tasks, OnlyOne(where), Movable(where, t)
  PROVE  OnlyOne(Carried(where, t))
<1>1. PICK f \in Folders : \A g \in Folders : (where[g] = "ours") = (g = f)
  BY DEF OnlyOne
<1>2. t.from \in Folders /\ t.to \in Folders
  BY DEF Tasks
<1>3. /\ where[t.from] # "nobody" /\ where[t.to] = "nobody" /\ t.from # t.to
  BY DEF Movable
<1> DEFINE after == Carried(where, t)
<1>4. \A g \in Folders : after[g] = IF g = t.to THEN where[t.from]
                                    ELSE IF g = t.from THEN "nobody" ELSE where[g]
  BY <1>2, <1>3 DEF Carried
<1>5. CASE f = t.from
  <2>1. \A g \in Folders : (after[g] = "ours") = (g = t.to)
    BY <1>1, <1>2, <1>3, <1>4, <1>5
  <2> HIDE DEF after
  <2>2. OnlyOne(after)
    BY <1>2, <2>1 DEF OnlyOne
  <2> QED BY <2>2 DEF after
<1>6. CASE f # t.from
  <2>1. where[t.from] # "ours" /\ f # t.to
    BY <1>1, <1>2, <1>3, <1>6
  <2>2. \A g \in Folders : (after[g] = "ours") = (g = f)
    BY <1>1, <1>2, <1>4, <1>6, <2>1
  <2> HIDE DEF after
  <2>3. OnlyOne(after)
    BY <2>2 DEF OnlyOne
  <2> QED BY <2>3 DEF after
<1> QED BY <1>5, <1>6

(* Another recording is stored where there was nothing of ours.            *)
LEMMA OtherKeepsOne ==
  ASSUME NEW where \in [Folders -> Whose], NEW f \in Folders, OnlyOne(where),
         where[f] # "ours"
  PROVE  OnlyOne([where EXCEPT ![f] = "theirs"])
<1> DEFINE after == [where EXCEPT ![f] = "theirs"]
<1>1. \A g \in Folders : (after[g] = "ours") = (where[g] = "ours")
  OBVIOUS
<1> HIDE DEF after
<1>2. OnlyOne(after)
  BY <1>1 DEF OnlyOne
<1> QED BY <1>2 DEF after

LEMMA InitKeepsOne == Init => NothingLost
<1> SUFFICES ASSUME Init PROVE NothingLost
  OBVIOUS
<1>1. \A g \in Folders : (StoredFiles[g] = "ours") = (g = Home)
  BY DEF StoredFiles
<1>2. file = StoredFiles /\ marker = StoredFiles
  BY DEF Init
<1> QED BY <1>1, <1>2, HomeAssumption DEF NothingLost

(* Only the NAS and the uploads of other recordings change the storage.    *)
LEMMA StorageStays ==
  ASSUME IInv, [Next]_vars
  PROVE  \/ UNCHANGED <<file, marker>>
         \/ \E t \in tasks : FinishTask(t)
         \/ \E f \in Folders : ClaimOther(f) \/ StoreOther(f)
<1>1. ASSUME NEW p \in Requests, NEW k \in Keys, NEW d \in Folders, Begin(p, k, d)
      PROVE  UNCHANGED <<file, marker>>
  BY <1>1 DEF Begin, storage
<1>2. ASSUME NEW p \in Requests, RequestStep(p)
      PROVE  UNCHANGED <<file, marker>>
  <2>1. CASE Reject(p) \/ Checkpoint(p) \/ Probe(p) \/ Inspect(p)
    BY <2>1 DEF Reject, Checkpoint, Probe, Inspect, storage
  <2>2. CASE MoveFile(p) \/ MoveMarker(p) \/ ProveMove(p) \/ NotMoved(p)
    BY <2>2 DEF MoveFile, MoveMarker, ProveMove, NotMoved, storage
  <2>3. CASE Find(p) \/ Create(p) \/ CommitLink(p) \/ WriteCard(p) \/ ReadCard(p)
    BY <2>3 DEF Find, Create, CommitLink, WriteCard, ReadCard, storage
  <2>4. CASE Finish(p) \/ Conflict(p)
    BY <2>4 DEF Finish, Conflict, storage
  <2> QED BY <1>2, <2>1, <2>2, <2>3, <2>4 DEF RequestStep
<1>3. ASSUME NEW p \in Processes, Interrupt(p) \/ Crash(p)
      PROVE  UNCHANGED <<file, marker>>
  BY <1>3 DEF Interrupt, Crash, storage
<1>4. ASSUME NEW q \in Proposals, ExpireProposal(q) \/ \E g \in Pages : Propose(q, g)
      PROVE  UNCHANGED <<file, marker>>
  BY <1>4 DEF ExpireProposal, Propose, storage
<1>5. ASSUME NEW c \in Confirmers, ConfirmStep(c) \/ \E q \in Proposals : BeginConfirm(c, q)
      PROVE  UNCHANGED <<file, marker>>
  <2>1. CASE Compare(c) \/ WriteTarget(c) \/ VerifyTarget(c)
    BY <2>1 DEF Compare, WriteTarget, VerifyTarget, storage
  <2>2. CASE Clear(c) \/ CommitPage(c) \/ \E q \in Proposals : BeginConfirm(c, q)
    BY <2>2 DEF Clear, CommitPage, BeginConfirm, storage
  <2> QED BY <1>5, <2>1, <2>2 DEF ConfirmStep
<1>6. (\E g \in Pages : EditCard(g)) \/ ExpireLease \/ UNCHANGED vars
        => UNCHANGED <<file, marker>>
  BY DEF EditCard, ExpireLease, storage, vars
<1> QED BY <1>1, <1>2, <1>3, <1>4, <1>5, <1>6, HomeAssumption DEF Next, Processes

LEMMA NextKeepsOne == IInv /\ NothingLost /\ [Next]_vars => NothingLost'
<1> SUFFICES ASSUME IInv, NothingLost, [Next]_vars PROVE NothingLost'
  OBVIOUS
<1>1. /\ file \in [Folders -> Whose] /\ marker \in [Folders -> Whose]
      /\ tasks \in SUBSET Tasks /\ OnlyOne(file) /\ OnlyOne(marker)
  BY DEF IInv, TypeOK, NothingLost, OnlyOne
<1>2. (OnlyOne(file') /\ OnlyOne(marker')) => NothingLost'
  BY DEF OnlyOne, NothingLost
<1>3. CASE UNCHANGED <<file, marker>>
  BY <1>3 DEF NothingLost
<1>4. ASSUME NEW t \in tasks, FinishTask(t)
      PROVE  OnlyOne(file') /\ OnlyOne(marker')
  <2>1. \/ UNCHANGED <<file, marker>>
        \/ file' = Carried(file, t) /\ marker' = marker /\ Movable(file, t)
        \/ marker' = Carried(marker, t) /\ file' = file /\ Movable(marker, t)
    BY <1>1, <1>4 DEF FinishTask, Tasks
  <2> QED BY <1>1, <2>1, CarriedKeepsOne
<1>5. ASSUME NEW f \in Folders, ClaimOther(f) \/ StoreOther(f)
      PROVE  OnlyOne(file') /\ OnlyOne(marker')
  <2>1. \/ marker' = [marker EXCEPT ![f] = "theirs"] /\ file' = file /\ marker[f] # "ours"
        \/ file' = [file EXCEPT ![f] = "theirs"] /\ marker' = marker /\ file[f] # "ours"
    BY <1>5 DEF ClaimOther, StoreOther
  <2> QED BY <1>1, <2>1, OtherKeepsOne
<1> QED BY <1>2, <1>3, <1>4, <1>5, StorageStays

(* Reroutes neither lose nor double the file or its owner marker           *)
(* (app/tools/synology.py:618-711), for any number of requests, overlapping *)
(* or outliving their leases, and any number of crashes.                   *)
THEOREM NothingIsLost == Spec => []NothingLost
BY InitOK, NextOK, InitKeepsOne, NextKeepsOne, PTL DEF Spec
-----------------------------------------------------------------------------
(* The lease.                                                              *)

(* A request that runs is the one the row names, and its lease is not over. *)
HoldsLease == \A p \in Requests : pc[p] # "idle" => row.lease = p /\ ~row.expired

(* No request begins and the lease columns stay.                           *)
KeepsLease ==
  /\ row'.lease = row.lease /\ row'.expired = row.expired
  /\ \A p \in Requests : pc'[p] # "idle" => pc[p] # "idle"

(* A running request ends.                                                 *)
Ends(p) == pc[p] # "idle" /\ pc' = [pc EXCEPT ![p] = "idle"]

(* One that ends clears the lease whoever holds it, but it is its own.     *)
LEMMA LeaseKept ==
  ASSUME TypeOK, HoldsLease, KeepsLease \/ \E p \in Requests : Ends(p)
  PROVE  HoldsLease'
<1>1. CASE KeepsLease
  BY <1>1 DEF KeepsLease, HoldsLease
<1>2. ASSUME NEW p \in Requests, Ends(p) PROVE HoldsLease'
  <2>1. \A q \in Requests : q # p => pc[q] = "idle"
    BY <1>2 DEF HoldsLease, Ends
  <2>2. \A q \in Requests : pc'[q] = "idle"
    BY <1>2, <2>1 DEF Ends, TypeOK, Processes
  <2> QED BY <2>2 DEF HoldsLease
<1> QED BY <1>1, <1>2

LEMMA StepKeepsLease ==
  ASSUME TypeOK, HoldsLease, NEW p \in Requests, RequestStep(p) \/ Interrupt(p)
  PROVE  HoldsLease'
<1>1. pc[p] # "idle"
  BY DEF RequestStep, Reject, Checkpoint, Probe, Inspect, MoveFile, MoveMarker, ProveMove,
     NotMoved, Find, Create, CommitLink, WriteCard, ReadCard, Finish, Conflict, Interrupt
<1>2. Over(p) => Ends(p)
  BY <1>1 DEF Over, Goto, Ends
<1>3. ASSUME NEW step, Goto(p, step), row' = row PROVE KeepsLease
  BY <1>1, <1>3 DEF Goto, KeepsLease, TypeOK, Processes
<1>4. \A step : Continue(p, step) => KeepsLease
  BY <1>3 DEF Continue
<1>5. \A o, step : Phase(p, o, step) => KeepsLease
  BY <1>3 DEF Phase
<1>6. Over(p) \/ KeepsLease
  <2>1. CASE Reject(p) \/ Conflict(p) \/ Finish(p) \/ NotMoved(p) \/ Interrupt(p)
    BY <2>1 DEF Reject, Conflict, Finish, NotMoved, Interrupt, Fail, GiveUp
  <2>2. CASE Checkpoint(p)
    BY <2>2, <1>3 DEF Checkpoint
  <2>3. CASE Probe(p)
    BY <2>3, <1>4, <1>5 DEF Probe, Fail
  <2>4. CASE Inspect(p) \/ MoveFile(p) \/ MoveMarker(p)
    BY <2>4, <1>4 DEF Inspect, MoveFile, MoveMarker, Fail, GiveUp
  <2>5. CASE ProveMove(p) \/ ReadCard(p) \/ CommitLink(p)
    BY <2>5, <1>5 DEF ProveMove, ReadCard, CommitLink, Fail
  <2>6. CASE Find(p) \/ Create(p) \/ WriteCard(p)
    BY <2>6, <1>4 DEF Find, Create, WriteCard
  <2> QED BY <2>1, <2>2, <2>3, <2>4, <2>5, <2>6 DEF RequestStep
<1> QED BY <1>2, <1>6, LeaseKept

(* Confirmations neither take nor touch the lease.                         *)
LEMMA ConfirmKeepsLease ==
  ASSUME TypeOK, NEW c \in Confirmers,
         ConfirmStep(c) \/ \E q \in Proposals : BeginConfirm(c, q)
  PROVE  KeepsLease
<1>1. \A p \in Requests : p # c
  BY Names
<1>2. \A step : Goto(c, step) => \A p \in Requests : pc'[p] = pc[p]
  BY <1>1 DEF Goto, TypeOK, Processes
<1>3. Abandon(c) => \A p \in Requests : pc'[p] = pc[p]
  BY <1>2 DEF Abandon, Over
<1>4. \A p \in Requests : pc'[p] = pc[p]
  BY <1>2, <1>3 DEF ConfirmStep, BeginConfirm, Compare, WriteTarget, VerifyTarget, Clear, CommitPage
<1>5. row'.lease = row.lease /\ row'.expired = row.expired
  <2>1. CASE CommitPage(c)
    BY <2>1 DEF CommitPage, TypeOK, Rows
  <2>2. CASE ~CommitPage(c)
    BY <2>2 DEF ConfirmStep, BeginConfirm, Compare, WriteTarget, VerifyTarget, Clear
  <2> QED BY <2>1, <2>2
<1> QED BY <1>4, <1>5 DEF KeepsLease

LEMMA NextHoldsLease ==
  ASSUME SlowRequests = FALSE
  PROVE  TypeOK /\ HoldsLease /\ [Next]_vars => HoldsLease'
<1> SUFFICES ASSUME TypeOK, HoldsLease, [Next]_vars PROVE HoldsLease'
  OBVIOUS
<1>1. ASSUME NEW p \in Requests, NEW k \in Keys, NEW d \in Folders, Begin(p, k, d)
      PROVE  HoldsLease'
  <2>1. \A q \in Requests : pc[q] = "idle"
    BY <1>1, NamesAssumption DEF Begin, HoldsLease
  <2>2. row' = [row EXCEPT !.lease = p, !.expired = FALSE]
        /\ \E step : pc' = [pc EXCEPT ![p] = step]
    BY <1>1 DEF Begin, Start, Goto
  <2> QED BY <2>1, <2>2 DEF HoldsLease, TypeOK, Rows, Processes
<1>2. ASSUME NEW p \in Requests, RequestStep(p) \/ Interrupt(p)
      PROVE  HoldsLease'
  BY <1>2, StepKeepsLease
<1>3. ASSUME NEW p \in Processes, Crash(p)
      PROVE  HoldsLease'
  <2>1. KeepsLease
    BY <1>3 DEF Crash, Over, Goto, KeepsLease, TypeOK, Processes
  <2> QED BY <2>1, LeaseKept
<1>4. ASSUME NEW t \in tasks, FinishTask(t)
      PROVE  HoldsLease'
  <2>1. row' = row /\ \E done, lost, reported : EndTasks(done, lost, reported)
    BY <1>4 DEF FinishTask
  <2>2. \A p \in Requests : pc'[p] # "idle" => pc[p] # "idle"
    BY <2>1 DEF EndTasks, Waiting, Processes
  <2> QED BY <2>1, <2>2, LeaseKept DEF KeepsLease
<1>5. ASSUME NEW c \in Confirmers, ConfirmStep(c) \/ \E q \in Proposals : BeginConfirm(c, q)
      PROVE  HoldsLease'
  BY <1>5, ConfirmKeepsLease, LeaseKept
<1>6. CASE ExpireLease
  <2>1. row.lease \in Requests /\ pc[row.lease] = "idle" /\ pc' = pc
    BY <1>6 DEF ExpireLease, TypeOK, Rows, local
  <2> QED BY <2>1 DEF HoldsLease
<1>7. CASE \/ \E f \in Shared : ClaimOther(f) \/ StoreOther(f)
           \/ \E q \in Proposals : ExpireProposal(q) \/ \E g \in Pages : Propose(q, g)
           \/ \E g \in Pages : EditCard(g)
           \/ UNCHANGED vars
  <2>1. row' = row /\ pc' = pc
    BY <1>7 DEF ClaimOther, StoreOther, ExpireProposal, Propose, EditCard, vars, local
  <2> QED BY <2>1, LeaseKept DEF KeepsLease
<1> QED BY <1>1, <1>2, <1>3, <1>4, <1>5, <1>6, <1>7 DEF Next

(* At most one reroute request works on the recording at any time          *)
(* (reroute.py:79-84), whatever fails or crashes, provided that a request  *)
(* ends within its lease.                                                  *)
THEOREM OneReroute ==
  ASSUME SlowRequests = FALSE
  PROVE  Spec => []OneRequestAtATime
<1>1. Init => HoldsLease
  BY DEF Init, HoldsLease, Processes
<1>2. TypeOK /\ HoldsLease /\ [Next]_vars => HoldsLease'
  BY NextHoldsLease
<1>3. HoldsLease => OneRequestAtATime
  BY DEF HoldsLease, OneRequestAtATime
<1> QED BY <1>1, <1>2, <1>3, RerouteTypeCorrect, PTL DEF Spec
=============================================================================
