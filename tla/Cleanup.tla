------------------------------ MODULE Cleanup ------------------------------
(***************************************************************************)
(* app/services/cleanup.py: the recruiter asks for a preview of the source *)
(* files that may go, and confirms it with the capability it came with;    *)
(* the confirmation moves each file to the Yandex trash, leaving a         *)
(* CleanupFileResult row before and after.  A confirmation that died is    *)
(* taken up again by the same request.                                     *)
(***************************************************************************)
EXTENDS Naturals, FiniteSets, Common

CONSTANTS
  Files,            \* recordings, each with its source file on Yandex Disk
  Previews,         \* cleanup previews
  Confirms,         \* concurrent confirmations
  Fingerprints,     \* what a confirmation consumes a preview with
  MaxFileVersion,   \* bound on the versions a reroute gives a recording
  MaxConfirmStops   \* bound on confirmations that die

VARIABLES
  vault,       \* vault[f]: version and deleted_from_disk_at of the recording
  onDisk,      \* files that are not in the trash
  preview,     \* preview[v]: the CleanupPreview row v, or None
  fileResult,  \* fileResult[v][f]: state of the CleanupFileResult row, or None
  sweep,       \* sweep[p]: what confirmation p is at, or None
  confirmStops \* confirmations that died so far

cleanupVars == <<vault, onDisk, preview, fileResult, sweep, confirmStops>>

FileVersions == 0..MaxFileVersion
FileStates   == {"processing", "moved_to_trash", "failed", "skipped_drift"}

PreviewRows ==
  [ items   : [Files -> FileVersions \cup {None}],     \* snapshot
    status  : {"pending", "processing", "completed", "expired"},
    expired : BOOLEAN,                                 \* capability_expires_at is past
    by      : Fingerprints \cup {None} ]               \* confirmation_fingerprint

Sweeps ==
  [ preview : Previews,
    todo    : SUBSET Files,
    file    : Files \cup {None},     \* the item in _process_item
    next    : {"look", "insert", "move", "record"},
    state   : FileStates,            \* what the next commit gives the item
    locks   : BOOLEAN ]              \* still holds the preview FOR UPDATE

ASSUME CleanupAssumption ==
  /\ {MaxFileVersion, MaxConfirmStops} \subseteq Nat
  /\ None \notin Fingerprints \cup PreviewRows \cup FileStates \cup Sweeps

CleanupTypeOK ==
  /\ vault \in [Files -> [version : FileVersions, deleted : BOOLEAN]]
  /\ onDisk \subseteq Files
  /\ preview \in [Previews -> PreviewRows \cup {None}]
  /\ fileResult \in [Previews -> [Files -> FileStates \cup {None}]]
  /\ sweep \in [Confirms -> Sweeps \cup {None}]
  /\ confirmStops \in 0..MaxConfirmStops

CleanupInit ==
  /\ vault = [f \in Files |-> [version |-> 0, deleted |-> FALSE]]
  /\ onDisk = Files
  /\ preview = [v \in Previews |-> None]
  /\ fileResult = [v \in Previews |-> [f \in Files |-> None]]
  /\ sweep = [p \in Confirms |-> None]
  /\ confirmStops = 0
-----------------------------------------------------------------------------
(* preview: the completed, durably stored recordings (all of Files are)    *)
(* whose source is not known to be gone.                                   *)
MakePreview(v) ==
  /\ preview[v] = None
  /\ preview' = [preview EXCEPT ![v] =
       [ items |-> [f \in Files |-> IF vault[f].deleted THEN None ELSE vault[f].version],
         status |-> "pending", expired |-> FALSE, by |-> None ]]
  /\ UNCHANGED <<vault, onDisk, fileResult, sweep, confirmStops>>

PreviewExpires(v) ==
  /\ preview[v] # None /\ ~preview[v].expired /\ preview[v].by = None
  /\ preview' = [preview EXCEPT ![v].expired = TRUE]
  /\ UNCHANGED <<vault, onDisk, fileResult, sweep, confirmStops>>

(* A reroute, or a reassignment, gives the recording a new link.           *)
RecordingDrifts(f) ==
  /\ vault[f].version < MaxFileVersion
  /\ vault' = [vault EXCEPT ![f].version = @ + 1]
  /\ UNCHANGED <<onDisk, preview, fileResult, sweep, confirmStops>>
-----------------------------------------------------------------------------
(* confirm.                                                                *)

Available(p, v) ==
  /\ sweep[p] = None /\ preview[v] # None
  /\ \A q \in Confirms : sweep[q] # None => ~(sweep[q].preview = v /\ sweep[q].locks)

StartSweep(p, v, locks) ==
  sweep' = [sweep EXCEPT ![p] =
    [ preview |-> v, todo |-> {f \in Files : preview[v].items[f] # None},
      file |-> None, next |-> "look", state |-> "processing", locks |-> locks ]]

ConfirmExpired(p, v) ==
  /\ Available(p, v) /\ preview[v].status = "pending" /\ preview[v].expired
  /\ preview' = [preview EXCEPT ![v].status = "expired"]
  /\ UNCHANGED <<vault, onDisk, fileResult, sweep, confirmStops>>

(* The capability is consumed, and the commit gives the lock up.           *)
Consume(p, v) ==
  /\ Available(p, v) /\ preview[v].status = "pending" /\ ~preview[v].expired
  /\ \E k \in Fingerprints :
       preview' = [preview EXCEPT ![v].status = "processing", ![v].by = k]
  /\ StartSweep(p, v, FALSE)
  /\ UNCHANGED <<vault, onDisk, fileResult, confirmStops>>

(* Mutant of Resumable: a confirmation that died is not taken up again.    *)
ResumableNever(v, k) == FALSE

(* Another fingerprint is rejected; a finished one gets its result.        *)
Resumable(v, k) == preview[v].status = "processing" /\ preview[v].by = k

ConfirmAgain(p, v) ==
  /\ Available(p, v)
  /\ \E k \in Fingerprints : Resumable(v, k)
  /\ StartSweep(p, v, TRUE)
  /\ UNCHANGED <<vault, onDisk, preview, fileResult, confirmStops>>
-----------------------------------------------------------------------------
(* _process_item.                                                          *)

At(p, step) == sweep[p] # None /\ sweep[p].next = step

Reported(v, f) ==
  \/ fileResult[v][f] # None
  \/ \E w \in Previews : fileResult[w][f] \in {"processing", "moved_to_trash"}

Eligible(v, f) == ~vault[f].deleted /\ vault[f].version = preview[v].items[f]

(* Reads the results of the file and then its recording; nothing is locked *)
(* but the preview.                                                        *)
LookAtFile(p) ==
  /\ At(p, "look")
  /\ \E f \in sweep[p].todo :
       LET v == sweep[p].preview IN
       sweep' = [sweep EXCEPT ![p] =
         IF Reported(v, f) THEN [sweep[p] EXCEPT !.todo = @ \ {f}]
         ELSE [sweep[p] EXCEPT !.file = f, !.next = "insert",
                !.state = IF Eligible(v, f) THEN "processing" ELSE "skipped_drift"]]
  /\ UNCHANGED <<vault, onDisk, preview, fileResult, confirmStops>>

NextFile(p) ==
  [sweep[p] EXCEPT !.todo = @ \ {sweep[p].file}, !.file = None, !.next = "look", !.locks = FALSE]

(* Mutants of Inserted: the row is written with the outcome only; it says  *)
(* what the confirmation does next.                                        *)
InsertedLate(p) == fileResult

InsertedStep(p) ==
  [fileResult EXCEPT ![sweep[p].preview][sweep[p].file] = sweep[p].next]

Inserted(p) == [fileResult EXCEPT ![sweep[p].preview][sweep[p].file] = sweep[p].state]

(* uq (preview, recording): the row of another confirmation ends this one. *)
InsertResult(p) ==
  /\ At(p, "insert")
  /\ IF fileResult[sweep[p].preview][sweep[p].file] # None
       THEN sweep' = [sweep EXCEPT ![p] = None] /\ UNCHANGED fileResult
       ELSE /\ fileResult' = Inserted(p)
            /\ sweep' = [sweep EXCEPT ![p] =
                 IF sweep[p].state = "processing"
                   THEN [sweep[p] EXCEPT !.next = "move", !.locks = FALSE] ELSE NextFile(p)]
  /\ UNCHANGED <<vault, onDisk, preview, confirmStops>>

(* Mutant of MoveSucceeds: a file that is not there counts as moved.       *)
MoveSucceedsGone(f) == TRUE

MoveSucceeds(f) == f \in onDisk

(* move_to_trash: done, or an error or timeout after which it may be done. *)
MoveToTrash(p) ==
  LET f == sweep[p].file IN
  /\ At(p, "move")
  /\ \/ /\ MoveSucceeds(f)
        /\ onDisk' = onDisk \ {f}
        /\ sweep' = [sweep EXCEPT ![p].next = "record", ![p].state = "moved_to_trash"]
     \/ /\ onDisk' \in {onDisk, onDisk \ {f}}
        /\ sweep' = [sweep EXCEPT ![p].next = "record", ![p].state = "failed"]
  /\ UNCHANGED <<vault, preview, fileResult, confirmStops>>

Gone(p) == sweep[p].state = "moved_to_trash"

RecordOutcome(p) ==
  /\ At(p, "record")
  /\ fileResult' = [fileResult EXCEPT ![sweep[p].preview][sweep[p].file] = sweep[p].state]
  /\ vault' = [vault EXCEPT ![sweep[p].file].deleted = @ \/ Gone(p)]
  /\ sweep' = [sweep EXCEPT ![p] = NextFile(p)]
  /\ UNCHANGED <<onDisk, preview, confirmStops>>

CompletePreview(p) ==
  /\ At(p, "look") /\ sweep[p].todo = {}
  /\ preview' = [preview EXCEPT ![sweep[p].preview].status = "completed"]
  /\ sweep' = [sweep EXCEPT ![p] = None]
  /\ UNCHANGED <<vault, onDisk, fileResult, confirmStops>>

ConfirmStops(p) ==
  /\ sweep[p] # None /\ confirmStops < MaxConfirmStops
  /\ confirmStops' = confirmStops + 1
  /\ sweep' = [sweep EXCEPT ![p] = None]
  /\ UNCHANGED <<vault, onDisk, preview, fileResult>>
-----------------------------------------------------------------------------
SweepStep(p) ==
  LookAtFile(p) \/ InsertResult(p) \/ MoveToTrash(p) \/ RecordOutcome(p) \/ CompletePreview(p)

CleanupNext ==
  \/ \E v \in Previews :
       \/ MakePreview(v) \/ PreviewExpires(v)
       \/ \E p \in Confirms : ConfirmExpired(p, v) \/ Consume(p, v) \/ ConfirmAgain(p, v)
  \/ \E f \in Files : RecordingDrifts(f)
  \/ \E p \in Confirms : SweepStep(p) \/ ConfirmStops(p)

(* Confirmations run, and who gets no answer confirms again.               *)
Confirming == \E p \in Confirms : SweepStep(p) \/ \E v \in Previews : ConfirmAgain(p, v)

CleanupFairness == WF_cleanupVars(Confirming)

CleanupSpec == CleanupInit /\ [][CleanupNext]_cleanupVars /\ CleanupFairness
-----------------------------------------------------------------------------
(* Properties.                                                             *)

(* A file that left the disk has a row that says so, or that it may have:  *)
(* whenever the process dies, no move is without a trace, and it was asked *)
(* for by a confirmed preview that lists the file.                         *)
MovesAreTraced ==
  \A f \in Files \ onDisk :
    \E v \in Previews :
      /\ fileResult[v][f] \in FileStates \ {"skipped_drift"}
      /\ preview[v].by # None /\ preview[v].items[f] # None

(* deleted_from_disk_at is set exactly when one preview, of all that race  *)
(* for the file, records that it moved it, and then the file is gone: not  *)
(* for a move that failed, and not for one of unknown outcome.             *)
DeletedIsGone ==
  \A f \in Files :
    /\ Cardinality({v \in Previews : fileResult[v][f] = "moved_to_trash"})
         = (IF vault[f].deleted THEN 1 ELSE 0)
    /\ vault[f].deleted => f \notin onDisk

(* A consumed preview is completed in the end, wherever its confirmations  *)
(* died, and whichever other preview took one of its files.                *)
ConfirmationEnds ==
  \A v \in Previews :
    (preview[v] # None /\ preview[v].status = "processing")
      ~> (preview[v] # None /\ preview[v].status = "completed")
=============================================================================
