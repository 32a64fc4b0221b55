--------------------------- MODULE CleanupProofs ---------------------------
(***************************************************************************)
(* Proofs about Cleanup: type correctness, that no file leaves the disk    *)
(* without a trace, and that deleted_from_disk_at is what the results say, *)
(* for any files, previews and overlapping or dying confirmations.         *)
(***************************************************************************)
EXTENDS Cleanup, FiniteSetTheorems, TLAPS

(* An item that is being moved: its row is there, and says "processing".   *)
Moving(p) == sweep[p] # None /\ sweep[p].next \in {"move", "record"}

(* The file is in the trash, and not yet on record.                        *)
HasMoved(p) == sweep[p] # None /\ sweep[p].next = "record" /\ sweep[p].state = "moved_to_trash"

ItemOf(p) == sweep[p].file
RowOf(p)  == fileResult[sweep[p].preview][sweep[p].file]

(* A preview that was confirmed, and lists f.                              *)
Requested(v, f) ==
  preview[v] \in PreviewRows /\ preview[v].by \in Fingerprints /\ preview[v].items[f] # None

SweepInv ==
  \A p \in Confirms : sweep[p] # None =>
    LET v == sweep[p].preview IN
    /\ preview[v] \in PreviewRows /\ preview[v].by \in Fingerprints
    /\ \A f \in sweep[p].todo : preview[v].items[f] # None
    /\ sweep[p].next # "look" => ItemOf(p) \in Files /\ preview[v].items[ItemOf(p)] # None
    /\ sweep[p].next = "insert" => sweep[p].state \in {"processing", "skipped_drift"}
    /\ sweep[p].next = "record" => sweep[p].state \in {"moved_to_trash", "failed"}

(* The unique row of preview and file keeps two confirmations off an item. *)
RowsInv ==
  /\ \A p \in Confirms : Moving(p) => RowOf(p) = "processing"
  /\ \A p, q \in Confirms :
       Moving(p) /\ Moving(q) /\ sweep[p].preview = sweep[q].preview /\ ItemOf(p) = ItemOf(q)
         => p = q

(* One confirmation finds the file on the disk, whatever its preview is.   *)
TrashInv ==
  /\ \A p \in Confirms : HasMoved(p) =>
       /\ ItemOf(p) \notin onDisk
       /\ \A v \in Previews : fileResult[v][ItemOf(p)] # "moved_to_trash"
  /\ \A p, q \in Confirms : HasMoved(p) /\ HasMoved(q) /\ ItemOf(p) = ItemOf(q) => p = q

ResultInv ==
  \A f \in Files :
    /\ \A v \in Previews : fileResult[v][f] = "moved_to_trash" => f \notin onDisk
    /\ \A v, w \in Previews :
         fileResult[v][f] = "moved_to_trash" /\ fileResult[w][f] = "moved_to_trash" => v = w
    /\ vault[f].deleted <=> \E v \in Previews : fileResult[v][f] = "moved_to_trash"

TracedInv ==
  \A f \in Files \ onDisk : \E v \in Previews :
    fileResult[v][f] \in FileStates \ {"skipped_drift"} /\ Requested(v, f)

CleanupInv ==
  /\ CleanupTypeOK
  /\ SweepInv /\ RowsInv /\ TrashInv /\ ResultInv /\ TracedInv
-----------------------------------------------------------------------------
(* What the parts of a confirmation are.                                   *)
LEMMA SweepTyped ==
  ASSUME CleanupTypeOK, NEW p \in Confirms, sweep[p] # None
  PROVE  /\ sweep[p] \in Sweeps /\ sweep[p].preview \in Previews
         /\ sweep[p].todo \in SUBSET Files /\ sweep[p].file \in Files \cup {None}
         /\ sweep[p].next \in {"look", "insert", "move", "record"}
         /\ sweep[p].state \in FileStates /\ sweep[p].locks \in BOOLEAN
  BY DEF CleanupTypeOK, Sweeps

(* Previews that are changed keep their snapshot and their confirmation.   *)
Keeps ==
  \A v \in Previews : preview[v] \in PreviewRows =>
    /\ preview'[v] \in PreviewRows /\ preview'[v].items = preview[v].items
    /\ preview[v].by \in Fingerprints => preview'[v].by \in Fingerprints

(* Confirmations that move a file after the step did so before, likewise.  *)
Calm == \A q \in Confirms : Moving(q)' => Moving(q) /\ sweep'[q] = sweep[q]

LEMMA CalmStep ==
  ASSUME CleanupInv, Keeps, Calm, UNCHANGED <<onDisk, fileResult>>,
         \A f \in Files : vault'[f].deleted = vault[f].deleted
  PROVE  RowsInv' /\ TrashInv' /\ ResultInv' /\ TracedInv'
<1>1. RowsInv'
  BY DEF CleanupInv, RowsInv, Calm, RowOf, ItemOf
<1>2. TrashInv'
  BY DEF CleanupInv, TrashInv, Calm, Moving, HasMoved, ItemOf
<1>3. ResultInv'
  BY DEF CleanupInv, ResultInv
<1>4. TracedInv'
  BY DEF CleanupInv, TracedInv, Requested, Keeps
<1> QED
  BY <1>1, <1>2, <1>3, <1>4

(* What a confirmation knows of its preview survives changes of it.        *)
LEMMA SweepKept ==
  ASSUME CleanupInv, Keeps, UNCHANGED sweep
  PROVE  SweepInv'
<1> SUFFICES ASSUME NEW p \in Confirms, sweep[p] # None
             PROVE  LET v == sweep[p].preview IN
                    /\ preview'[v] \in PreviewRows /\ preview'[v].by \in Fingerprints
                    /\ preview'[v].items = preview[v].items
  BY DEF CleanupInv, SweepInv, ItemOf
<1> QED
  BY SweepTyped DEF CleanupInv, SweepInv, Keeps

(* What it does itself, likewise.                                          *)
SweepFits(row) ==
  /\ row \in Sweeps
  /\ LET v == row.preview IN
     /\ preview'[v] \in PreviewRows /\ preview'[v].by \in Fingerprints
     /\ \A f \in row.todo : preview'[v].items[f] # None
     /\ row.next # "look" => row.file \in Files /\ preview'[v].items[row.file] # None
     /\ row.next = "insert" => row.state \in {"processing", "skipped_drift"}
     /\ row.next = "record" => row.state \in {"moved_to_trash", "failed"}

LEMMA SweepMoves ==
  ASSUME CleanupInv, Keeps, NEW p \in Confirms, NEW row,
         sweep' = [sweep EXCEPT ![p] = row], row = None \/ SweepFits(row)
  PROVE  /\ SweepInv' /\ sweep' \in [Confirms -> Sweeps \cup {None}]
         /\ \A q \in Confirms : sweep'[q] = IF q = p THEN row ELSE sweep[q]
<1>1. \A q \in Confirms : sweep'[q] = IF q = p THEN row ELSE sweep[q]
  BY DEF CleanupInv, CleanupTypeOK
<1>2. sweep' \in [Confirms -> Sweeps \cup {None}]
  BY DEF CleanupInv, CleanupTypeOK, SweepFits
<1>3. SweepInv'
  <2> SUFFICES ASSUME NEW q \in Confirms, sweep'[q] # None
               PROVE  LET v == sweep'[q].preview IN
                      /\ preview'[v] \in PreviewRows /\ preview'[v].by \in Fingerprints
                      /\ \A f \in sweep'[q].todo : preview'[v].items[f] # None
                      /\ sweep'[q].next # "look" =>
                           sweep'[q].file \in Files /\ preview'[v].items[sweep'[q].file] # None
                      /\ sweep'[q].next = "insert" =>
                           sweep'[q].state \in {"processing", "skipped_drift"}
                      /\ sweep'[q].next = "record" =>
                           sweep'[q].state \in {"moved_to_trash", "failed"}
    BY DEF SweepInv, ItemOf
  <2>1. CASE q = p
    BY <1>1, <2>1 DEF SweepFits
  <2>2. CASE q # p
    <3>1. sweep'[q] = sweep[q] /\ sweep[q].preview \in Previews
      BY <1>1, <2>2, SweepTyped DEF CleanupInv
    <3> QED
      BY <3>1 DEF CleanupInv, SweepInv, Keeps, ItemOf
  <2> QED
    BY <2>1, <2>2
<1> QED
  BY <1>1, <1>2, <1>3

(* A confirmation that looks on, ends, or is about to insert a row.        *)
LEMMA CalmMoves ==
  ASSUME CleanupInv, Keeps, NEW p \in Confirms, NEW row,
         sweep' = [sweep EXCEPT ![p] = row],
         row = None \/ (SweepFits(row) /\ row.next \in {"look", "insert"}),
         preview' \in [Previews -> PreviewRows \cup {None}],
         confirmStops' \in 0..MaxConfirmStops,
         UNCHANGED <<vault, onDisk, fileResult>>
  PROVE  CleanupInv'
<1>1. /\ SweepInv' /\ sweep' \in [Confirms -> Sweeps \cup {None}]
      /\ \A q \in Confirms : sweep'[q] = IF q = p THEN row ELSE sweep[q]
  BY SweepMoves
<1>2. Calm
  BY <1>1 DEF Calm, Moving
<1>3. RowsInv' /\ TrashInv' /\ ResultInv' /\ TracedInv'
  BY <1>2, CalmStep
<1>4. CleanupTypeOK'
  BY <1>1 DEF CleanupInv, CleanupTypeOK
<1> QED
  BY <1>1, <1>3, <1>4 DEF CleanupInv

(* Previews come into being, expire, and are confirmed.                    *)
LEMMA PreviewChanges ==
  ASSUME CleanupInv, NEW v \in Previews, NEW row \in PreviewRows,
         preview' = [preview EXCEPT ![v] = row],
         preview[v] # None => row.items = preview[v].items,
         preview[v] # None /\ preview[v].by \in Fingerprints => row.by \in Fingerprints
  PROVE  /\ Keeps /\ preview' \in [Previews -> PreviewRows \cup {None}]
         /\ preview'[v] = row
<1>1. \A w \in Previews : preview'[w] = IF w = v THEN row ELSE preview[w]
  BY DEF CleanupInv, CleanupTypeOK
<1> QED
  BY <1>1, CleanupAssumption DEF CleanupInv, CleanupTypeOK, Keeps

LEMMA PreviewTyped ==
  ASSUME CleanupTypeOK, NEW v \in Previews, preview[v] # None
  PROVE  /\ preview[v] \in PreviewRows
         /\ preview[v].items \in [Files -> FileVersions \cup {None}]
         /\ preview[v].status \in {"pending", "processing", "completed", "expired"}
         /\ preview[v].expired \in BOOLEAN /\ preview[v].by \in Fingerprints \cup {None}
  BY DEF CleanupTypeOK, PreviewRows

LEMMA CleanupInitially == CleanupInit => CleanupInv
<1> SUFFICES ASSUME CleanupInit PROVE CleanupInv
  OBVIOUS
<1>1. CleanupTypeOK
  BY CleanupAssumption DEF CleanupInit, CleanupTypeOK, FileVersions
<1>2. SweepInv /\ RowsInv /\ TrashInv
  BY DEF CleanupInit, SweepInv, RowsInv, TrashInv, Moving, HasMoved
<1>3. ResultInv
  <2>1. \A f \in Files : ~vault[f].deleted /\ \A v \in Previews : fileResult[v][f] = None
    BY DEF CleanupInit
  <2>2. None # "moved_to_trash"
    BY CleanupAssumption DEF FileStates
  <2> QED
    BY <2>1, <2>2 DEF ResultInv
<1>4. TracedInv
  BY DEF CleanupInit, TracedInv
<1> QED
  BY <1>1, <1>2, <1>3, <1>4 DEF CleanupInv

LEMMA CleanupStep == CleanupInv /\ [CleanupNext]_cleanupVars => CleanupInv'
<1> SUFFICES ASSUME CleanupInv, [CleanupNext]_cleanupVars PROVE CleanupInv'
  OBVIOUS
<1>0. CleanupTypeOK /\ SweepInv /\ RowsInv /\ TrashInv /\ ResultInv /\ TracedInv
  BY DEF CleanupInv
(* No confirmation moves, and the rows of the files stay.                  *)
<1>a. ASSUME Keeps, preview' \in [Previews -> PreviewRows \cup {None}],
             UNCHANGED <<vault, onDisk, fileResult, sweep, confirmStops>>
      PROVE  CleanupInv'
  <2>1. Calm
    BY <1>a DEF Calm, Moving
  <2>2. RowsInv' /\ TrashInv' /\ ResultInv' /\ TracedInv'
    BY <1>a, <2>1, CalmStep
  <2>3. SweepInv' /\ CleanupTypeOK'
    BY <1>0, <1>a, SweepKept DEF CleanupTypeOK
  <2> QED
    BY <2>2, <2>3 DEF CleanupInv
<1>b. UNCHANGED preview => Keeps
  BY DEF Keeps
<1>1. ASSUME NEW v \in Previews, MakePreview(v) PROVE CleanupInv'
  <2> DEFINE row == [ items |-> [f \in Files |-> IF vault[f].deleted THEN None ELSE vault[f].version],
                      status |-> "pending", expired |-> FALSE, by |-> None ]
  <2>1. row \in PreviewRows
    BY <1>0 DEF PreviewRows, CleanupTypeOK
  <2>2. preview[v] = None /\ preview' = [preview EXCEPT ![v] = row]
        /\ UNCHANGED <<vault, onDisk, fileResult, sweep, confirmStops>>
    BY <1>1 DEF MakePreview
  <2> HIDE DEF row
  <2> QED
    BY <1>a, <2>1, <2>2, PreviewChanges
<1>2. ASSUME NEW v \in Previews, PreviewExpires(v) PROVE CleanupInv'
  <2> DEFINE row == [preview[v] EXCEPT !.expired = TRUE]
  <2>1. row \in PreviewRows /\ row.items = preview[v].items /\ row.by = preview[v].by
    BY <1>0, <1>2, PreviewTyped DEF PreviewExpires, PreviewRows
  <2>2. preview' = [preview EXCEPT ![v] = row]
        /\ UNCHANGED <<vault, onDisk, fileResult, sweep, confirmStops>>
    BY <1>2 DEF PreviewExpires
  <2> HIDE DEF row
  <2> QED
    BY <1>a, <2>1, <2>2, PreviewChanges
<1>3. ASSUME NEW v \in Previews, NEW p \in Confirms, ConfirmExpired(p, v) PROVE CleanupInv'
  <2> DEFINE row == [preview[v] EXCEPT !.status = "expired"]
  <2>1. row \in PreviewRows /\ row.items = preview[v].items /\ row.by = preview[v].by
    BY <1>0, <1>3, PreviewTyped DEF ConfirmExpired, Available, PreviewRows
  <2>2. preview' = [preview EXCEPT ![v] = row]
        /\ UNCHANGED <<vault, onDisk, fileResult, sweep, confirmStops>>
    BY <1>3 DEF ConfirmExpired
  <2> HIDE DEF row
  <2> QED
    BY <1>a, <2>1, <2>2, PreviewChanges
<1>4. ASSUME NEW v \in Previews, NEW p \in Confirms, Consume(p, v) PROVE CleanupInv'
  <2> PICK k \in Fingerprints :
        preview' = [preview EXCEPT ![v].status = "processing", ![v].by = k]
    BY <1>4 DEF Consume
  <2> DEFINE row == [preview[v] EXCEPT !.status = "processing", !.by = k]
             new == [ preview |-> v, todo |-> {f \in Files : preview[v].items[f] # None},
                      file |-> None, next |-> "look", state |-> "processing", locks |-> FALSE ]
  <2>1. row \in PreviewRows /\ row.items = preview[v].items /\ row.by = k
    BY <1>0, <1>4, PreviewTyped DEF Consume, Available, PreviewRows
  <2>2. preview' = [preview EXCEPT ![v] = row]
    OBVIOUS
  <2>3. sweep' = [sweep EXCEPT ![p] = new] /\ UNCHANGED <<vault, onDisk, fileResult, confirmStops>>
    BY <1>4 DEF Consume, StartSweep
  <2>4. new \in Sweeps /\ new.preview = v /\ new.next = "look"
        /\ \A f \in new.todo : preview[v].items[f] # None
    BY DEF Sweeps, FileStates
  <2> HIDE DEF row, new
  <2>5. /\ Keeps /\ preview' \in [Previews -> PreviewRows \cup {None}] /\ preview'[v] = row
    BY <2>1, <2>2, PreviewChanges
  <2>6. SweepFits(new)
    BY <2>1, <2>4, <2>5 DEF SweepFits
  <2> QED
    BY <1>0, <2>3, <2>4, <2>5, <2>6, CalmMoves DEF CleanupTypeOK
<1>5. ASSUME NEW v \in Previews, NEW p \in Confirms, ConfirmAgain(p, v) PROVE CleanupInv'
  <2> DEFINE new == [ preview |-> v, todo |-> {f \in Files : preview[v].items[f] # None},
                      file |-> None, next |-> "look", state |-> "processing", locks |-> TRUE ]
  <2>1. preview[v] \in PreviewRows /\ preview[v].by \in Fingerprints
    BY <1>0, <1>5, PreviewTyped DEF ConfirmAgain, Available, Resumable
  <2>2. sweep' = [sweep EXCEPT ![p] = new] /\ UNCHANGED <<vault, onDisk, preview, fileResult, confirmStops>>
    BY <1>5 DEF ConfirmAgain, StartSweep
  <2>3. new \in Sweeps /\ new.preview = v /\ new.next = "look"
        /\ \A f \in new.todo : preview[v].items[f] # None
    BY DEF Sweeps, FileStates
  <2> HIDE DEF new
  <2>4. SweepFits(new)
    BY <2>1, <2>2, <2>3 DEF SweepFits
  <2> QED
    BY <1>0, <1>b, <2>2, <2>3, <2>4, CalmMoves DEF CleanupTypeOK
<1>6. ASSUME NEW f \in Files, RecordingDrifts(f) PROVE CleanupInv'
  <2>1. UNCHANGED <<onDisk, preview, fileResult, sweep, confirmStops>>
    BY <1>6 DEF RecordingDrifts
  <2>2. \A g \in Files : vault'[g].deleted = vault[g].deleted
    BY <1>0, <1>6 DEF RecordingDrifts, CleanupTypeOK
  <2>3. CleanupTypeOK'
    <3> DEFINE row == [vault[f] EXCEPT !.version = @ + 1]
    <3>1. row \in [version : FileVersions, deleted : BOOLEAN]
      BY <1>0, <1>6, CleanupAssumption DEF RecordingDrifts, CleanupTypeOK, FileVersions
    <3>2. vault' = [vault EXCEPT ![f] = row]
      BY <1>6 DEF RecordingDrifts
    <3> HIDE DEF row
    <3> QED
      BY <1>0, <2>1, <3>1, <3>2 DEF CleanupTypeOK
  <2>4. Keeps /\ Calm
    BY <2>1 DEF Keeps, Calm, Moving
  <2> QED
    BY <2>1, <2>2, <2>3, <2>4, CalmStep, SweepKept DEF CleanupInv
<1>7. ASSUME NEW p \in Confirms, LookAtFile(p) PROVE CleanupInv'
  <2> PICK f \in sweep[p].todo :
        LET v == sweep[p].preview IN
        sweep' = [sweep EXCEPT ![p] =
          IF Reported(v, f) THEN [sweep[p] EXCEPT !.todo = @ \ {f}]
          ELSE [sweep[p] EXCEPT !.file = f, !.next = "insert",
                 !.state = IF Eligible(v, f) THEN "processing" ELSE "skipped_drift"]]
    BY <1>7 DEF LookAtFile
  <2> DEFINE v == sweep[p].preview
             row == IF Reported(v, f) THEN [sweep[p] EXCEPT !.todo = @ \ {f}]
                    ELSE [sweep[p] EXCEPT !.file = f, !.next = "insert",
                            !.state = IF Eligible(v, f) THEN "processing" ELSE "skipped_drift"]
  <2>1. sweep[p] # None /\ sweep[p].next = "look" /\ UNCHANGED <<vault, onDisk, preview, fileResult, confirmStops>>
    BY <1>7 DEF LookAtFile, At
  <2>2. preview[v] \in PreviewRows /\ preview[v].by \in Fingerprints
        /\ \A g \in sweep[p].todo : preview[v].items[g] # None
    BY <1>0, <2>1 DEF SweepInv
  <2>3. f \in Files
    BY <1>0, <2>1, SweepTyped
  <2>4. sweep' = [sweep EXCEPT ![p] = row]
    OBVIOUS
  <2>5. row \in Sweeps /\ row.preview = v /\ row.todo \subseteq sweep[p].todo
    BY <1>0, <2>1, <2>3, SweepTyped DEF Sweeps, FileStates
  <2>6. row.next = "look" \/ (row.next = "insert" /\ row.file = f /\ row.state \in {"processing", "skipped_drift"})
    BY <1>0, <2>1, SweepTyped DEF Sweeps
  <2> HIDE DEF row
  <2>7. SweepFits(row)
    BY <2>1, <2>2, <2>3, <2>5, <2>6 DEF SweepFits
  <2> QED
    BY <1>0, <1>b, <2>1, <2>4, <2>6, <2>7, CalmMoves DEF CleanupTypeOK
<1>8. ASSUME NEW p \in Confirms, InsertResult(p) PROVE CleanupInv'
  <2> DEFINE v == sweep[p].preview
             f == sweep[p].file
             moves == [sweep[p] EXCEPT !.next = "move", !.locks = FALSE]
             next  == [sweep[p] EXCEPT !.todo = @ \ {f}, !.file = None, !.next = "look", !.locks = FALSE]
             row == IF sweep[p].state = "processing" THEN moves ELSE next
  <2>0. sweep[p] # None /\ sweep[p].next = "insert" /\ UNCHANGED <<vault, onDisk, preview, confirmStops>>
    BY <1>8 DEF InsertResult, At
  <2>1. /\ v \in Previews /\ f \in Files /\ Requested(v, f)
        /\ sweep[p].state \in {"processing", "skipped_drift"}
        /\ \A g \in sweep[p].todo : preview[v].items[g] # None
    BY <1>0, <2>0, SweepTyped DEF SweepInv, ItemOf, Requested
  <2>2. CASE fileResult[v][f] # None
    <3>1. sweep' = [sweep EXCEPT ![p] = None] /\ UNCHANGED fileResult
      BY <1>8, <2>2 DEF InsertResult
    <3> QED
      BY <1>0, <1>b, <2>0, <3>1, CalmMoves DEF CleanupTypeOK
  <2>3. CASE fileResult[v][f] = None
    <3>1. fileResult' = [fileResult EXCEPT ![v][f] = sweep[p].state] /\ sweep' = [sweep EXCEPT ![p] = row]
      BY <1>8, <2>3 DEF InsertResult, Inserted, NextFile
    <3>2. row \in Sweeps /\ row.preview = v /\ row.todo \subseteq sweep[p].todo
      BY <1>0, <2>0, SweepTyped DEF Sweeps
    <3>3. \/ row.next = "move" /\ row.file = f /\ sweep[p].state = "processing"
          \/ row.next = "look" /\ sweep[p].state = "skipped_drift"
      BY <1>0, <2>0, <2>1, SweepTyped DEF Sweeps
    <3> HIDE DEF row
    <3>4. SweepFits(row)
      BY <2>0, <2>1, <3>2, <3>3 DEF SweepFits, Requested
    <3>5. /\ SweepInv' /\ sweep' \in [Confirms -> Sweeps \cup {None}]
          /\ \A q \in Confirms : sweep'[q] = IF q = p THEN row ELSE sweep[q]
      BY <1>b, <2>0, <3>1, <3>4, SweepMoves
    <3>6. \A w \in Previews, g \in Files :
            fileResult'[w][g] = IF w = v /\ g = f THEN sweep[p].state ELSE fileResult[w][g]
      BY <1>0, <2>1, <3>1 DEF CleanupTypeOK
    <3>7. fileResult' \in [Previews -> [Files -> FileStates \cup {None}]]
      BY <1>0, <2>1, <3>1 DEF CleanupTypeOK, FileStates
    <3> DEFINE Item(q) == sweep[q].file \in Files /\ sweep[q].preview \in Previews
    <3>8. \A q \in Confirms : Moving(q) => Item(q) /\ RowOf(q) = "processing"
      BY <1>0, SweepTyped DEF SweepInv, RowsInv, Moving, ItemOf
    <3>9. \A q \in Confirms \ {p} : Moving(q)' => Moving(q) /\ sweep'[q] = sweep[q]
                                   /\ ~(sweep[q].preview = v /\ sweep[q].file = f)
      BY <2>3, <3>5, <3>8, CleanupAssumption DEF Moving, RowOf, FileStates
    <3>10. RowsInv'
      <4>1. \A q \in Confirms : Moving(q)' => RowOf(q)' = "processing"
        <5> SUFFICES ASSUME NEW q \in Confirms, Moving(q)' PROVE RowOf(q)' = "processing"
          OBVIOUS
        <5>1. CASE q = p
          BY <2>1, <3>2, <3>3, <3>5, <3>6, <5>1 DEF Moving, RowOf
        <5>2. CASE q # p
          BY <3>6, <3>8, <3>9, <5>2 DEF RowOf
        <5> QED
          BY <5>1, <5>2
      <4>2. ASSUME NEW q \in Confirms, NEW o \in Confirms, Moving(q)', Moving(o)',
                   sweep'[q].preview = sweep'[o].preview, ItemOf(q)' = ItemOf(o)'
            PROVE  q = o
        <5>1. CASE q # p /\ o # p
          BY <1>0, <3>9, <4>2, <5>1 DEF RowsInv, ItemOf
        <5>2. CASE q = p /\ o # p
          BY <3>2, <3>3, <3>5, <3>9, <4>2, <5>2 DEF Moving, ItemOf
        <5>3. CASE q # p /\ o = p
          BY <3>2, <3>3, <3>5, <3>9, <4>2, <5>3 DEF Moving, ItemOf
        <5> QED
          BY <5>1, <5>2, <5>3
      <4> QED
        BY <4>1, <4>2 DEF RowsInv
    <3>11. \A q \in Confirms : HasMoved(q)' => HasMoved(q) /\ sweep'[q] = sweep[q] /\ Item(q)
      BY <3>3, <3>5, <3>8 DEF HasMoved, Moving
    <3>12. \A w \in Previews, g \in Files :
             fileResult'[w][g] = "moved_to_trash" <=> fileResult[w][g] = "moved_to_trash"
      BY <2>1, <2>3, <3>6, CleanupAssumption DEF FileStates
    <3>13. TrashInv'
      BY <1>0, <2>0, <3>11, <3>12 DEF TrashInv, ItemOf
    <3>14. ResultInv'
      BY <1>0, <2>0, <3>12 DEF ResultInv
    <3>15. TracedInv'
      <4> SUFFICES ASSUME NEW g \in Files \ onDisk
                   PROVE  \E w \in Previews :
                            fileResult'[w][g] \in FileStates \ {"skipped_drift"} /\ Requested(w, g)
        BY <2>0 DEF TracedInv, Requested
      <4>1. PICK w \in Previews :
              fileResult[w][g] \in FileStates \ {"skipped_drift"} /\ Requested(w, g)
        BY <1>0 DEF TracedInv
      <4>2. fileResult'[w][g] = fileResult[w][g]
        BY <2>3, <3>6, <4>1, CleanupAssumption
      <4> QED
        BY <4>1, <4>2
    <3>16. CleanupTypeOK'
      BY <1>0, <2>0, <3>5, <3>7 DEF CleanupTypeOK
    <3> QED
      BY <3>5, <3>10, <3>13, <3>14, <3>15, <3>16 DEF CleanupInv
  <2> QED
    BY <2>2, <2>3
<1>9. ASSUME NEW p \in Confirms, MoveToTrash(p) PROVE CleanupInv'
  <2> DEFINE f == sweep[p].file
             row(state) == [sweep[p] EXCEPT !.next = "record", !.state = state]
  <2>0. sweep[p] # None /\ sweep[p].next = "move" /\ UNCHANGED <<vault, preview, fileResult, confirmStops>>
    BY <1>9 DEF MoveToTrash, At
  <2>1. /\ f \in Files /\ sweep[p].preview \in Previews /\ Requested(sweep[p].preview, f)
        /\ fileResult[sweep[p].preview][f] = "processing"
        /\ \A g \in sweep[p].todo : preview[sweep[p].preview].items[g] # None
    BY <1>0, <2>0, SweepTyped DEF SweepInv, RowsInv, Moving, RowOf, ItemOf, Requested
  <2>2. PICK state \in {"moved_to_trash", "failed"} :
          /\ sweep' = [sweep EXCEPT ![p] = row(state)]
          /\ onDisk' \subseteq onDisk /\ onDisk \ {f} \subseteq onDisk'
          /\ state = "moved_to_trash" => f \in onDisk /\ f \notin onDisk'
    BY <1>9 DEF MoveToTrash, MoveSucceeds
  <2>3. row(state) \in Sweeps /\ row(state).preview = sweep[p].preview /\ row(state).file = f
        /\ row(state).todo = sweep[p].todo /\ row(state).next = "record" /\ row(state).state = state
    BY <1>0, <2>0, SweepTyped DEF Sweeps, FileStates
  <2> HIDE DEF row
  <2>4. SweepFits(row(state))
    BY <2>0, <2>1, <2>3 DEF SweepFits, Requested
  <2>5. /\ SweepInv' /\ sweep' \in [Confirms -> Sweeps \cup {None}]
        /\ \A q \in Confirms : sweep'[q] = IF q = p THEN row(state) ELSE sweep[q]
    BY <1>b, <2>0, <2>2, <2>4, SweepMoves
  <2>6. \A q \in Confirms : Moving(q)' =>
          Moving(q) /\ sweep'[q].preview = sweep[q].preview /\ sweep'[q].file = sweep[q].file
    BY <2>0, <2>3, <2>5 DEF Moving
  <2>7. RowsInv'
    BY <1>0, <2>0, <2>6 DEF RowsInv, RowOf, ItemOf
  <2>8. \A q \in Confirms : HasMoved(q)' =>
          \/ q = p /\ state = "moved_to_trash" /\ sweep'[q].file = f
          \/ q # p /\ HasMoved(q) /\ sweep'[q].file = sweep[q].file
    BY <2>3, <2>5 DEF HasMoved
  <2>9. TrashInv'
    <3>1. ASSUME NEW q \in Confirms, HasMoved(q)'
          PROVE  /\ ItemOf(q)' \notin onDisk'
                 /\ \A v \in Previews : fileResult'[v][ItemOf(q)'] # "moved_to_trash"
      <4>1. CASE q = p
        BY <1>0, <2>0, <2>1, <2>2, <2>8, <3>1, <4>1 DEF ResultInv, ItemOf
      <4>2. CASE q # p
        BY <1>0, <2>0, <2>2, <2>8, <3>1, <4>2 DEF TrashInv, ItemOf
      <4> QED
        BY <4>1, <4>2
    <3>2. ASSUME NEW q \in Confirms, NEW o \in Confirms, HasMoved(q)', HasMoved(o)',
                 ItemOf(q)' = ItemOf(o)'
          PROVE  q = o
      BY <1>0, <2>2, <2>8, <3>2 DEF TrashInv, ItemOf
    <3> QED
      BY <3>1, <3>2 DEF TrashInv
  <2>10. ResultInv'
    BY <1>0, <2>0, <2>2 DEF ResultInv
  <2>11. TracedInv'
    BY <1>0, <2>0, <2>1, <2>2 DEF TracedInv, Requested, FileStates
  <2>12. CleanupTypeOK'
    BY <1>0, <2>0, <2>2, <2>5 DEF CleanupTypeOK
  <2> QED
    BY <2>5, <2>7, <2>9, <2>10, <2>11, <2>12 DEF CleanupInv
<1>10. ASSUME NEW p \in Confirms, RecordOutcome(p) PROVE CleanupInv'
  <2> DEFINE v == sweep[p].preview
             f == sweep[p].file
             row == [sweep[p] EXCEPT !.todo = @ \ {f}, !.file = None, !.next = "look", !.locks = FALSE]
  <2>0. sweep[p] # None /\ sweep[p].next = "record" /\ UNCHANGED <<onDisk, preview, confirmStops>>
    BY <1>10 DEF RecordOutcome, At
  <2>1. /\ v \in Previews /\ f \in Files /\ Requested(v, f) /\ fileResult[v][f] = "processing"
        /\ sweep[p].state \in {"moved_to_trash", "failed"}
        /\ \A g \in sweep[p].todo : preview[v].items[g] # None
    BY <1>0, <2>0, SweepTyped DEF SweepInv, RowsInv, Moving, RowOf, ItemOf, Requested
  <2>2. /\ fileResult' = [fileResult EXCEPT ![v][f] = sweep[p].state]
        /\ vault' = [vault EXCEPT ![f].deleted = @ \/ sweep[p].state = "moved_to_trash"]
        /\ sweep' = [sweep EXCEPT ![p] = row]
    BY <1>10 DEF RecordOutcome, NextFile, Gone
  <2>3. row \in Sweeps /\ row.preview = v /\ row.next = "look" /\ row.todo \subseteq sweep[p].todo
    BY <1>0, <2>0, SweepTyped DEF Sweeps
  <2> HIDE DEF row
  <2>4. SweepFits(row)
    BY <2>0, <2>1, <2>3 DEF SweepFits, Requested
  <2>5. /\ SweepInv' /\ sweep' \in [Confirms -> Sweeps \cup {None}]
        /\ \A q \in Confirms : sweep'[q] = IF q = p THEN row ELSE sweep[q]
    BY <1>b, <2>0, <2>2, <2>4, SweepMoves
  <2>6. \A w \in Previews, g \in Files :
          fileResult'[w][g] = IF w = v /\ g = f THEN sweep[p].state ELSE fileResult[w][g]
    BY <1>0, <2>1, <2>2 DEF CleanupTypeOK
  <2>7. CleanupTypeOK'
    <3>1. fileResult' \in [Previews -> [Files -> FileStates \cup {None}]]
      BY <1>0, <2>1, <2>2 DEF CleanupTypeOK, FileStates
    <3>2. vault' \in [Files -> [version : FileVersions, deleted : BOOLEAN]]
      BY <1>0, <2>1, <2>2 DEF CleanupTypeOK
    <3> QED
      BY <1>0, <2>0, <2>5, <3>1, <3>2 DEF CleanupTypeOK
  <2>8. \A q \in Confirms : Moving(q)' =>
          /\ q # p /\ Moving(q) /\ sweep'[q] = sweep[q]
          /\ sweep[q].preview \in Previews /\ sweep[q].file \in Files
          /\ ~(sweep[q].preview = v /\ sweep[q].file = f)
    BY <1>0, <2>0, <2>3, <2>5, SweepTyped DEF Moving, RowsInv, SweepInv, ItemOf
  <2>9. RowsInv'
    BY <1>0, <2>6, <2>8 DEF RowsInv, RowOf, ItemOf
  <2>10. \A q \in Confirms : HasMoved(q)' =>
           /\ q # p /\ HasMoved(q) /\ sweep'[q] = sweep[q] /\ sweep[q].file \in Files
    BY <2>3, <2>5, <2>8 DEF HasMoved, Moving
  <2>11. ASSUME sweep[p].state = "failed" PROVE TrashInv' /\ ResultInv'
    <3>1. \A w \in Previews, g \in Files :
            fileResult'[w][g] = "moved_to_trash" <=> fileResult[w][g] = "moved_to_trash"
      BY <2>1, <2>6, <2>11
    <3>2. \A g \in Files : vault'[g].deleted <=> vault[g].deleted
      BY <1>0, <2>1, <2>2, <2>11 DEF CleanupTypeOK
    <3>3. TrashInv'
      BY <1>0, <2>0, <2>10, <3>1 DEF TrashInv, ItemOf
    <3>4. ResultInv'
      BY <1>0, <2>0, <3>1, <3>2 DEF ResultInv
    <3> QED
      BY <3>3, <3>4
  <2>12. ASSUME sweep[p].state = "moved_to_trash" PROVE TrashInv' /\ ResultInv'
    <3>0. HasMoved(p) /\ f \notin onDisk /\ \A w \in Previews : fileResult[w][f] # "moved_to_trash"
      BY <1>0, <2>0, <2>12 DEF HasMoved, TrashInv, ItemOf
    <3>1. \A w \in Previews, g \in Files :
            fileResult'[w][g] = "moved_to_trash"
              <=> (fileResult[w][g] = "moved_to_trash" \/ (w = v /\ g = f))
      BY <2>1, <2>6, <2>12
    <3>2. \A g \in Files : vault'[g].deleted <=> (vault[g].deleted \/ g = f)
      BY <1>0, <2>1, <2>2, <2>12 DEF CleanupTypeOK
    <3>3. \A q \in Confirms : HasMoved(q)' => sweep[q].file # f
      BY <1>0, <2>10, <3>0 DEF TrashInv, ItemOf
    <3>4. TrashInv'
      BY <1>0, <2>0, <2>10, <3>1, <3>3 DEF TrashInv, ItemOf
    <3>5. ResultInv'
      <4> SUFFICES ASSUME NEW g \in Files
                   PROVE  /\ \A w \in Previews : fileResult'[w][g] = "moved_to_trash" => g \notin onDisk
                          /\ \A w, u \in Previews :
                               fileResult'[w][g] = "moved_to_trash" /\ fileResult'[u][g] = "moved_to_trash"
                                 => w = u
                          /\ vault'[g].deleted <=> \E w \in Previews : fileResult'[w][g] = "moved_to_trash"
        BY <2>0 DEF ResultInv
      <4>1. CASE g = f
        BY <1>0, <2>1, <3>0, <3>1, <3>2, <4>1 DEF ResultInv
      <4>2. CASE g # f
        BY <1>0, <3>1, <3>2, <4>2 DEF ResultInv
      <4> QED
        BY <4>1, <4>2
    <3> QED
      BY <3>4, <3>5
  <2>13. TracedInv'
    <3> SUFFICES ASSUME NEW g \in Files \ onDisk
                 PROVE  \E w \in Previews :
                          fileResult'[w][g] \in FileStates \ {"skipped_drift"} /\ Requested(w, g)
      BY <2>0 DEF TracedInv, Requested
    <3>1. PICK w \in Previews :
            fileResult[w][g] \in FileStates \ {"skipped_drift"} /\ Requested(w, g)
      BY <1>0 DEF TracedInv
    <3> QED
      BY <2>1, <2>6, <3>1 DEF FileStates
  <2> QED
    BY <2>1, <2>5, <2>7, <2>9, <2>11, <2>12, <2>13 DEF CleanupInv
<1>11. ASSUME NEW p \in Confirms, CompletePreview(p) PROVE CleanupInv'
  <2> DEFINE v == sweep[p].preview
             row == [preview[v] EXCEPT !.status = "completed"]
  <2>0. sweep[p] # None
    BY <1>11 DEF CompletePreview, At
  <2>1. v \in Previews /\ preview[v] \in PreviewRows /\ preview[v] # None
    BY <1>0, <2>0, SweepTyped, CleanupAssumption DEF SweepInv
  <2>2. row \in PreviewRows /\ row.items = preview[v].items /\ row.by = preview[v].by
    BY <2>1 DEF PreviewRows
  <2>3. preview' = [preview EXCEPT ![v] = row] /\ sweep' = [sweep EXCEPT ![p] = None]
        /\ UNCHANGED <<vault, onDisk, fileResult, confirmStops>>
    BY <1>11 DEF CompletePreview
  <2> HIDE DEF v, row
  <2>4. Keeps /\ preview' \in [Previews -> PreviewRows \cup {None}]
    BY <2>1, <2>2, <2>3, PreviewChanges
  <2> QED
    BY <1>0, <2>3, <2>4, CalmMoves DEF CleanupTypeOK
<1>12. ASSUME NEW p \in Confirms, ConfirmStops(p) PROVE CleanupInv'
  <2>1. sweep' = [sweep EXCEPT ![p] = None] /\ UNCHANGED <<vault, onDisk, preview, fileResult>>
    BY <1>12 DEF ConfirmStops
  <2>2. confirmStops' \in 0..MaxConfirmStops
    BY <1>0, <1>12, CleanupAssumption DEF ConfirmStops, CleanupTypeOK
  <2> QED
    BY <1>0, <1>b, <2>1, <2>2, CalmMoves DEF CleanupTypeOK
<1>13. ASSUME UNCHANGED cleanupVars PROVE CleanupInv'
  BY <1>a, <1>b, <1>0, <1>13 DEF cleanupVars, CleanupTypeOK
<1> QED
  BY <1>1, <1>2, <1>3, <1>4, <1>5, <1>6, <1>7, <1>8, <1>9, <1>10, <1>11, <1>12, <1>13
     DEF CleanupNext, SweepStep

(* Recordings, previews, results and confirmations are always of their     *)
(* types.                                                                  *)
THEOREM CleanupTypeCorrect == CleanupSpec => []CleanupTypeOK
<1>1. CleanupInv => CleanupTypeOK
  BY DEF CleanupInv
<1> QED
  BY <1>1, CleanupInitially, CleanupStep, PTL DEF CleanupSpec

(* Every file that left the disk has a row that says so, or that it may    *)
(* have, of a confirmed preview that lists it: wherever a confirmation     *)
(* dies.                                                                   *)
THEOREM EveryMoveIsTraced == CleanupSpec => []MovesAreTraced
<1>1. CleanupInv => MovesAreTraced
  BY CleanupAssumption DEF CleanupInv, TracedInv, Requested, MovesAreTraced
<1> QED
  BY <1>1, CleanupInitially, CleanupStep, PTL DEF CleanupSpec

(* deleted_from_disk_at is set exactly when one preview, and no other,     *)
(* records that it moved the file; and then the file is gone.              *)
THEOREM DeletedFilesAreGone == CleanupSpec => []DeletedIsGone
<1>1. CleanupInv => DeletedIsGone
  <2> SUFFICES ASSUME CleanupInv, NEW f \in Files
               PROVE  /\ Cardinality({v \in Previews : fileResult[v][f] = "moved_to_trash"})
                           = (IF vault[f].deleted THEN 1 ELSE 0)
                      /\ vault[f].deleted => f \notin onDisk
    BY DEF DeletedIsGone
  <2> DEFINE movers == {v \in Previews : fileResult[v][f] = "moved_to_trash"}
  <2>1. /\ movers # {} => f \notin onDisk
        /\ \A v, w \in movers : v = w
        /\ vault[f].deleted <=> movers # {}
    BY DEF CleanupInv, ResultInv
  <2> HIDE DEF movers
  <2>2. CASE movers = {}
    BY <2>1, <2>2, FS_EmptySet DEF movers
  <2>3. CASE movers # {}
    <3>1. PICK v : movers = {v}
      BY <2>1, <2>3
    <3>2. Cardinality(movers) = 1
      BY <3>1, FS_Singleton
    <3> QED
      BY <2>1, <2>3, <3>2 DEF movers
  <2> QED
    BY <2>2, <2>3
<1> QED
  BY <1>1, CleanupInitially, CleanupStep, PTL DEF CleanupSpec
=============================================================================
