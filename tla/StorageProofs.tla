---------------------------- MODULE StorageProofs ----------------------------
(***************************************************************************)
(* A stored file is never lost to another recording or to a later upload,  *)
(* and what the rows and the Notion cards point to is the recording's own  *)
(* complete file.  The argument needs no lease: it holds with runs that    *)
(* outlive theirs and with any number of handlers and backend instances.   *)
(***************************************************************************)
EXTENDS RecordingPipelineProofs

(* d, if any, holds a complete file with the owner marker of r.            *)
Ours(d, r) == d # None => file[d] = "complete" /\ owner[d] = r

(* What rows and cards point to.                                           *)
RowsInv ==
  \A r \in Recordings : Ours(row[r].path, r) /\ Ours(row[r].link, r) /\ Ours(card[r], r)

(* What a process remembers is as true as what the row says, and between   *)
(* the storage calls it knows what the last one established.               *)
ProcessInv(p) ==
  /\ rec[p] # None => Ours(mem[p].path, rec[p]) /\ Ours(mem[p].link, rec[p])
  /\ pc[p] \in {"idle", "claimed", "begin", "fail_found"} =>
       mem[p].path = None /\ mem[p].link = None
  /\ pc[p] = "commit_upload" => mem[p].dest # None /\ Ours(mem[p].dest, rec[p])
  /\ pc[p] \in {"upload", "uploading"} =>
       mem[p].dest # None /\ (provider = "synology" => owner[mem[p].dest] = rec[p])
  /\ pc[p] = "uploading" => provider = "synology" /\ file[mem[p].dest] = "partial"

(* No two uploads run into one folder; MinIO shows complete objects only.  *)
UploadsInv ==
  /\ \A p, q \in Processes :
       p # q /\ pc[p] = "uploading" /\ pc[q] = "uploading" => mem[p].dest # mem[q].dest
  /\ provider = "minio" => \A d \in Destinations : owner[d] # None => file[d] = "complete"

StorageInv == RowsInv /\ (\A p \in Processes : ProcessInv(p)) /\ UploadsInv

(* What NoOverwrite says of one step.                                      *)
Kept ==
  \A d \in Destinations :
    /\ file[d] = "complete" => file'[d] = "complete"
    /\ owner[d] # None => owner'[d] = owner[d]

LEMMA StorageInit == Init => StorageInv
<1> SUFFICES ASSUME Init PROVE StorageInv
  OBVIOUS
<1>1. \A r \in Recordings : row[r].path = None /\ row[r].link = None /\ card[r] = None
  BY DEF Init, NewRow
<1>2. \A p \in Processes : pc[p] = "idle" /\ mem[p].path = None /\ mem[p].link = None
  BY DEF Init, NewRow, CopyOf
<1>3. UploadsInv
  BY <1>2 DEF Init, UploadsInv
<1> QED BY <1>1, <1>2, <1>3 DEF StorageInv, RowsInv, ProcessInv, Ours

(* A step of p that leaves the stores alone.                               *)
LEMMA StoresUntouched ==
  ASSUME StorageInv, NEW p \in Processes,
         UNCHANGED <<owner, file, provider>>,
         \A q \in Processes \ {p} : pc'[q] = pc[q] /\ rec'[q] = rec[q] /\ mem'[q] = mem[q],
         pc'[p] # "uploading", ProcessInv(p)', RowsInv'
  PROVE  StorageInv' /\ Kept
<1>1. \A q \in Processes : ProcessInv(q)'
  BY DEF StorageInv, ProcessInv, Ours
<1>2. UploadsInv'
  BY DEF StorageInv, UploadsInv
<1> QED BY <1>1, <1>2 DEF StorageInv, Kept

LEMMA SettleStorage ==
  ASSUME TypeOK, StorageInv, NEW p \in Processes, pc[p] # "idle", NEW s, NEW ask,
         Settle(p, s, ask), UNCHANGED <<owner, file, provider>>,
         \A r \in Recordings : Ours(card[r], r)'
  PROVE  StorageInv' /\ Kept
<1>1. pc'[p] = "release" /\ rec'[p] = rec[p] /\ mem'[p] = mem[p]
      /\ \A q \in Processes \ {p} : pc'[q] = pc[q] /\ rec'[q] = rec[q] /\ mem'[q] = mem[q]
  BY DEF Settle, Goto, TypeOK
<1>2. \A r \in Recordings : row'[r].path = row[r].path /\ row'[r].link = row[r].link
  BY DEF Settle, TypeOK, Rows
<1>3. RowsInv'
  BY <1>2 DEF StorageInv, RowsInv, Ours
<1>4. ProcessInv(p)'
  BY <1>1 DEF StorageInv, ProcessInv, Ours
<1> QED BY <1>1, <1>3, <1>4, StoresUntouched

LEMMA CommitStorage ==
  ASSUME TypeOK, StorageInv, NEW p \in Processes, pc[p] # "idle", NEW s, NEW x, NEW y, NEW step,
         Commit(p, s, x, y, step), x \in Rows, y \in Copies,
         Ours(x.path, rec[p]), Ours(x.link, rec[p]), Ours(y.path, rec[p]), Ours(y.link, rec[p]),
         step \notin {"idle", "claimed", "begin", "fail_found", "commit_upload", "upload",
                      "uploading"},
         UNCHANGED <<external, provider>>
  PROVE  StorageInv' /\ Kept
<1> USE DEF external
<1>1. /\ pc'[p] = step /\ rec'[p] = rec[p]
      /\ \A q \in Processes \ {p} : pc'[q] = pc[q] /\ rec'[q] = rec[q] /\ mem'[q] = mem[q]
  BY DEF Commit, Goto, TypeOK
<1>2. mem'[p].path = y.path /\ mem'[p].link = y.link
  BY DEF Commit, TypeOK, Copies
<1>3. RowsInv'
  <2>1. rec[p] \in Recordings
    BY DEF TypeOK
  <2>2. row'[rec[p]].path = x.path /\ row'[rec[p]].link = x.link
    BY <2>1 DEF Commit, TypeOK, Rows
  <2>3. \A r \in Recordings \ {rec[p]} : row'[r] = row[r]
    BY DEF Commit, TypeOK
  <2> QED BY <2>2, <2>3 DEF StorageInv, RowsInv, Ours
<1>4. ProcessInv(p)'
  BY <1>1, <1>2 DEF ProcessInv, Ours
<1> QED BY <1>1, <1>3, <1>4, StoresUntouched

(* A step that changes neither rows nor copies, and does not send a file.  *)
LEMMA StepStorage ==
  ASSUME TypeOK, StorageInv, NEW p \in Processes, pc[p] # "idle",
         UNCHANGED <<owner, file, provider, rec, mem>>,
         \A r \in Recordings : row'[r].path = row[r].path /\ row'[r].link = row[r].link,
         \A r \in Recordings : Ours(card[r], r)',
         NEW step, Goto(p, step),
         step \notin {"idle", "claimed", "begin", "fail_found", "commit_upload", "upload",
                      "uploading"}
  PROVE  StorageInv' /\ Kept
<1>1. /\ pc'[p] = step
      /\ \A q \in Processes \ {p} : pc'[q] = pc[q]
  BY DEF Goto, TypeOK
<1>2. RowsInv'
  BY DEF StorageInv, RowsInv, Ours
<1>3. ProcessInv(p)'
  BY <1>1 DEF StorageInv, ProcessInv, Ours
<1> QED BY <1>1, <1>2, <1>3, StoresUntouched

LEMMA RaisedStorage ==
  ASSUME TypeOK, StorageInv, NEW p \in Processes, Raised(p), UNCHANGED <<external, provider>>
  PROVE  StorageInv' /\ Kept
<1> USE DEF external
<1>1. /\ pc'[p] = "idle" /\ rec'[p] = None /\ mem'[p].path = None /\ mem'[p].link = None
      /\ \A q \in Processes \ {p} : pc'[q] = pc[q] /\ rec'[q] = rec[q] /\ mem'[q] = mem[q]
  BY DEF Raised, Goto, TypeOK, NewRow, CopyOf
<1>2. RowsInv'
  BY DEF StorageInv, RowsInv, Ours, Raised
<1>3. ProcessInv(p)'
  BY <1>1 DEF ProcessInv
<1> QED BY <1>1, <1>2, <1>3, StoresUntouched

-----------------------------------------------------------------------------
(* The storage steps.                                                      *)

(* Whatever was somebody's complete file stays so when stores only grow.   *)
LEMMA OursKept ==
  ASSUME Kept, NEW d \in Places, NEW r \in Recordings, Ours(d, r)
  PROVE  Ours(d, r)'
  BY NoneAssumption DEF Kept, Ours, Places

LEMMA RowsKept ==
  ASSUME TypeOK, StorageInv, Kept, UNCHANGED <<row, card>>
  PROVE  RowsInv'
<1>1. \A r \in Recordings : row[r].path \in Places /\ row[r].link \in Places /\ card[r] \in Places
  BY DEF TypeOK, Rows
<1> QED BY <1>1, OursKept DEF StorageInv, RowsInv, Ours

(* A step of p at the stores keeps what the other processes know.          *)
LEMMA OthersKept ==
  ASSUME TypeOK, StorageInv, Kept, UNCHANGED provider, NEW q \in Processes,
         pc'[q] = pc[q], rec'[q] = rec[q], mem'[q] = mem[q],
         pc[q] = "uploading" => file'[mem[q].dest] = file[mem[q].dest]
  PROVE  ProcessInv(q)'
<1>1. mem[q].path \in Places /\ mem[q].link \in Places /\ mem[q].dest \in Places
  BY DEF TypeOK, Copies
<1>2. pc[q] # "idle" => rec[q] \in Recordings
  BY DEF TypeOK
<1>3. rec[q] # None => rec[q] \in Recordings
  BY DEF TypeOK
<1>4. ProcessInv(q)
  BY DEF StorageInv
<1>5. rec[q] # None => Ours(mem[q].path, rec[q])' /\ Ours(mem[q].link, rec[q])'
  BY <1>1, <1>3, <1>4, OursKept DEF ProcessInv, Ours
<1>6. pc[q] = "commit_upload" => Ours(mem[q].dest, rec[q])'
  BY <1>1, <1>2, <1>4, OursKept DEF ProcessInv, Ours
<1>7. pc[q] \in {"upload", "uploading"} /\ provider = "synology" => owner'[mem[q].dest] = rec[q]
  <2> SUFFICES ASSUME pc[q] \in {"upload", "uploading"}, provider = "synology"
               PROVE  owner'[mem[q].dest] = rec[q]
    OBVIOUS
  <2>1. mem[q].dest \in Destinations /\ owner[mem[q].dest] = rec[q]
    BY <1>1, <1>4 DEF ProcessInv, Places
  <2>2. rec[q] # None
    BY <1>2, NoneAssumption
  <2> QED BY <2>1, <2>2 DEF Kept
<1> QED BY <1>4, <1>5, <1>6, <1>7 DEF ProcessInv, Ours

LEMMA StorageReusedStorage ==
  ASSUME TypeOK, StorageInv, NEW p \in Processes, StorageReused(p)
  PROVE  StorageInv' /\ Kept
<1>1. UNCHANGED <<row, rec, mem, owner, file, card, provider>> /\ pc'[p] = "commit_upload"
      /\ \A q \in Processes \ {p} : pc'[q] = pc[q]
  BY DEF StorageReused, Goto, TypeOK, db, external, settings
<1>2. RowsInv'
  BY <1>1 DEF StorageInv, RowsInv, Ours
<1>3. ProcessInv(p)'
  BY <1>1 DEF StorageInv, ProcessInv, Ours, StorageReused
<1> QED BY <1>1, <1>2, <1>3, StoresUntouched

LEMMA StorageClaimedStorage ==
  ASSUME TypeOK, StorageInv, NEW p \in Processes, StorageClaimed(p)
  PROVE  StorageInv' /\ Kept
<1>1. UNCHANGED <<row, rec, mem, file, card, provider>> /\ pc'[p] = "upload"
      /\ \A q \in Processes \ {p} : pc'[q] = pc[q]
  BY DEF StorageClaimed, Goto, TypeOK, db, settings
<1>2. mem[p].dest \in Destinations
  BY DEF StorageClaimed, TypeOK, Copies, Places
<1>3. Kept
  BY <1>2 DEF Kept, StorageClaimed, TypeOK
<1>4. RowsInv'
  BY <1>1, <1>3, RowsKept
<1>5. \A q \in Processes \ {p} : ProcessInv(q)'
  BY <1>1, <1>3, OthersKept
<1>6. ProcessInv(p)'
  <2>1. rec[p] # None => Ours(mem[p].path, rec[p])' /\ Ours(mem[p].link, rec[p])'
    <3>1. mem[p].path \in Places /\ mem[p].link \in Places
          /\ (rec[p] # None => rec[p] \in Recordings)
      BY DEF TypeOK, Copies
    <3> QED BY <1>1, <1>3, <3>1, OursKept DEF StorageInv, ProcessInv, Ours
  <2>2. provider = "synology" => owner'[mem[p].dest] = rec[p]
    BY <1>2 DEF StorageClaimed, TypeOK
  <2> QED BY <1>1, <1>2, <2>1, <2>2, NoneAssumption DEF ProcessInv, Ours
<1>7. UploadsInv'
  <2>1. provider = "minio" => owner' = owner
    BY DEF StorageClaimed
  <2> QED BY <1>1, <2>1 DEF StorageInv, UploadsInv
<1> QED BY <1>3, <1>4, <1>5, <1>6, <1>7 DEF StorageInv

LEMMA UploadBeginsStorage ==
  ASSUME TypeOK, StorageInv, NEW p \in Processes, UploadBegins(p)
  PROVE  StorageInv' /\ Kept
<1> DEFINE d == mem[p].dest
<1>1. UNCHANGED <<row, rec, mem, owner, card, provider>> /\ pc'[p] = "uploading"
      /\ \A q \in Processes \ {p} : pc'[q] = pc[q]
  BY DEF UploadBegins, Goto, TypeOK, db, settings
<1>2. d \in Destinations /\ file[d] = "absent" /\ file'[d] = "partial"
      /\ \A e \in Destinations \ {d} : file'[e] = file[e]
  BY DEF UploadBegins, StorageInv, ProcessInv, TypeOK, Copies, Places
<1>3. Kept
  BY <1>1, <1>2 DEF Kept
<1>4. RowsInv'
  BY <1>1, <1>3, RowsKept
<1>5. \A q \in Processes : pc[q] = "uploading" => mem[q].dest \in Destinations /\ mem[q].dest # d
  BY <1>2 DEF StorageInv, ProcessInv, TypeOK, Copies, Places
<1>6. \A q \in Processes \ {p} : ProcessInv(q)'
  BY <1>1, <1>2, <1>3, <1>5, OthersKept
<1>7. ProcessInv(p)'
  <2>1. rec[p] # None => Ours(mem[p].path, rec[p])' /\ Ours(mem[p].link, rec[p])'
    <3>1. mem[p].path \in Places /\ mem[p].link \in Places
          /\ (rec[p] # None => rec[p] \in Recordings)
      BY DEF TypeOK, Copies
    <3> QED BY <1>1, <1>3, <3>1, OursKept DEF StorageInv, ProcessInv, Ours
  <2>2. provider = "synology" /\ owner[d] = rec[p]
    BY DEF UploadBegins, StorageInv, ProcessInv
  <2> QED BY <1>1, <1>2, <2>1, <2>2, NoneAssumption DEF ProcessInv, Ours
<1>8. UploadsInv'
  BY <1>1, <1>5 DEF StorageInv, UploadsInv, UploadBegins
<1> QED BY <1>3, <1>4, <1>6, <1>7, <1>8 DEF StorageInv


(* The end of an upload by p: its own folder holds v, nobody else is there. *)
LEMMA UploadStopsStorage ==
  ASSUME TypeOK, StorageInv, NEW p \in Processes, pc[p] = "uploading", NEW v,
         file' = [file EXCEPT ![mem[p].dest] = v],
         UNCHANGED <<owner, provider>>,
         \A q \in Processes \ {p} : pc'[q] = pc[q] /\ rec'[q] = rec[q] /\ mem'[q] = mem[q],
         pc'[p] # "uploading", UNCHANGED card,
         \A r \in Recordings : row'[r].path = row[r].path /\ row'[r].link = row[r].link,
         Kept => ProcessInv(p)'
  PROVE  StorageInv' /\ Kept
<1>1. mem[p].dest \in Destinations /\ file[mem[p].dest] = "partial" /\ provider = "synology"
  BY DEF StorageInv, ProcessInv, TypeOK, Copies, Places
<1>2. Kept
  BY <1>1 DEF Kept, TypeOK
<1>3. RowsInv'
  <2>1. \A r \in Recordings : row[r].path \in Places /\ row[r].link \in Places /\ card[r] \in Places
    BY DEF TypeOK, Rows
  <2>2. \A r \in Recordings : Ours(row[r].path, r) /\ Ours(row[r].link, r) /\ Ours(card[r], r)
    BY DEF StorageInv, RowsInv
  <2> QED BY <1>2, <2>1, <2>2, OursKept DEF RowsInv, Ours
<1>4. ASSUME NEW q \in Processes \ {p} PROVE ProcessInv(q)'
  <2>1. pc[q] = "uploading" => mem[q].dest # mem[p].dest
    BY DEF StorageInv, UploadsInv
  <2>2. pc[q] = "uploading" => file'[mem[q].dest] = file[mem[q].dest]
    BY <2>1, <1>1 DEF TypeOK, StorageInv, ProcessInv, Copies, Places
  <2> QED BY <1>2, <2>2, OthersKept
<1>5. UploadsInv'
  BY <1>1 DEF StorageInv, UploadsInv
<1> QED BY <1>2, <1>3, <1>4, <1>5 DEF StorageInv

LEMMA UploadEndsStorage ==
  ASSUME TypeOK, StorageInv, NEW p \in Processes, UploadEnds(p)
  PROVE  StorageInv' /\ Kept
<1>1. UNCHANGED <<row, rec, mem, owner, card, provider>> /\ pc'[p] = "commit_upload"
      /\ \A q \in Processes \ {p} : pc'[q] = pc[q]
  BY DEF UploadEnds, Goto, TypeOK, db, settings
<1>2. ASSUME Kept PROVE ProcessInv(p)'
  <2>1. /\ mem[p].path \in Places /\ mem[p].link \in Places
        /\ rec[p] \in Recordings /\ mem[p].dest \in Destinations /\ owner[mem[p].dest] = rec[p]
    BY DEF TypeOK, Copies, StorageInv, ProcessInv, UploadEnds, Places
  <2>2. Ours(mem[p].path, rec[p])' /\ Ours(mem[p].link, rec[p])'
    BY <1>1, <1>2, <2>1, OursKept, NoneAssumption DEF StorageInv, ProcessInv, Ours
  <2>3. file'[mem[p].dest] = "complete"
    BY <2>1 DEF UploadEnds, TypeOK
  <2> QED BY <1>1, <2>1, <2>2, <2>3, NoneAssumption DEF ProcessInv, Ours
<1>3. pc[p] = "uploading" /\ file' = [file EXCEPT ![mem[p].dest] = "complete"]
  BY DEF UploadEnds
<1> QED BY <1>1, <1>2, <1>3, UploadStopsStorage

LEMMA UploadBreaksStorage ==
  ASSUME TypeOK, StorageInv, NEW p \in Processes, UploadBreaks(p)
  PROVE  StorageInv' /\ Kept
<1>1. PICK left \in {"absent", "partial"} :
        /\ file' = [file EXCEPT ![mem[p].dest] = left]
        /\ IF left = "partial" \/ p \in Handlers THEN Collide(p) ELSE Settle(p, "failed", "nothing")
  BY DEF UploadBreaks
<1>2. UNCHANGED <<owner, card, provider>> /\ pc[p] = "uploading"
  BY DEF UploadBreaks, settings
<1>3. CASE Raised(p)
  <2>1. /\ pc'[p] = "idle" /\ rec'[p] = None /\ mem'[p].path = None /\ mem'[p].link = None
        /\ \A q \in Processes \ {p} : pc'[q] = pc[q] /\ rec'[q] = rec[q] /\ mem'[q] = mem[q]
        /\ row' = row
    BY <1>3 DEF Raised, Goto, TypeOK, NewRow, CopyOf
  <2>2. ProcessInv(p)'
    BY <2>1 DEF ProcessInv
  <2> QED BY <1>1, <1>2, <2>1, <2>2, UploadStopsStorage
<1>4. ASSUME NEW s, Settle(p, s, "nothing") PROVE StorageInv' /\ Kept
  <2>1. /\ pc'[p] = "release" /\ rec'[p] = rec[p] /\ mem'[p] = mem[p]
        /\ \A q \in Processes \ {p} : pc'[q] = pc[q] /\ rec'[q] = rec[q] /\ mem'[q] = mem[q]
    BY <1>4 DEF Settle, Goto, TypeOK
  <2>2. \A r \in Recordings : row'[r].path = row[r].path /\ row'[r].link = row[r].link
    BY <1>4 DEF Settle, TypeOK, Rows
  <2>3. ASSUME Kept PROVE ProcessInv(p)'
    <3>1. mem[p].path \in Places /\ mem[p].link \in Places /\ rec[p] \in Recordings
      BY <1>2 DEF TypeOK, Copies
    <3>2. Ours(mem[p].path, rec[p])' /\ Ours(mem[p].link, rec[p])'
      BY <2>1, <2>3, <3>1, OursKept, NoneAssumption DEF StorageInv, ProcessInv, Ours
    <3> QED BY <2>1, <3>2 DEF ProcessInv, Ours
  <2> QED BY <1>1, <1>2, <2>1, <2>2, <2>3, UploadStopsStorage
<1> QED BY <1>1, <1>3, <1>4 DEF Collide

LEMMA PutObjectStorage ==
  ASSUME TypeOK, StorageInv, NEW p \in Processes, PutObject(p)
  PROVE  StorageInv' /\ Kept
<1> DEFINE d == mem[p].dest
<1>1. UNCHANGED <<row, rec, mem, card, provider>> /\ pc'[p] = "commit_upload" /\ pc[p] = "upload"
      /\ \A q \in Processes \ {p} : pc'[q] = pc[q]
  BY DEF PutObject, Goto, TypeOK, db, settings
<1>2. d \in Destinations /\ file[d] = "absent" /\ provider = "minio"
  BY DEF PutObject, StorageInv, ProcessInv, TypeOK, Copies, Places
<1>3. owner[d] = None
  BY <1>2 DEF StorageInv, UploadsInv
<1>4. file'[d] = "complete" /\ owner'[d] = rec[p]
      /\ \A e \in Destinations \ {d} : file'[e] = file[e] /\ owner'[e] = owner[e]
  BY <1>2 DEF PutObject, TypeOK
<1>5. Kept
  BY <1>2, <1>3, <1>4 DEF Kept
<1>6. RowsInv'
  BY <1>1, <1>5, RowsKept
<1>7. \A q \in Processes : pc[q] # "uploading"
  BY <1>2 DEF StorageInv, ProcessInv
<1>8. \A q \in Processes \ {p} : ProcessInv(q)'
  BY <1>1, <1>5, <1>7, OthersKept
<1>9. ProcessInv(p)'
  <2>1. mem[p].path \in Places /\ mem[p].link \in Places /\ rec[p] \in Recordings
    BY <1>1 DEF TypeOK, Copies
  <2>2. Ours(mem[p].path, rec[p])' /\ Ours(mem[p].link, rec[p])'
    BY <1>1, <1>5, <2>1, OursKept, NoneAssumption DEF StorageInv, ProcessInv, Ours
  <2> QED BY <1>1, <1>2, <1>4, <2>2, NoneAssumption DEF ProcessInv, Ours
<1>10. UploadsInv'
  BY <1>1, <1>4, <1>7 DEF StorageInv, UploadsInv
<1> QED BY <1>5, <1>6, <1>8, <1>9, <1>10 DEF StorageInv

LEMMA CommitUploadStorage ==
  ASSUME TypeOK, StorageInv, NEW p \in Processes, CommitUpload(p)
  PROVE  StorageInv' /\ Kept
<1> DEFINE x == [row[rec[p]] EXCEPT !.path = mem[p].dest]
           y == [mem[p] EXCEPT !.path = mem[p].dest]
<1>1. pc[p] = "commit_upload" /\ Commit(p, "uploaded", x, y, "share")
      /\ UNCHANGED <<external, provider>>
  BY DEF CommitUpload, settings
<1>2. rec[p] \in Recordings /\ row[rec[p]] \in Rows /\ mem[p] \in Copies
  BY <1>1 DEF TypeOK
<1>3. x \in Rows /\ y \in Copies /\ x.path = mem[p].dest /\ y.path = mem[p].dest
      /\ x.link = row[rec[p]].link /\ y.link = mem[p].link
  BY <1>2 DEF Rows, Copies
<1>4. Ours(mem[p].dest, rec[p]) /\ Ours(mem[p].link, rec[p]) /\ Ours(row[rec[p]].link, rec[p])
  BY <1>1, <1>2, NoneAssumption DEF StorageInv, ProcessInv, RowsInv
<1> HIDE DEF x, y
<1> QED BY <1>1, <1>3, <1>4, CommitStorage DEF Ours

LEMMA StorageStepStorage ==
  ASSUME TypeOK, StorageInv, NEW p \in Processes, StorageStep(p)
  PROVE  StorageInv' /\ Kept
<1>1. CASE StorageCollision(p)
  <2>1. pc[p] # "idle" /\ Collide(p) /\ UNCHANGED <<external, provider>>
    BY <1>1 DEF StorageCollision, settings
  <2>2. \A r \in Recordings : Ours(card[r], r)'
    BY <2>1 DEF StorageInv, RowsInv, Ours, external
  <2> QED BY <2>1, <2>2, RaisedStorage, SettleStorage DEF Collide, external
<1> QED
  BY <1>1, StorageReusedStorage, StorageClaimedStorage, UploadBeginsStorage, UploadEndsStorage,
     UploadBreaksStorage, PutObjectStorage, CommitUploadStorage DEF StorageStep
-----------------------------------------------------------------------------
(* The other steps of a run.                                               *)

LEMMA LoadStorage ==
  ASSUME TypeOK, StorageInv, NEW p \in Processes, pc[p] # "idle",
         mem' = [mem EXCEPT ![p] = CopyOf(row[rec[p]])], NEW step, Goto(p, step),
         step \notin {"idle", "claimed", "begin", "fail_found", "commit_upload", "upload",
                      "uploading"},
         UNCHANGED <<row, rec, external, provider>>
  PROVE  StorageInv' /\ Kept
<1>1. /\ pc'[p] = step /\ rec' = rec
      /\ \A q \in Processes \ {p} : pc'[q] = pc[q] /\ mem'[q] = mem[q]
  BY DEF Goto, TypeOK
<1>2. rec[p] \in Recordings /\ mem'[p].path = row[rec[p]].path /\ mem'[p].link = row[rec[p]].link
  BY DEF TypeOK, CopyOf
<1>3. RowsInv'
  BY DEF StorageInv, RowsInv, Ours, external
<1>4. ProcessInv(p)'
  BY <1>1, <1>2, <1>3 DEF ProcessInv, RowsInv, Ours
<1> QED BY <1>1, <1>3, <1>4, StoresUntouched DEF external

LEMMA LoadLockedStorage ==
  ASSUME TypeOK, StorageInv, NEW w \in Workers, LoadLocked(w)
  PROVE  StorageInv' /\ Kept
<1>1. w \in Processes
  BY WorkersAreProcesses
<1> DEFINE step == FirstStep[row[rec[w]].status]
<1>2. step \notin {"idle", "claimed", "begin", "fail_found", "commit_upload", "upload",
                   "uploading"}
  BY DEF LoadLocked, TransferResumable, FirstStep
<1>3. Goto(w, step) /\ pc[w] # "idle" /\ mem' = [mem EXCEPT ![w] = CopyOf(row[rec[w]])]
      /\ UNCHANGED <<row, rec, external, provider>>
  BY DEF LoadLocked, settings
<1> HIDE DEF step
<1> QED BY <1>1, <1>2, <1>3, LoadStorage

(* The copy of a process is dropped, or there is none yet.                 *)
LEMMA NoCopyStorage ==
  ASSUME TypeOK, StorageInv, NEW p \in Processes,
         mem'[p].path = None, mem'[p].link = None,
         pc'[p] \in {"idle", "fail_found", "claimed", "begin"},
         \A q \in Processes \ {p} : pc'[q] = pc[q] /\ rec'[q] = rec[q] /\ mem'[q] = mem[q],
         RowsInv', UNCHANGED <<external, provider>>
  PROVE  StorageInv' /\ Kept
<1>1. ProcessInv(p)'
  BY DEF ProcessInv, Ours
<1> QED BY <1>1, StoresUntouched DEF external

LEMMA PathsKept ==
  ASSUME StorageInv, UNCHANGED external,
         \A r \in Recordings : /\ row'[r].path \in {row[r].path, None}
                               /\ row'[r].link \in {row[r].link, None}
  PROVE  RowsInv'
  BY DEF StorageInv, RowsInv, Ours, external

LEMMA ReleaseStorage ==
  ASSUME TypeOK, StorageInv, NEW w \in Workers, Release(w)
  PROVE  StorageInv' /\ Kept
<1>1. w \in Processes /\ UNCHANGED <<external, provider>>
  BY WorkersAreProcesses DEF Release, settings
<1>2. mem'[w].path = None /\ mem'[w].link = None /\ pc'[w] \in {"idle", "fail_found"}
      /\ \A q \in Processes \ {w} : pc'[q] = pc[q] /\ rec'[q] = rec[q] /\ mem'[q] = mem[q]
  BY <1>1 DEF Release, TypeOK, Goto, CopyOf, NewRow
<1>3. \A r \in Recordings : row'[r].path = row[r].path /\ row'[r].link = row[r].link
  BY DEF Release, TypeOK, Rows
<1> QED BY <1>1, <1>2, <1>3, PathsKept, NoCopyStorage

LEMMA FailFoundStorage ==
  ASSUME TypeOK, StorageInv, NEW w \in Workers, FailFound(w)
  PROVE  StorageInv' /\ Kept
<1>1. w \in Processes /\ UNCHANGED <<external, provider>>
  BY WorkersAreProcesses DEF FailFound, settings
<1>2. mem'[w].path = None /\ mem'[w].link = None /\ pc'[w] = "idle"
      /\ \A q \in Processes \ {w} : pc'[q] = pc[q] /\ rec'[q] = rec[q] /\ mem'[q] = mem[q]
  BY <1>1 DEF FailFound, TypeOK, Goto, StorageInv, ProcessInv
<1>3. \A r \in Recordings : row'[r].path = row[r].path /\ row'[r].link = row[r].link
  BY DEF FailFound, TypeOK, Rows
<1> QED BY <1>1, <1>2, <1>3, PathsKept, NoCopyStorage

LEMMA LookupMatchedStorage ==
  ASSUME TypeOK, StorageInv, NEW w \in Processes, LookupMatched(w)
  PROVE  StorageInv' /\ Kept
<1>1. pc[w] # "idle" /\ rec[w] \in Recordings /\ row[rec[w]] \in Rows /\ mem[w] \in Copies
      /\ UNCHANGED <<external, provider>>
  BY DEF LookupMatched, TypeOK, settings
<1>2. PICK d \in Identities(rec[w]) :
        Commit(w, "candidate_matched", [row[rec[w]] EXCEPT !.page = TRUE, !.dest = d],
               [mem[w] EXCEPT !.dest = d], "route")
  BY DEF LookupMatched
<1>3. d \in Places
  BY <1>1 DEF Identities, Rows, Places
<1> DEFINE x == [row[rec[w]] EXCEPT !.page = TRUE, !.dest = d]
           y == [mem[w] EXCEPT !.dest = d]
<1>4. /\ x \in Rows /\ x.path = row[rec[w]].path /\ x.link = row[rec[w]].link
      /\ y \in Copies /\ y.path = mem[w].path /\ y.link = mem[w].link
  BY <1>1, <1>3 DEF Rows, Copies
<1>5. Commit(w, "candidate_matched", x, y, "route")
  BY <1>2
<1> HIDE DEF x, y
<1>6. Ours(x.path, rec[w]) /\ Ours(x.link, rec[w]) /\ Ours(y.path, rec[w]) /\ Ours(y.link, rec[w])
  BY <1>1, <1>4, NoneAssumption DEF StorageInv, RowsInv, ProcessInv
<1> QED BY <1>1, <1>4, <1>5, <1>6, CommitStorage

LEMMA ResolveStorage ==
  ASSUME TypeOK, StorageInv, NEW w \in Processes, Resolve(w)
  PROVE  StorageInv' /\ Kept
<1>1. PICK d \in Identities(rec[w]) :
        /\ row' = [row EXCEPT ![rec[w]] = [@ EXCEPT !.dest = d]]
        /\ mem' = [mem EXCEPT ![w] = [@ EXCEPT !.dest = d]]
  BY DEF Resolve
<1>2. \A r \in Recordings : row'[r].path = row[r].path /\ row'[r].link = row[r].link
  BY <1>1 DEF TypeOK, Rows
<1>3. mem'[w].path = mem[w].path /\ mem'[w].link = mem[w].link
      /\ \A q \in Processes \ {w} : mem'[q] = mem[q]
  BY <1>1 DEF TypeOK, Copies
<1>4. UNCHANGED <<external, provider, rec>> /\ pc'[w] = "route"
      /\ \A q \in Processes \ {w} : pc'[q] = pc[q]
  BY DEF Resolve, settings, Goto, TypeOK
<1>5. RowsInv'
  BY <1>2, <1>4 DEF StorageInv, RowsInv, Ours, external
<1>6. ProcessInv(w)'
  BY <1>3, <1>4 DEF StorageInv, ProcessInv, Ours, external
<1> QED BY <1>3, <1>4, <1>5, <1>6, StoresUntouched DEF external

(* A commit that leaves path and link as they are.                         *)
LEMMA PlainCommitStorage ==
  ASSUME TypeOK, StorageInv, NEW p \in Processes, pc[p] # "idle", NEW s, NEW step,
         Commit(p, s, row[rec[p]], mem[p], step),
         step \notin {"idle", "claimed", "begin", "fail_found", "commit_upload", "upload",
                      "uploading"},
         UNCHANGED <<external, provider>>
  PROVE  StorageInv' /\ Kept
<1>1. rec[p] \in Recordings /\ row[rec[p]] \in Rows /\ mem[p] \in Copies
  BY DEF TypeOK
<1>2. /\ Ours(row[rec[p]].path, rec[p]) /\ Ours(row[rec[p]].link, rec[p])
      /\ Ours(mem[p].path, rec[p]) /\ Ours(mem[p].link, rec[p])
  BY <1>1, NoneAssumption DEF StorageInv, RowsInv, ProcessInv
<1> QED BY <1>1, <1>2, CommitStorage

LEMMA ShareStorage ==
  ASSUME TypeOK, StorageInv, NEW w \in Processes, Share(w)
  PROVE  StorageInv' /\ Kept
<1>1. pc[w] # "idle" /\ rec[w] \in Recordings /\ row[rec[w]] \in Rows /\ mem[w] \in Copies
      /\ UNCHANGED <<external, provider>>
  BY DEF Share, TypeOK, settings
<1> DEFINE kept == IF row[rec[w]].artifact = None /\ provider = "synology"
                     THEN mem[w].path ELSE row[rec[w]].artifact
           x == [row[rec[w]] EXCEPT !.link = mem[w].path, !.artifact = kept]
           y == [mem[w] EXCEPT !.link = mem[w].path]
<1>2. kept \in Places /\ mem[w].path \in Places
  BY <1>1 DEF Rows, Copies
<1>3. /\ x \in Rows /\ x.path = row[rec[w]].path /\ x.link = mem[w].path
      /\ y \in Copies /\ y.path = mem[w].path /\ y.link = mem[w].path
  <2> HIDE DEF kept
  <2> QED BY <1>1, <1>2 DEF Rows, Copies
<1>4. Commit(w, "link_created", x, y, "card")
  BY DEF Share
<1> HIDE DEF x, y
<1>5. Ours(x.path, rec[w]) /\ Ours(x.link, rec[w]) /\ Ours(y.path, rec[w]) /\ Ours(y.link, rec[w])
  BY <1>1, <1>3, NoneAssumption DEF StorageInv, RowsInv, ProcessInv
<1> QED BY <1>1, <1>3, <1>4, <1>5, CommitStorage

LEMMA WriteCardStorage ==
  ASSUME TypeOK, StorageInv, NEW w \in Processes, WriteCard(w)
  PROVE  StorageInv' /\ Kept
<1>1. rec[w] \in Recordings /\ Ours(mem[w].link, rec[w]) /\ pc[w] # "idle"
  BY NoneAssumption DEF WriteCard, TypeOK, StorageInv, ProcessInv
<1>2. UNCHANGED <<row, rec, mem, owner, file, provider>> /\ Goto(w, "commit_card")
  BY DEF WriteCard, db, settings
<1>3. \A r \in Recordings : Ours(card[r], r)'
  BY <1>1, <1>2 DEF WriteCard, StorageInv, RowsInv, Ours, TypeOK
<1> QED BY <1>1, <1>2, <1>3, StepStorage

LEMMA StepFailsStorage ==
  ASSUME TypeOK, StorageInv, NEW w \in Processes, StepFails(w)
  PROVE  StorageInv' /\ Kept
<1>1. rec[w] \in Recordings /\ Ours(mem[w].link, rec[w]) /\ pc[w] # "idle"
  BY NoneAssumption DEF StepFails, TypeOK, StorageInv, ProcessInv
<1>2. UNCHANGED <<owner, file, provider>> /\ Settle(w, "failed", "nothing")
  BY DEF StepFails, settings
<1>3. card' = card \/ card' = [card EXCEPT ![rec[w]] = mem[w].link]
  BY DEF StepFails
<1>4. \A r \in Recordings : Ours(card[r], r)'
  BY <1>1, <1>2, <1>3 DEF StorageInv, RowsInv, Ours, TypeOK
<1> QED BY <1>1, <1>2, <1>4, SettleStorage

LEMMA QuietSettle ==
  ASSUME TypeOK, StorageInv, NEW p \in Processes, pc[p] # "idle", NEW s, NEW ask,
         Settle(p, s, ask), UNCHANGED <<external, provider>>
  PROVE  StorageInv' /\ Kept
<1>1. \A r \in Recordings : Ours(card[r], r)'
  BY DEF StorageInv, RowsInv, Ours, external
<1> QED BY <1>1, SettleStorage DEF external

LEMMA QuietStep ==
  ASSUME TypeOK, StorageInv, NEW p \in Processes, pc[p] # "idle",
         UNCHANGED <<row, rec, mem, owner, file, card, provider>>, NEW step, Goto(p, step),
         step \notin {"idle", "claimed", "begin", "fail_found", "commit_upload", "upload",
                      "uploading"}
  PROVE  StorageInv' /\ Kept
<1>1. \A r \in Recordings : Ours(card[r], r)'
  BY DEF StorageInv, RowsInv, Ours
<1> QED BY <1>1, StepStorage

LEMMA LeaveStorage ==
  ASSUME TypeOK, StorageInv, NEW p \in Processes, pc[p] # "idle", Leave(p),
         UNCHANGED <<external, provider>>
  PROVE  StorageInv' /\ Kept
  BY QuietStep DEF Leave, external

LEMMA RunStepStorage ==
  ASSUME TypeOK, StorageInv, NEW w \in Workers, RunStep(w)
  PROVE  StorageInv' /\ Kept
<1>1. w \in Processes
  BY WorkersAreProcesses
<1>2. CASE LoadFound(w)
  BY <1>1, <1>2, LoadStorage DEF LoadFound, db, settings
<1>3. CASE LoadLocked(w)
  BY <1>1, <1>3, LoadLockedStorage
<1>4. CASE LoadGone(w)
  BY <1>1, <1>4, LeaveStorage DEF LoadGone, settings
<1>5. CASE Release(w)
  BY <1>1, <1>5, ReleaseStorage
<1>6. CASE Calendar(w)
  BY <1>1, <1>6, QuietSettle DEF Calendar, settings
<1>7. CASE CalendarUnavailable(w)
  BY <1>1, <1>7, QuietStep DEF CalendarUnavailable, db, external, settings
<1>8. CASE CalendarRejected(w)
  BY <1>1, <1>8, QuietStep DEF CalendarRejected, db, external, settings
<1>9. CASE FailFound(w)
  BY <1>1, <1>9, FailFoundStorage
<1>10. CASE LookupMatched(w)
  BY <1>1, <1>10, LookupMatchedStorage
<1>11. CASE LookupUnresolved(w)
  BY <1>1, <1>11, QuietSettle DEF LookupUnresolved, settings
<1>12. CASE LookupDeferred(w)
  BY <1>1, <1>12, LeaveStorage DEF LookupDeferred, settings
<1>13. CASE Resolve(w)
  BY <1>1, <1>13, ResolveStorage
<1>14. CASE ResolveRejected(w)
  BY <1>1, <1>14, QuietSettle DEF ResolveRejected, settings
<1>15. CASE Route(w)
  BY <1>1, <1>15, QuietSettle, PlainCommitStorage DEF Route, settings
<1>16. CASE StorageStep(w)
  BY <1>1, <1>16, StorageStepStorage
<1>17. CASE Share(w)
  BY <1>1, <1>17, ShareStorage
<1>18. CASE WriteCard(w)
  BY <1>1, <1>18, WriteCardStorage
<1>19. CASE SkipCard(w)
  BY <1>1, <1>19, QuietSettle DEF SkipCard, settings
<1>20. CASE CardDeferred(w)
  BY <1>1, <1>20, LeaveStorage DEF CardDeferred, settings
<1>21. CASE CommitCard(w)
  BY <1>1, <1>21, PlainCommitStorage DEF CommitCard, settings
<1>22. CASE Await(w)
  BY <1>1, <1>22, PlainCommitStorage DEF Await, settings
<1>23. CASE SearchEnds(w)
  BY <1>1, <1>23, QuietStep DEF SearchEnds, db, external, settings
<1>24. CASE SearchWaits(w)
  BY <1>1, <1>24, LeaveStorage DEF SearchWaits, settings
<1>25. CASE CompleteUnmarked(w)
  BY <1>1, <1>25, QuietSettle DEF CompleteUnmarked, settings
<1>26. CASE MarkSource(w)
  BY <1>1, <1>26, QuietStep DEF MarkSource, db, external, settings
<1>27. CASE CommitMark(w)
  BY <1>1, <1>27, PlainCommitStorage DEF CommitMark, settings
<1>28. CASE Complete(w)
  BY <1>1, <1>28, QuietSettle DEF Complete, settings
<1>29. CASE StepFails(w)
  BY <1>1, <1>29, StepFailsStorage
<1> QED
  BY <1>2, <1>3, <1>4, <1>5, <1>6, <1>7, <1>8, <1>9, <1>10, <1>11, <1>12, <1>13, <1>14, <1>15, <1>16, <1>17, <1>18, <1>19, <1>20, <1>21, <1>22, <1>23, <1>24, <1>25, <1>26, <1>27, <1>28, <1>29 DEF RunStep
-----------------------------------------------------------------------------
(* Requests, crashes and the passing of time.                              *)

LEMMA HandlerStepStorage ==
  ASSUME TypeOK, StorageInv, NEW h \in Handlers, HandlerStep(h)
  PROVE  StorageInv' /\ Kept
<1>1. h \in Processes
  BY WorkersAreProcesses
<1>2. CASE Begin(h)
  BY <1>1, <1>2, LoadStorage DEF Begin, db, settings
<1>3. CASE StorageStep(h)
  BY <1>1, <1>3, StorageStepStorage
<1>4. CASE CommitRefused(h)
  BY <1>1, <1>4, RaisedStorage DEF CommitRefused, settings
<1>5. CASE ShareAndComplete(h)
  <2>1. rec[h] \in Recordings /\ Ours(mem[h].path, rec[h])
    BY <1>1, <1>5, NoneAssumption DEF ShareAndComplete, TypeOK, StorageInv, ProcessInv
  <2>2. row'[rec[h]].path = row[rec[h]].path /\ row'[rec[h]].link = mem[h].path
        /\ \A r \in Recordings \ {rec[h]} : row'[r] = row[r]
    BY <1>5, <2>1 DEF ShareAndComplete, TypeOK, Rows
  <2>3. UNCHANGED <<external, provider>>
    BY <1>5 DEF ShareAndComplete, settings
  <2>4. RowsInv'
    BY <2>1, <2>2, <2>3 DEF StorageInv, RowsInv, Ours, external
  <2>5. mem'[h].path = None /\ mem'[h].link = None /\ pc'[h] = "idle"
        /\ \A q \in Processes \ {h} : pc'[q] = pc[q] /\ rec'[q] = rec[q] /\ mem'[q] = mem[q]
    BY <1>1, <1>5 DEF ShareAndComplete, TypeOK, Goto, CopyOf, NewRow
  <2> QED BY <1>1, <2>3, <2>4, <2>5, NoCopyStorage
<1>6. CASE HandlerRaises(h)
  BY <1>1, <1>6, RaisedStorage DEF HandlerRaises, settings
<1> QED BY <1>2, <1>3, <1>4, <1>5, <1>6 DEF HandlerStep

(* Nothing happens to a process or a store; rows keep or forget the file.  *)
LEMMA RowsOnlyStorage ==
  ASSUME StorageInv, UNCHANGED <<pc, rec, mem, external, provider>>,
         \A r \in Recordings : /\ row'[r].path \in {row[r].path, None}
                               /\ row'[r].link \in {row[r].link, None}
  PROVE  StorageInv' /\ Kept
<1>1. RowsInv'
  BY PathsKept
<1> QED BY <1>1 DEF StorageInv, ProcessInv, UploadsInv, Ours, Kept, external

LEMMA ResetPaths ==
  ASSUME NEW x \in Rows
  PROVE  Reset(x) \in Rows /\ Reset(x).path \in {x.path, None} /\ Reset(x).link \in {x.link, None}
  BY ResetType DEF Reset, Rows

LEMMA DecisionStorage ==
  ASSUME TypeOK, StorageInv, NEW r \in Recordings, Decision(r)
  PROVE  StorageInv' /\ Kept
<1>1. row[r] \in Rows
  BY DEF TypeOK
<1>2. CASE Answer(r)
  <2>1. \A q \in Recordings : row'[q].path = row[q].path /\ row'[q].link = row[q].link
    <3>1. CASE row' = [row EXCEPT ![r] = [@ EXCEPT !.status = "calendar_event_found",
                                                   !.ask = "nothing"]]
      BY <3>1 DEF TypeOK, Rows
    <3>2. CASE row' = [row EXCEPT ![r] = [@ EXCEPT !.status = "candidate_matched", !.page = TRUE,
                                                   !.ask = "nothing"]]
      BY <3>2 DEF TypeOK, Rows
    <3>3. CASE row' = [row EXCEPT ![r] = [@ EXCEPT !.status = "ignored", !.ask = "nothing"]]
      BY <3>3 DEF TypeOK, Rows
    <3> QED BY <1>2, <3>1, <3>2, <3>3 DEF Answer
  <2> QED BY <1>2, <2>1, RowsOnlyStorage DEF Answer, local, settings
<1>3. ASSUME NEW d \in Destinations, RouteInterview(r, d) PROVE StorageInv' /\ Kept
  <2>1. \A q \in Recordings : /\ row'[q].path \in {row[q].path, None}
                              /\ row'[q].link \in {row[q].link, None}
    <3>1. row'[r].path = Reset(row[r]).path /\ row'[r].link = Reset(row[r]).link
      BY <1>1, <1>3, ResetPaths DEF RouteInterview, TypeOK, Rows
    <3>2. \A q \in Recordings \ {r} : row'[q] = row[q]
      BY <1>3 DEF RouteInterview, TypeOK
    <3> QED BY <1>1, <3>1, <3>2, ResetPaths
  <2> QED BY <1>3, <2>1, RowsOnlyStorage DEF RouteInterview, local, settings
<1>4. ASSUME NEW h \in Handlers, NEW d \in Destinations, RouteNonInterview(h, r, d)
      PROVE  StorageInv' /\ Kept
  <2>1. h \in Processes
    BY WorkersAreProcesses
  <2>2. \A q \in Recordings : /\ row'[q].path \in {row[q].path, None}
                              /\ row'[q].link \in {row[q].link, None}
    <3>1. row'[r].path = Reset(row[r]).path /\ row'[r].link = Reset(row[r]).link
      BY <1>1, <1>4, ResetPaths DEF RouteNonInterview, TypeOK, Rows
    <3>2. \A q \in Recordings \ {r} : row'[q] = row[q]
      BY <1>4 DEF RouteNonInterview, TypeOK
    <3> QED BY <1>1, <3>1, <3>2, ResetPaths
  <2>3. UNCHANGED <<external, provider>>
    BY <1>4 DEF RouteNonInterview, settings
  <2>4. mem'[h].path = None /\ mem'[h].link = None /\ pc'[h] = "begin"
        /\ \A q \in Processes \ {h} : pc'[q] = pc[q] /\ rec'[q] = rec[q] /\ mem'[q] = mem[q]
    BY <1>4, <2>1 DEF RouteNonInterview, TypeOK, Goto, StorageInv, ProcessInv
  <2> QED BY <2>1, <2>2, <2>3, <2>4, PathsKept, NoCopyStorage
<1> QED BY <1>2, <1>3, <1>4 DEF Decision

LEMMA ClaimStorage ==
  ASSUME TypeOK, StorageInv, NEW w \in Workers, NEW r \in Recordings, Claim(w, r)
  PROVE  StorageInv' /\ Kept
<1>1. w \in Processes
  BY WorkersAreProcesses
<1>2. \A q \in Recordings : row'[q].path = row[q].path /\ row'[q].link = row[q].link
  BY DEF Claim, TypeOK, Rows
<1>3. UNCHANGED <<external, provider>>
  BY DEF Claim, settings
<1>4. mem'[w].path = None /\ mem'[w].link = None /\ pc'[w] = "claimed"
      /\ \A q \in Processes \ {w} : pc'[q] = pc[q] /\ rec'[q] = rec[q] /\ mem'[q] = mem[q]
  BY <1>1 DEF Claim, TypeOK, Goto, StorageInv, ProcessInv
<1> QED BY <1>1, <1>2, <1>3, <1>4, PathsKept, NoCopyStorage

LEMMA CrashStorage ==
  ASSUME TypeOK, StorageInv, NEW p \in Processes, Crash(p)
  PROVE  StorageInv' /\ Kept
<1>1. UNCHANGED <<row, external, provider>>
  BY DEF Crash, settings
<1>2. mem'[p].path = None /\ mem'[p].link = None /\ pc'[p] = "idle"
      /\ \A q \in Processes \ {p} : pc'[q] = pc[q] /\ rec'[q] = rec[q] /\ mem'[q] = mem[q]
  BY DEF Crash, TypeOK, Goto, CopyOf, NewRow
<1> QED BY <1>1, <1>2, PathsKept, NoCopyStorage

LEMMA TimeStorage ==
  ASSUME TypeOK, StorageInv, NEW r \in Recordings, ExpireLease(r) \/ DeadlinePasses(r)
  PROVE  StorageInv' /\ Kept
<1>1. \A q \in Recordings : row'[q].path = row[q].path /\ row'[q].link = row[q].link
  BY DEF ExpireLease, DeadlinePasses, db, TypeOK, Rows
<1> QED BY <1>1, RowsOnlyStorage DEF ExpireLease, DeadlinePasses, local, settings

LEMMA NextStorage ==
  ASSUME TypeOK, StorageInv, [Next]_vars
  PROVE  StorageInv' /\ Kept
<1>1. CASE UNCHANGED vars
  <2>1. UNCHANGED <<row, pc, rec, mem, external, provider>>
    BY <1>1 DEF vars, external
  <2> QED BY <2>1, RowsOnlyStorage
<1> QED
  BY <1>1, RunStepStorage, HandlerStepStorage, ClaimStorage, CrashStorage, TimeStorage,
     DecisionStorage DEF Next

(* The path on a row and the link on a card lead to a complete file that   *)
(* carries the recording's own marker, for any number of workers, handlers *)
(* and recordings, with runs that outlive their lease.                     *)
THEOREM RecordedFilesAreOurs == Spec => []RecordedFileIsOurs
<1>1. StorageInv => RecordedFileIsOurs
  BY DEF StorageInv, RowsInv, Ours, RecordedFileIsOurs
<1> QED BY <1>1, InitType, NextType, StorageInit, NextStorage, PTL DEF Spec

(* No step, of whoever, replaces a complete file or takes over a marker.   *)
THEOREM NothingOverwritten == Spec => NoOverwrite
<1>1. TypeOK /\ StorageInv /\ [Next]_vars =>
        [\A d \in Destinations :
           /\ file[d] = "complete" => file'[d] = "complete"
           /\ owner[d] # None => owner'[d] = owner[d]]_vars
  BY NextStorage DEF Kept
<1> QED BY <1>1, InitType, NextType, StorageInit, NextStorage, PTL DEF Spec, NoOverwrite
=============================================================================
