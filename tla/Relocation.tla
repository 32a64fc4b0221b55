----------------------------- MODULE Relocation -----------------------------
(***************************************************************************)
(* What a reroute (app/services/reroute.py) promises: the stored file is   *)
(* carried at most one folder away from the one the recording names, and   *)
(* the recording then follows it under a higher version; nothing is        *)
(* carried again before the recording has caught up.  Reroute is shown to  *)
(* implement this module.                                                  *)
(***************************************************************************)
EXTENDS Naturals

CONSTANTS Folders, Home   \* the folders, and the one the file is first stored in

VARIABLES
  path,      \* the folder the recording names (its active artifact)
  place,     \* the folder the file is in
  version    \* the version of the recording

Init == path = Home /\ place = Home /\ version = 0

Carry ==
  /\ place = path
  /\ place' \in Folders \ {path}
  /\ UNCHANGED <<path, version>>

Follow ==
  /\ place # path
  /\ path' = place
  /\ version' = version + 1
  /\ UNCHANGED place

Next == Carry \/ Follow

Spec == Init /\ [][Next]_<<path, place, version>>
=============================================================================
