------------------------- MODULE RecordingLifecycle -------------------------
(***************************************************************************)
(* What the status column of a recording promises: the transition table of *)
(* app/db/models/recording.py, read as a specification.  Whoever writes    *)
(* the column (a scan, a recruiter request, a recovery) may only take one  *)
(* edge of the table at a time, and no edge leaves completed or ignored.   *)
(* RecordingPipeline is shown to implement this module.                    *)
(***************************************************************************)
EXTENDS Naturals

CONSTANT Recordings   \* the recordings under observation

VARIABLE status       \* status[r]: the committed status of recording r

Statuses ==
  { "found", "calendar_event_found", "candidate_matched", "manual_review",
    "transfer_started", "uploaded", "link_created", "notion_updated",
    "awaiting_summary_email", "source_marked", "source_deleted",
    "completed", "ignored", "failed" }

Transitions ==
  [ found                  |-> { "calendar_event_found", "manual_review", "ignored", "failed" },
    calendar_event_found   |-> { "candidate_matched", "manual_review", "failed" },
    candidate_matched      |-> { "transfer_started", "manual_review", "failed" },
    manual_review          |-> { "calendar_event_found", "candidate_matched",
                                 "transfer_started", "ignored", "failed" },
    transfer_started       |-> { "uploaded", "manual_review", "failed" },
    uploaded               |-> { "link_created", "failed" },
    link_created           |-> { "notion_updated", "completed", "failed" },
    notion_updated         |-> { "awaiting_summary_email", "source_marked",
                                 "completed", "failed" },
    awaiting_summary_email |-> { "awaiting_summary_email", "source_marked",
                                 "completed", "failed" },
    source_marked          |-> { "source_deleted", "completed" },
    source_deleted         |-> { "completed" },
    completed              |-> {},
    ignored                |-> {},
    failed                 |-> { "transfer_started" } ]

Init == status = [r \in Recordings |-> "found"]

Advance(r, s) ==
  /\ s \in Transitions[status[r]]
  /\ status' = [status EXCEPT ![r] = s]

Next == \E r \in Recordings : \E s \in Statuses : Advance(r, s)

Spec == Init /\ [][Next]_status
=============================================================================
