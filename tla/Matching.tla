------------------------------ MODULE Matching ------------------------------
(***************************************************************************)
(* What one found recording is matched with, automatically or by asking:   *)
(* InterviewMatcher.score of app/services/matching.py decides from a       *)
(* snapshot of the recruiter's calendars which event was recorded, and     *)
(* CandidateService.find_and_match of app/services/candidate.py decides,   *)
(* from the Notion cards of the name in that event, whose interview it was.*)
(*                                                                         *)
(* Only what the decisions tell apart is kept: of an event whether it      *)
(* enters the pool and the signals of its score, of a card its Spots and   *)
(* whether it has the e-mail address of the event's only other attendee.   *)
(* Left out: the diagnostics, and events and cards beyond the answers of   *)
(* CalDAV and Notion (the first ten cards).                                *)
(***************************************************************************)
EXTENDS Integers, Sequences, FiniteSetsExt, Common

CONSTANTS
  EventCalendars,    \* available calendars of the recruiter
  Monitored,         \* those whose events are eligible
  Meetings,          \* uid and recurrence_id of events
  MaxEvents,         \* bound on the events of a snapshot
  MaxCards,          \* bound on the cards Notion answers with
  MaxSpots,          \* bound on the Spots of a card
  MaxChoices         \* MAX_CANDIDATE_CHOICES

ASSUME MatchingAssumption ==
  /\ Monitored \subseteq EventCalendars
  /\ {MaxEvents, MaxCards, MaxSpots, MaxChoices} \subseteq Nat

VARIABLES
  filename,   \* whether disk_filename can be parsed and agrees with the file's time
  snapshot,   \* events CalDAV has answered with, in order
  found,      \* the recording: status, manual_review_reason, matched event
  cards,      \* pages of search_pages, in order
  page        \* the card chosen, an index of cards, or None

matchVars == <<filename, snapshot, found, cards, page>>

(* fits: how the event compares with the recording.  "no": another time,   *)
(* a block of 20 hours, or neither of the other two; "title": the title of *)
(* the recording; "booking": a link of a booking service.  marks counts    *)
(* the Telemost link and the interview keyword; name: "(name)" at the end. *)
Events ==
  [ calendar : EventCalendars, meeting : Meetings, fits : {"no", "title", "booking"},
    name : BOOLEAN, marks : 0..2 ]

Cards == [email : BOOLEAN, spots : 0..MaxSpots]

EventReasons ==
  { "filename_invalid", "calendar_configuration_incomplete", "no_compatible_event",
    "unmonitored_only", "multiple_eligible_events", "unmonitored_collision", "low_confidence" }

CardReasons ==
  { "no_candidate_name_in_event", "no_candidate_found", "multiple_spots",
    "multiple_candidates", "candidate_choices_exceed_limit", "invalid_selected_spot_identity" }

Matches ==
  [ status : {"found", "calendar_event_found", "candidate_matched",
              "manual_review_required", "failed"},
    reason : EventReasons \cup CardReasons \cup {None},
    event  : Events \cup {None} ]

ASSUME NoneIsNoMatch == None \notin EventReasons \cup Events \cup Nat

MatchingTypeOK ==
  /\ filename \in BOOLEAN
  /\ snapshot \in Seq(Events) /\ Len(snapshot) <= MaxEvents
  /\ found \in Matches
  /\ cards \in Seq(Cards) /\ Len(cards) <= MaxCards
  /\ page \in (DOMAIN cards) \cup {None}

MatchingInit ==
  /\ filename \in BOOLEAN
  /\ snapshot = <<>>
  /\ found = [status |-> "found", reason |-> None, event |-> None]
  /\ cards = <<>>
  /\ page = None
-----------------------------------------------------------------------------
(* The pool: compatible events, one for each calendar, uid and occurrence, *)
(* the first of those CalDAV answered with.                                *)

(* Mutant of SameKey: an event shared by two calendars counts as one.      *)
SameKeyByUid(e, f) == e.meeting = f.meeting

SameKey(e, f) == e.calendar = f.calendar /\ e.meeting = f.meeting

Compatible(e) == e.fits # "no"

Pool(events) ==
  { events[n] : n \in {i \in DOMAIN events :
      Compatible(events[i])
      /\ \A j \in 1..(i - 1) : Compatible(events[j]) => ~SameKey(events[j], events[i])} }

FromMonitored(e) == e.calendar \in Monitored

(* _score_event in hundredths; that the times overlap is why it is here.   *)
Score(e) ==
  35 + (IF e.name THEN 25 ELSE 0) + (IF e.fits = "booking" THEN 30 ELSE 0) + 5 * e.marks

ConfidenceThreshold == 70

EventReason(pool) ==
  LET eligible == {e \in pool : FromMonitored(e)} IN
  CASE pool = {}                  -> "no_compatible_event"
    [] pool # {} /\ eligible = {} -> "unmonitored_only"
    [] Cardinality(eligible) > 1  -> "multiple_eligible_events"
    [] Cardinality(eligible) = 1 /\ eligible # pool -> "unmonitored_collision"
    [] \E e \in pool : pool = {e} /\ FromMonitored(e) ->
         IF \E e \in pool : Score(e) < ConfidenceThreshold THEN "low_confidence" ELSE None

(* _apply_match_result.                                                    *)
Review(reason) == [status |-> "manual_review_required", reason |-> reason, event |-> None]
-----------------------------------------------------------------------------
(* The calendar match of a scan.                                           *)

EventReported ==
  /\ found.status = "found" /\ filename /\ Len(snapshot) < MaxEvents
  /\ \E e \in Events : snapshot' = Append(snapshot, e)
  /\ UNCHANGED <<filename, found, cards, page>>

(* A calendar does not answer: found until the next scan.                  *)
SnapshotIncomplete ==
  /\ found.status = "found" /\ snapshot # <<>>
  /\ snapshot' = <<>>
  /\ UNCHANGED <<filename, found, cards, page>>

MatchEvent ==
  /\ found.status = "found" /\ filename
  /\ LET pool == Pool(snapshot) reason == EventReason(pool) IN
     found' = IF reason # None
                THEN Review(reason)
                ELSE [status |-> "calendar_event_found", reason |-> None,
                      event |-> CHOOSE e \in pool : TRUE]
  /\ UNCHANGED <<filename, snapshot, cards, page>>

NotMatched ==
  /\ found.status = "found"
  /\ \/ ~filename /\ found' = Review("filename_invalid")
     \/ filename /\ snapshot = <<>> /\ found' = Review("calendar_configuration_incomplete")
     \/ filename /\ found' = [found EXCEPT !.status = "failed"]
  /\ UNCHANGED <<filename, snapshot, cards, page>>
-----------------------------------------------------------------------------
(* find_and_match: the cards of the name whose recording is empty.         *)

ByEmail == {i \in DOMAIN cards' : cards'[i].email}

(* The cards of the question: those with the address when that is one.     *)
Asked == IF Cardinality(ByEmail) = 1 THEN ByEmail ELSE DOMAIN cards'

ChoiceCount(some) ==
  MapThenSumSet(LAMBDA i : IF cards'[i].spots > 1 THEN cards'[i].spots ELSE 1, some)

(* The card needs no question: it is the only one, and has at most a Spot. *)
Decided(i) == Asked = {i} /\ cards'[i].spots <= 1

CardReason ==
  CASE ~found.event.name -> "no_candidate_name_in_event"
    [] found.event.name /\ cards' = <<>> -> "no_candidate_found"
    [] found.event.name /\ cards' # <<>> ->
         IF ChoiceCount(Asked) > MaxChoices THEN "candidate_choices_exceed_limit"
         ELSE IF Cardinality(Asked) = 1 THEN "multiple_spots" ELSE "multiple_candidates"

CardsAnswered ==
  /\ found.status = "calendar_event_found"
  /\ \E n \in 0..MaxCards :
       /\ found.event.name \/ n = 0
       /\ cards' \in [1..n -> Cards]
  /\ \/ \E i \in DOMAIN cards' :
          /\ Decided(i)
          /\ page' = i /\ found' = [found EXCEPT !.status = "candidate_matched"]
     \/ \E i \in DOMAIN cards' :     \* its Spot is not one to link to
          /\ Decided(i) /\ cards'[i].spots = 1
          /\ found' = Review("invalid_selected_spot_identity") /\ UNCHANGED page
     \/ /\ ~\E i \in DOMAIN cards' : Decided(i)
        /\ found' = Review(CardReason) /\ UNCHANGED page
  /\ UNCHANGED <<filename, snapshot>>

(* Notion answers with an error that a later scan would get as well.       *)
CardsFail ==
  /\ found.status = "calendar_event_found"
  /\ found' = [found EXCEPT !.status = "failed"]
  /\ UNCHANGED <<filename, snapshot, cards, page>>
-----------------------------------------------------------------------------
MatchingNext ==
  \/ EventReported \/ SnapshotIncomplete \/ MatchEvent \/ NotMatched
  \/ CardsAnswered \/ CardsFail

MatchingSpec == MatchingInit /\ [][MatchingNext]_matchVars
-----------------------------------------------------------------------------
(* Properties.                                                             *)

(* Nobody is asked only where there is nothing to ask: in a snapshot with  *)
(* a compatible event of another calendar or meeting, monitored or not, no *)
(* event is chosen, nor without a booking link when a signal is missing;   *)
(* and no card is chosen beside another one, except by the address.        *)
AutomaticIsUnambiguous ==
  /\ found.event # None =>
       LET e == found.event IN
       /\ e.calendar \in Monitored
       /\ \A n \in DOMAIN snapshot : snapshot[n].fits # "no" =>
            snapshot[n].calendar = e.calendar /\ snapshot[n].meeting = e.meeting
       /\ IF e.fits = "booking" THEN e.name \/ e.marks > 0 ELSE e.name /\ e.marks = 2
  /\ page # None =>
       \A i \in DOMAIN cards \ {page} : cards[page].email /\ ~cards[i].email
=============================================================================
