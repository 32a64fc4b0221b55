------------------------------ MODULE Calendars ------------------------------
(***************************************************************************)
(* The calendars of one recruiter: discovery and snapshot of               *)
(* app/tools/calendar.py, the endpoints of app/routers/calendars.py, and   *)
(* the commands of tools/setup/configure_recruiter.py that set a recruiter *)
(* up and activate it.  CalDAV is asked without a transaction.  A session  *)
(* writes the attributes it changed since it loaded them, and no others;   *)
(* nothing but the unique index keeps a second default calendar out.       *)
(*                                                                         *)
(* Left out: the version of the selection (a stale request changes         *)
(* nothing), the age of a discovery (each scan begins with one), and       *)
(* changes of the settings after the preflight.                            *)
(***************************************************************************)
EXTENDS Naturals, FiniteSets, Common

CONSTANT Calendars    \* calendar collections of the recruiter

VARIABLES
  listed,      \* collections CalDAV lists now
  calendar,    \* calendar[c]: the RecruiterCalendar row of c, or None
  recruiter,   \* the RecruiterConfig row, or None
  discovery,   \* discovery[d]: what the discovery for d is at, or None
  setup,       \* the command of the operator that runs, or None
  scan         \* how far a scan is

calendarVars == <<listed, calendar, recruiter, discovery, setup, scan>>

Clients == {"endpoint", "setup", "scan"}    \* who asks for a discovery

CalendarRows == [available : BOOLEAN, default : BOOLEAN, selected : BOOLEAN]

RecruiterRows ==
  [ active   : BOOLEAN,
    verified : BOOLEAN,                  \* preflight of this Notion token and schema
    url      : Calendars \cup {None} ]   \* caldav_calendar_url

Discoveries ==
  [ next : {"load", "commit"}, list : SUBSET Calendars,
    up   : SUBSET Calendars,             \* becomes available
    down : SUBSET Calendars,
    new  : SUBSET Calendars,             \* rows to insert
    adopt : Calendars \cup {None} ]      \* becomes the default

Setups ==
  [ next   : {"discover", "choose", "commit", "notion", "activate"},
    held   : Calendars \cup {None},      \* the default when the rows were loaded
    target : Calendars \cup {None} ]     \* default_calendar_id

ASSUME NoneIsNoCalendar ==
  None \notin Calendars \cup CalendarRows \cup RecruiterRows \cup Discoveries \cup Setups

CalendarTypeOK ==
  /\ listed \subseteq Calendars
  /\ calendar \in [Calendars -> CalendarRows \cup {None}]
  /\ recruiter \in RecruiterRows \cup {None}
  /\ discovery \in [Clients -> Discoveries \cup {None}]
  /\ setup \in Setups \cup {None}
  /\ scan \in {"idle", "refresh", "snapshot", "complete"}

(* Nothing yet, or a recruiter of the time before the table of calendars.  *)
CalendarInit ==
  /\ listed \in SUBSET Calendars
  /\ calendar = [c \in Calendars |-> None]
  /\ recruiter \in {None} \cup [active : {FALSE}, verified : {FALSE}, url : Calendars]
  /\ discovery = [d \in Clients |-> None]
  /\ setup = None
  /\ scan = "idle"

Known       == {c \in Calendars : calendar[c] # None}
Listable    == {c \in Known : calendar[c].available}
Defaults    == {c \in Known : calendar[c].default}
Selected    == {c \in Known : calendar[c].selected}

(* _effective_ids: the selection, or else the default.                     *)
Effective == IF Selected # {} THEN Selected ELSE Defaults

CaldavChanges ==
  /\ listed' \in SUBSET Calendars
  /\ UNCHANGED <<calendar, recruiter, discovery, setup, scan>>
-----------------------------------------------------------------------------
(* Discovery.                                                              *)

Asks(d) ==
  CASE d = "endpoint" -> recruiter # None
    [] d = "setup"    -> setup # None /\ setup.next = "discover"
    [] d = "scan"     -> scan = "refresh"

(* _fetch_calendar_collections; a scan does not go on without collections. *)
FetchCalendars(d) ==
  /\ Asks(d) /\ discovery[d] = None
  /\ d = "scan" => listed # {}
  /\ discovery' = [discovery EXCEPT ![d] =
       [next |-> "load", list |-> listed, up |-> {}, down |-> {}, new |-> {}, adopt |-> None]]
  /\ UNCHANGED <<listed, calendar, recruiter, setup, scan>>

(* validate_selection: what the recruiter chose must be there.             *)
SelectionListed(list) ==
  IF Selected # {} THEN Selected \subseteq list ELSE Cardinality(Defaults \cap list) = 1

(* The legacy URL becomes the default where there is none.                 *)
LegacyDefault(d, list) ==
  IF d # "scan" /\ Defaults = {} /\ recruiter.url \in list THEN recruiter.url ELSE None

(* Mutant of Appears: a calendar that comes back stays unavailable.        *)
AppearsOnce(list) == list \ Known

Appears(list) == list \ Listable

(* _persist_discovery loads the rows, and changes them in the session.     *)
LoadCalendars(d) ==
  /\ discovery[d] # None /\ discovery[d].next = "load"
  /\ LET list == discovery[d].list IN
     /\ d = "scan" => SelectionListed(list)
     /\ discovery' = [discovery EXCEPT ![d] =
          [ next |-> "commit", list |-> {},
            up |-> Appears(list), down |-> Listable \ list, new |-> list \ Known,
            adopt |-> LegacyDefault(d, list) ]]
  /\ UNCHANGED <<listed, calendar, recruiter, setup, scan>>

(* Mutant of OneDefault: the table has no such index.                      *)
OneDefaultNever(rows) == TRUE

(* uq_recruiter_calendar_default.                                          *)
OneDefault(rows) == 
  Cardinality({c \in Calendars : rows[c] # None /\ rows[c].default}) <= 1

Discovered(w) ==
  [c \in Calendars |->
    IF c \in w.new
      THEN [available |-> TRUE, default |-> c = w.adopt, selected |-> FALSE]
      ELSE IF calendar[c] = None THEN None
      ELSE [calendar[c] EXCEPT
             !.available = (@ /\ c \notin w.down) \/ c \in w.up,
             !.default = @ \/ c = w.adopt]]

(* The commit, unless an index refuses it.                                 *)
CommitDiscovery(d) ==
  /\ discovery[d] # None /\ discovery[d].next = "commit"
  /\ discovery[d].new \cap Known = {}
  /\ calendar' = Discovered(discovery[d])
  /\ OneDefault(calendar')
  /\ discovery' = [discovery EXCEPT ![d] = None]
  /\ setup' = IF d = "setup" THEN [setup EXCEPT !.next = "choose"] ELSE setup
  /\ scan' = IF d = "scan" THEN "snapshot" ELSE scan
  /\ UNCHANGED <<listed, recruiter>>

(* CalDAV does not answer, a check or an index refuses, or a restart.      *)
DiscoveryFailed(d) ==
  /\ discovery[d] # None
  /\ discovery' = [discovery EXCEPT ![d] = None]
  /\ setup' = IF d = "setup" THEN None ELSE setup
  /\ scan' = IF d = "scan" THEN "idle" ELSE scan
  /\ UNCHANGED <<listed, calendar, recruiter>>
-----------------------------------------------------------------------------
(* The endpoints, under the lock of the recruiter row.                     *)

ReplaceSelection(chosen) ==
  /\ recruiter # None /\ chosen \subseteq Listable
  /\ calendar' = [c \in Calendars |->
       IF c \in Known THEN [calendar[c] EXCEPT !.selected = c \in chosen] ELSE None]
  /\ UNCHANGED <<listed, recruiter, discovery, setup, scan>>

SetDefault(c) ==
  /\ recruiter # None /\ c \in Listable
  /\ calendar' = [b \in Calendars |->
       IF b \in Known THEN [calendar[b] EXCEPT !.default = b = c] ELSE None]
  /\ recruiter' = [recruiter EXCEPT !.url = c]
  /\ UNCHANGED <<listed, discovery, setup, scan>>
-----------------------------------------------------------------------------
(* The commands of the operator, one at a time.                            *)

Configure ==
  /\ recruiter = None /\ setup = None
  /\ recruiter' = [active |-> FALSE, verified |-> FALSE, url |-> None]
  /\ UNCHANGED <<listed, calendar, discovery, setup, scan>>

Inactive == recruiter # None /\ ~recruiter.active

StartsWith(next) ==
  /\ setup = None /\ Inactive
  /\ setup' = [next |-> next, held |-> None, target |-> None]
  /\ UNCHANGED <<listed, calendar, recruiter, discovery, scan>>

(* preflight_recruiter loads the recruiter, and then discovers.            *)
StartPreflight == StartsWith("discover")

(* The rows are loaded; Mattermost and the storage are asked.              *)
PreflightChooses(c) ==
  /\ setup # None /\ setup.next = "choose" /\ c \in Listable
  /\ \E held \in (IF Defaults = {} THEN {None} ELSE Defaults) :
       setup' = [setup EXCEPT !.next = "commit", !.held = held, !.target = c]
  /\ UNCHANGED <<listed, calendar, recruiter, discovery, scan>>

(* What did not change since it was loaded is not written: of the rows, or *)
(* of the recruiter, which was loaded before.                              *)
PreflightCommits ==
  /\ setup # None /\ setup.next = "commit"
  /\ calendar' = [c \in Calendars |->
       IF setup.held # setup.target /\ c \in {setup.held, setup.target}
         THEN [calendar[c] EXCEPT !.default = c = setup.target] ELSE calendar[c]]
  /\ OneDefault(calendar')
  /\ \E url \in {recruiter.url, setup.target} : recruiter' = [recruiter EXCEPT !.url = url]
  /\ setup' = [setup EXCEPT !.next = "notion"]
  /\ UNCHANGED <<listed, discovery, scan>>

(* preflight_recruiter_notion, in a transaction of its own.                *)
PreflightVerifies ==
  /\ setup # None /\ setup.next = "notion" /\ Inactive
  /\ recruiter' = [recruiter EXCEPT !.verified = TRUE]
  /\ setup' = None
  /\ UNCHANGED <<listed, calendar, discovery, scan>>

(* activate_recruiter checks what it loaded, and asks Yandex and           *)
(* Mattermost before it commits.                                           *)
StartActivate ==
  /\ Inactive /\ recruiter.verified
  /\ Cardinality(Defaults \cap Listable) = 1
  /\ StartsWith("activate")

ActivateCommits ==
  /\ setup # None /\ setup.next = "activate"
  /\ recruiter' = [recruiter EXCEPT !.active = TRUE]
  /\ setup' = None
  /\ UNCHANGED <<listed, calendar, discovery, scan>>

(* A probe fails, an index refuses the commit (also the order in which a   *)
(* change of the default is flushed), or the operator stops.               *)
SetupFails ==
  /\ setup # None /\ discovery["setup"] = None
  /\ setup' = None
  /\ UNCHANGED <<listed, calendar, recruiter, discovery, scan>>
-----------------------------------------------------------------------------
(* The calendars of a scan.                                                *)

ScanStarts ==
  /\ scan = "idle" /\ recruiter # None /\ recruiter.active
  /\ scan' = "refresh"
  /\ UNCHANGED <<listed, calendar, recruiter, discovery, setup>>

(* _calendar_snapshot, for the recordings of the scan.                     *)
SnapshotComplete ==
  /\ Listable # {}
  /\ IF Selected # {} THEN Selected \subseteq Listable
     ELSE Cardinality(Defaults) = 1 /\ Defaults \subseteq Listable

FindEvents ==
  /\ scan = "snapshot"
  /\ scan' = IF SnapshotComplete THEN "complete" ELSE "idle"
  /\ UNCHANGED <<listed, calendar, recruiter, discovery, setup>>

ScanFinishes ==
  /\ scan = "complete" \/ (scan = "refresh" /\ discovery["scan"] = None)
  /\ scan' = "idle"
  /\ UNCHANGED <<listed, calendar, recruiter, discovery, setup>>
-----------------------------------------------------------------------------
CalendarNext ==
  \/ CaldavChanges
  \/ \E d \in Clients :
       FetchCalendars(d) \/ LoadCalendars(d) \/ CommitDiscovery(d) \/ DiscoveryFailed(d)
  \/ \E chosen \in SUBSET Calendars : ReplaceSelection(chosen)
  \/ \E c \in Calendars : SetDefault(c) \/ PreflightChooses(c)
  \/ Configure \/ StartPreflight \/ PreflightCommits \/ PreflightVerifies
  \/ StartActivate \/ ActivateCommits \/ SetupFails
  \/ ScanStarts \/ FindEvents \/ ScanFinishes

(* Scans are scheduled again and again; CalDAV and the database, asked     *)
(* again and again, answer at last.                                        *)
CalendarFairness ==
  /\ WF_calendarVars(ScanStarts) /\ WF_calendarVars(FindEvents) /\ WF_calendarVars(ScanFinishes)
  /\ WF_calendarVars(DiscoveryFailed("scan"))
  /\ SF_calendarVars(FetchCalendars("scan"))
  /\ SF_calendarVars(LoadCalendars("scan"))
  /\ SF_calendarVars(CommitDiscovery("scan"))

CalendarSpec == CalendarInit /\ [][CalendarNext]_calendarVars /\ CalendarFairness
-----------------------------------------------------------------------------
(* Properties.                                                             *)

(* An active recruiter has exactly one default calendar, however the       *)
(* operator's commands, the endpoints, scans and legacy URLs overlap: the  *)
(* check of activate_recruiter (configure_recruiter.py:316-326) stays true *)
(* although nothing is locked.                                             *)
ActiveHasDefault ==
  recruiter # None /\ recruiter.active => Cardinality(Defaults) = 1

(* When CalDAV lists the calendars the recruiter chose, and neither        *)
(* changes, scans get their snapshot again and again, also after one of    *)
(* these calendars had been missing.                                       *)
ScanRecovers ==
  (/\ <>[](recruiter # None /\ recruiter.active /\ Effective # {} /\ Effective \subseteq listed)
   /\ <>[][listed' = listed /\ Effective' = Effective]_calendarVars)
    => []<>(scan = "complete")
=============================================================================
