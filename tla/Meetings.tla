------------------------------- MODULE Meetings -------------------------------
(***************************************************************************)
(* Meetings and their reminders (src/meetings/meetings.service.ts and      *)
(* meeting-reminder.service.ts).                                           *)
(*                                                                         *)
(* update, complete and cancel judge the row they read and write by id;    *)
(* the reminder job reads what is due and writes it, by id too, in one     *)
(* transaction under an advisory lock that edits do not take.  The end of  *)
(* a meeting, against which the start is judged alike, is left out.        *)
(***************************************************************************)
EXTENDS Naturals

CONSTANTS Meetings, Organizers, NoMeeting,
          LastTime,    \* bound of the clock
          MaxSettings  \* bound of the times a reminder is set

ASSUME MeetingsAssumption ==
  NoMeeting \notin Meetings /\ LastTime \in Nat /\ MaxSettings \in Nat

VARIABLES meeting,    \* Meeting
          organizer,  \* the calls of update, complete and cancel
          reminders,  \* processDueReminders; the advisory lock admits one
          clock,
          setting,    \* history: how often the reminder of a meeting was set
          told,       \* history: notifications of each setting
          moved,      \* history: the reminder was set while the job had read it
          crossed     \* history: a call wrote a row changed since it was read

meetingVars == <<meeting, organizer, reminders, clock, setting, told, moved, crossed>>

Times == 0..LastTime
NoTime == LastTime + 1  \* of a reminder that is not set, and never due
Settings == 0..MaxSettings

MeetingRows == [status : {"NONE", "SCHEDULED", "COMPLETED", "CANCELLED"},
                start : Times, reminder : Times \cup {NoTime},
                sent : BOOLEAN,                            \* reminderSentAt
                completedAt : BOOLEAN, cancelledAt : BOOLEAN]
NoMeetingRow == [status |-> "NONE", start |-> 0, reminder |-> NoTime, sent |-> FALSE,
                 completedAt |-> FALSE, cancelledAt |-> FALSE]
\* An update gives one of the two here: given both, it is judged by them alone.
Changes == [start : Times] \cup [reminder : Times \cup {NoTime}]
NoChange == [start |-> 0]
IdleOrganizer == [op |-> "none", at |-> NoMeeting, change |-> NoChange, fresh |-> FALSE]
NoJob == [running |-> FALSE, due |-> {}, seen |-> [m \in Meetings |-> 0]]

MeetingsTypeOK ==
  /\ meeting \in [Meetings -> MeetingRows]
  /\ organizer \in [Organizers -> [op : {"none", "update", "complete", "cancel"},
                                   at : Meetings \cup {NoMeeting}, change : Changes,
                                   fresh : BOOLEAN]]
  /\ reminders \in [running : BOOLEAN, due : SUBSET Meetings, seen : [Meetings -> Settings]]
  /\ clock \in Times
  /\ setting \in [Meetings -> Settings] /\ told \in [Meetings -> [Settings -> Nat]]
  /\ moved \subseteq Meetings /\ crossed \subseteq Meetings

MeetingsInit ==
  /\ meeting = [m \in Meetings |-> NoMeetingRow]
  /\ organizer = [o \in Organizers |-> IdleOrganizer]
  /\ reminders = NoJob /\ clock = 0
  /\ setting = [m \in Meetings |-> 0]
  /\ told = [m \in Meetings |-> [s \in Settings |-> 0]]
  /\ moved = {} /\ crossed = {}

-----------------------------------------------------------------------------
(* Meetings                                                                *)

\* validate
Acceptable(start, reminder) ==
  reminder # NoTime => reminder < start /\ ~(start > clock /\ reminder < clock)

CreateMeeting(m) ==
  /\ meeting[m].status = "NONE"
  /\ \E start \in Times, reminder \in Times \cup {NoTime} :
       /\ Acceptable(start, reminder)
       /\ meeting' = [meeting EXCEPT ![m] = [NoMeetingRow EXCEPT !.status = "SCHEDULED",
                                               !.start = start, !.reminder = reminder]]
  /\ UNCHANGED <<organizer, reminders, clock, setting, told, moved, crossed>>

Sets(change, field) == field \in DOMAIN change
Given(row, change, field) == IF Sets(change, field) THEN change[field] ELSE row[field]

\* update, complete and cancel of a meeting that is scheduled as it is read;
\* an update is judged with the fields not given as they are read.
CallFor(o, op, m, change) ==
  /\ organizer[o] = IdleOrganizer
  /\ meeting[m].status = "SCHEDULED"
  /\ organizer' = [organizer EXCEPT ![o] = [op |-> op, at |-> m, change |-> change,
                                            fresh |-> TRUE]]
  /\ UNCHANGED <<meeting, reminders, clock, setting, told, moved, crossed>>

BeginUpdate(o) ==
  \E m \in Meetings, change \in Changes :
    /\ Acceptable(Given(meeting[m], change, "start"), Given(meeting[m], change, "reminder"))
    /\ CallFor(o, "update", m, change)

BeginClose(o) ==
  \E m \in Meetings, op \in {"complete", "cancel"} : CallFor(o, op, m, NoChange)

\* Mutant: a new reminder does not reset reminderSentAt.
EditedStillSent(row, change) ==
  [row EXCEPT !.start = Given(row, change, "start"),
              !.reminder = Given(row, change, "reminder")]

\* The fields given, over the row as it is by now
Edited(row, change) ==
  [row EXCEPT !.start = Given(row, change, "start"),
              !.reminder = Given(row, change, "reminder"),
              !.sent = @ /\ ~Sets(change, "reminder")]

Closed(row, op) ==
  IF op = "complete" THEN [row EXCEPT !.status = "COMPLETED", !.completedAt = TRUE]
  ELSE [row EXCEPT !.status = "CANCELLED", !.cancelledAt = TRUE]

\* The row is written, and other calls that read it go on with what they read.
WriteMeeting(o, row) ==
  LET m == organizer[o].at IN
  /\ meeting' = [meeting EXCEPT ![m] = row]
  /\ crossed' = IF organizer[o].fresh THEN crossed ELSE crossed \cup {m}
  /\ organizer' = [e \in Organizers |->
       IF e = o THEN IdleOrganizer
       ELSE [organizer[e] EXCEPT !.fresh = @ /\ organizer[e].at # m]]
  /\ UNCHANGED <<reminders, clock, told>>

CommitMeetingUpdate(o) ==
  LET m == organizer[o].at
      resets == Sets(organizer[o].change, "reminder") IN
  /\ organizer[o].op = "update"
  /\ resets => setting[m] < MaxSettings
  /\ WriteMeeting(o, Edited(meeting[m], organizer[o].change))
  /\ setting' = IF resets THEN [setting EXCEPT ![m] = @ + 1] ELSE setting
  /\ moved' = IF resets THEN moved \ {m} ELSE moved

CommitClose(o) ==
  /\ organizer[o].op \in {"complete", "cancel"}
  /\ WriteMeeting(o, Closed(meeting[organizer[o].at], organizer[o].op))
  /\ UNCHANGED <<setting, moved>>

DropMeetingCall(o) ==
  /\ organizer[o].op # "none"
  /\ organizer' = [organizer EXCEPT ![o] = IdleOrganizer]
  /\ UNCHANGED <<meeting, reminders, clock, setting, told, moved, crossed>>

-----------------------------------------------------------------------------
(* Reminders                                                               *)

Due(m) == meeting[m].status = "SCHEDULED" /\ meeting[m].reminder <= clock /\ ~meeting[m].sent

ReadDue ==
  /\ ~reminders.running
  /\ reminders' = [running |-> TRUE, due |-> {m \in Meetings : Due(m)}, seen |-> setting]
  /\ UNCHANGED <<meeting, organizer, clock, setting, told, moved, crossed>>

\* The notifications of what was read, and reminderSentAt of each by its id
CommitReminders ==
  LET due == reminders.due IN
  /\ reminders.running
  /\ told' = [m \in Meetings |-> IF m \in due
                                 THEN [told[m] EXCEPT ![reminders.seen[m]] = @ + 1]
                                 ELSE told[m]]
  /\ meeting' = [m \in Meetings |-> IF m \in due THEN [meeting[m] EXCEPT !.sent = TRUE]
                                    ELSE meeting[m]]
  /\ moved' = moved \cup {m \in due : setting[m] # reminders.seen[m]}
  /\ reminders' = NoJob
  /\ UNCHANGED <<organizer, clock, setting, crossed>>

\* An error, the time limit of the transaction, or the end of the process
AbortReminders ==
  /\ reminders.running /\ reminders' = NoJob
  /\ UNCHANGED <<meeting, organizer, clock, setting, told, moved, crossed>>

ClockTicks ==
  /\ clock < LastTime /\ clock' = clock + 1
  /\ UNCHANGED <<meeting, organizer, reminders, setting, told, moved, crossed>>

MeetingsNext ==
  \/ \E m \in Meetings : CreateMeeting(m)
  \/ \E o \in Organizers : \/ BeginUpdate(o) \/ BeginClose(o) \/ CommitMeetingUpdate(o)
                           \/ CommitClose(o) \/ DropMeetingCall(o)
  \/ ReadDue \/ CommitReminders \/ AbortReminders
  \/ ClockTicks

MeetingsSpec == MeetingsInit /\ [][MeetingsNext]_meetingVars

-----------------------------------------------------------------------------
(* Properties                                                              *)

\* A reminder is told once each time it is set, however jobs abort and edits
\* overlap them ("atomic notification plus reminderSentAt persistence",
\* README.md:1945).
RemindedOnce == \A m \in Meetings, s \in Settings : told[m][s] <= 1

\* A reminder marked as sent was told, unless it was set anew while the job
\* that marked it was under way (meeting-reminder.service.ts:32, :77).
MarkedWasTold ==
  \A m \in Meetings : meeting[m].sent => told[m][setting[m]] = 1 \/ m \in moved

\* A meeting begins after its reminder and is closed one way, once, unless a
\* call wrote a row that had changed since the call judged it.
RowsHold ==
  \A m \in Meetings \ crossed :
    /\ meeting[m].reminder # NoTime => meeting[m].reminder < meeting[m].start
    /\ meeting[m].completedAt <=> meeting[m].status = "COMPLETED"
    /\ meeting[m].cancelledAt <=> meeting[m].status = "CANCELLED"

MeetingsInv == MeetingsTypeOK /\ RemindedOnce /\ MarkedWasTold /\ RowsHold
=============================================================================
