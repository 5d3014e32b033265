---------------------------- MODULE WorkCalendar ----------------------------
(***************************************************************************)
(* Timesheet entries and leave requests of one employee                    *)
(* (src/timesheets).                                                       *)
(*                                                                         *)
(* Creating or editing a booking runs in one READ COMMITTED transaction:   *)
(* an edit reads the row, then a lock is taken for every day of the        *)
(* booking in date order, the bookings of those days are read, and the row *)
(* is written by its id.  Submitting, cancelling and deciding are single   *)
(* conditional writes that take no lock and look at no other booking.      *)
(*                                                                         *)
(* PENDING, the word leave has for SUBMITTED, is written SUBMITTED.        *)
(***************************************************************************)
EXTENDS Integers

CONSTANTS Bookings,   \* rows of TimesheetEntry and of LeaveRequest
          NoBooking,
          Clerks,     \* requests in flight
          LastDay     \* bound: the calendar has the days 1 to LastDay

ASSUME WorkCalendarAssumption == LastDay \in Nat \ {0} /\ NoBooking \notin Bookings

VARIABLES sort,     \* "work" or "leave", for each booking
          booking,  \* the row: its status and what it covers
          clerk     \* the transactions that create or edit one

calendarVars == <<sort, booking, clerk>>

Days     == 1..LastDay
Editable == {"DRAFT", "REJECTED"}
BookingStatuses == {"DRAFT", "SUBMITTED", "APPROVED", "REJECTED", "CANCELLED"}

(***************************************************************************)
(* A booking covers the days from first to last and, when it has minutes,  *)
(* some halves of them: day d has the halves 2d and 2d+1.  Work without    *)
(* minutes and leave for whole or half days have no halves of their own.   *)
(* The halves that matter are those next to a midnight: work that spans    *)
(* midnight is the evening of a day and the morning of the next.           *)
(***************************************************************************)
Extent(a, b, halves) == [first |-> a, last |-> b, halves |-> halves]

WholeDays == {Extent(d, d, {}) : d \in Days}
Evenings  == {Extent(d, d, {2*d + 1}) : d \in 1..(LastDay - 1)}
Mornings  == {Extent(d, d, {2*d}) : d \in 2..LastDay}
Nights    == {Extent(d, d + 1, {2*d + 1, 2*d + 2}) : d \in 1..(LastDay - 1)}
LongDays  == {Extent(d[1], d[2], {}) : d \in {x \in Days \X Days : x[1] < x[2]}}

Extents(k) ==
  WholeDays \cup Evenings \cup Mornings \cup IF k = "work" THEN Nights ELSE LongDays

AnyExtent == Extents("work") \cup Extents("leave")
NoExtent  == Extent(1, 1, {})

IdleClerk == [step |-> "idle", target |-> NoBooking, seen |-> "NONE",
              want |-> NoExtent, held |-> {}, moved |-> FALSE, stale |-> FALSE]

BookingRows == [status : BookingStatuses \cup {"NONE"}, covers : AnyExtent]
ClerkRows == [step : {"idle", "locking", "checked"}, target : Bookings \cup {NoBooking},
              seen : {"NONE"} \cup Editable, want : AnyExtent, held : SUBSET Days,
              moved : BOOLEAN, stale : BOOLEAN]

CalendarTypeOK ==
  /\ sort \in [Bookings -> {"work", "leave"}]
  /\ booking \in [Bookings -> BookingRows]
  /\ clerk \in [Clerks -> ClerkRows]
  /\ \A c \in Clerks : clerk[c].step # "idle" => clerk[c].target \in Bookings

CalendarInit ==
  /\ sort \in [Bookings -> {"work", "leave"}]
  /\ booking = [b \in Bookings |-> [status |-> "NONE", covers |-> NoExtent]]
  /\ clerk = [c \in Clerks |-> IdleClerk]

-----------------------------------------------------------------------------
(* Conflicts (timesheet-conflict.service.ts)                               *)

Meets(x, y)  == x.first <= y.last /\ y.first <= x.last
Crosses(x, y) == x.halves \cap y.halves # {}
Vague(x, y)  == x.halves = {} \/ y.halves = {}

\* Mutant: the eve is forgotten.
NearWorkWithoutEve(b, x) ==
  /\ sort[b] = "work" /\ booking[b].status \notin {"NONE", "CANCELLED"}
  /\ booking[b].covers.first \in x.first..x.last

\* The rows a check of work reads: work that begins on a day of the
\* candidate or on the eve, and is not cancelled.
NearWork(b, x) ==
  /\ sort[b] = "work" /\ booking[b].status \notin {"NONE", "CANCELLED"}
  /\ booking[b].covers.first \in (x.first - 1)..x.last

\* Leave that is asked for or granted and has a day of the candidate.
StandingLeave(b, x) ==
  /\ sort[b] = "leave" /\ booking[b].status \in {"SUBMITTED", "APPROVED"}
  /\ Meets(booking[b].covers, x)

\* assertWorkAllowed.  Leave for whole days stands against any work.
WorkConflict(x, b) ==
  LET y == booking[b].covers IN
  \/ NearWork(b, x) /\ Crosses(x, y)
  \/ StandingLeave(b, x) /\ (Vague(x, y) \/ Crosses(x, y))

\* assertLeaveAllowed.  Work of the eve stands against leave for whole days
\* whether it spans midnight or not, and against any leave when it has no
\* minutes.
LeaveConflict(x, b) ==
  LET y == booking[b].covers IN
  (NearWork(b, x) \/ StandingLeave(b, x)) /\ (Vague(x, y) \/ Crosses(x, y))

Conflict(k, x, b) == IF k = "work" THEN WorkConflict(x, b) ELSE LeaveConflict(x, b)

Conflicts(c) ==
  {b \in Bookings \ {clerk[c].target} : Conflict(sort[clerk[c].target], clerk[c].want, b)}

-----------------------------------------------------------------------------
(* Create and update                                                       *)

Begin(c, b, x) ==
  clerk' = [clerk EXCEPT ![c] =
    [step |-> "locking", target |-> b, seen |-> booking[b].status, want |-> x,
     held |-> {}, moved |-> FALSE, stale |-> FALSE]]

BeginCreate(c) ==
  /\ clerk[c].step = "idle"
  /\ \E b \in Bookings : \E x \in Extents(sort[b]) :
       /\ booking[b].status = "NONE"
       /\ \A o \in Clerks : clerk[o].step # "idle" => clerk[o].target # b
       /\ Begin(c, b, x)
  /\ UNCHANGED <<sort, booking>>

\* update: "Only draft or rejected entries may be edited"
MayEdit(status) == status \in Editable

BeginUpdate(c) ==
  /\ clerk[c].step = "idle"
  /\ \E b \in Bookings : \E x \in Extents(sort[b]) :
       MayEdit(booking[b].status) /\ Begin(c, b, x)
  /\ UNCHANGED <<sort, booking>>

Missing(c) == (clerk[c].want.first .. clerk[c].want.last) \ clerk[c].held

\* lockDates: the days in date order
NextDay(c) == CHOOSE d \in Missing(c) : \A o \in Missing(c) : d <= o

CanLock(c) ==
  /\ clerk[c].step = "locking" /\ Missing(c) # {}
  /\ \A o \in Clerks \ {c} : NextDay(c) \notin clerk[o].held

LockDay(c) ==
  /\ CanLock(c)
  /\ clerk' = [clerk EXCEPT ![c].held = @ \cup {NextDay(c)}]
  /\ UNCHANGED <<sort, booking>>

\* The bookings of the days are read under the locks.
CheckConflicts(c) ==
  /\ clerk[c].step = "locking" /\ Missing(c) = {} /\ Conflicts(c) = {}
  /\ clerk' = [clerk EXCEPT ![c].step = "checked"]
  /\ UNCHANGED <<sort, booking>>

\* A new row and an edited REJECTED one are DRAFT, whatever the status became.
StatusWritten(c) ==
  IF clerk[c].seen = "DRAFT" THEN booking[clerk[c].target].status ELSE "DRAFT"

WriteBooking(c) ==
  /\ clerk[c].step = "checked"
  /\ booking' = [booking EXCEPT ![clerk[c].target] =
                   [status |-> StatusWritten(c), covers |-> clerk[c].want]]
  /\ clerk' = [o \in Clerks |->
       IF o = c THEN IdleClerk
       ELSE [clerk[o] EXCEPT
               !.moved = @ \/ (/\ clerk[o].target = clerk[c].target
                              /\ StatusWritten(c) # booking[clerk[c].target].status)]]
  /\ UNCHANGED sort

\* A refusal, an error or a crash rolls back and frees the locks.
RollBack(c) ==
  /\ clerk[c].step # "idle"
  /\ clerk' = [clerk EXCEPT ![c] = IdleClerk]
  /\ UNCHANGED <<sort, booking>>

-----------------------------------------------------------------------------
(* Submit, cancel and decide                                               *)

\* A clerk is stale when leave is asked for after it looked.
Move(b, from, to) ==
  /\ booking[b].status \in from
  /\ booking' = [booking EXCEPT ![b].status = to]
  /\ clerk' = [c \in Clerks |->
       [clerk[c] EXCEPT
          !.moved = @ \/ clerk[c].target = b,
          !.stale = @ \/ (/\ clerk[c].step = "checked" /\ clerk[c].target # b
                         /\ sort[b] = "leave" /\ to = "SUBMITTED")]]
  /\ UNCHANGED sort

\* submit: the statuses it starts from
Submittable == Editable

SubmitBooking(b) == Move(b, Submittable, "SUBMITTED")

\* Mutant: what waits for a decision can be cancelled as well.
CancelBookingSubmitted(b) == Move(b, Editable \cup {"SUBMITTED"}, "CANCELLED")

CancelBooking(b) == Move(b, Editable, "CANCELLED")
ApproveBooking(b) == Move(b, {"SUBMITTED"}, "APPROVED")
RejectBooking(b)  == Move(b, {"SUBMITTED"}, "REJECTED")

CalendarNext ==
  \/ \E c \in Clerks : \/ BeginCreate(c) \/ BeginUpdate(c) \/ LockDay(c)
                       \/ CheckConflicts(c) \/ WriteBooking(c) \/ RollBack(c)
  \/ \E b \in Bookings : \/ SubmitBooking(b) \/ CancelBooking(b)
                         \/ ApproveBooking(b) \/ RejectBooking(b)

CalendarSpec == CalendarInit /\ [][CalendarNext]_calendarVars

-----------------------------------------------------------------------------
(* Properties                                                              *)

Counts(b) == booking[b].status \in IF sort[b] = "leave" THEN {"SUBMITTED", "APPROVED"}
                                   ELSE BookingStatuses \ {"CANCELLED"}

\* Bookings that cannot both be: work and work at the same half day, leave
\* and anything on the same time, the whole day when one has no minutes.
WouldClash(k, x, l, y) ==
  IF k = "work" /\ l = "work" THEN Crosses(x, y)
  ELSE Meets(x, y) /\ (Vague(x, y) \/ Crosses(x, y))

Clash(a, b) ==
  /\ a # b /\ Counts(a) /\ Counts(b)
  /\ WouldClash(sort[a], booking[a].covers, sort[b], booking[b].covers)

\* No two timesheet entries that are not cancelled cover the same time,
\* however creations and edits overlap and across midnight
\* (OVERLAPPING_TIMESHEET, timesheet-conflict.service.ts:84).
WorkDisjoint ==
  \A a, b \in Bookings : sort[a] = "work" /\ sort[b] = "work" => ~Clash(a, b)

\* A clash with leave begins only when leave is submitted, which looks at
\* nothing, or by a booking checked before leave was submitted.
ClashesBySubmission ==
  [][\A a, b \in Bookings :
       Clash(a, b)' /\ ~Clash(a, b) =>
         \/ \E l \in {a, b} : /\ sort[l] = "leave" /\ booking[l].status \in Editable
                              /\ booking'[l].status = "SUBMITTED"
         \/ \E c \in Clerks : /\ clerk[c].step = "checked" /\ clerk'[c].step = "idle"
                              /\ clerk[c].target \in {a, b} /\ clerk[c].stale]_calendarVars

\* What was submitted, approved or cancelled is edited, and what was decided
\* reopened, only by an edit that read the row before its status changed
\* (timesheet.service.ts:180, leave-request.service.ts:157 write by id).
EditedOnlyByOverlap ==
  [][\A b \in Bookings :
       \/ booking'[b] = booking[b]
       \/ booking[b].status \in {"NONE"} \cup Editable
       \/ booking[b].status = "SUBMITTED" /\ booking'[b].covers = booking[b].covers
            /\ booking'[b].status \in {"APPROVED", "REJECTED"}
       \/ \E c \in Clerks : /\ clerk[c].step = "checked" /\ clerk'[c].step = "idle"
                            /\ clerk[c].target = b /\ clerk[c].moved]_calendarVars

\* What a step of the calendar may bring about
CalendarSteps == ClashesBySubmission /\ EditedOnlyByOverlap

\* Transactions that wait for a day never wait for each other in a circle:
\* one of those that hold a lock can go on (lockDates sorts the days).
LocksGranted ==
  (\E c \in Clerks : clerk[c].step = "locking")
    => \E c \in Clerks : \/ CanLock(c)
                         \/ clerk[c].step # "idle" /\ Missing(c) = {}

\* A booking is refused for one that it would clash with, or leave for the
\* work of the eve (timesheet-conflict.service.ts:149 reads it for leave
\* as it does for work).
RefusalsExplained ==
  \A c \in Clerks :
    clerk[c].step = "locking" /\ Missing(c) = {} =>
      \A b \in Conflicts(c) :
        /\ Counts(b)
        /\ \/ WouldClash(sort[clerk[c].target], clerk[c].want, sort[b], booking[b].covers)
           \/ /\ sort[clerk[c].target] = "leave" /\ sort[b] = "work"
              /\ booking[b].covers.last = clerk[c].want.first - 1

\* The calendar in every state: work never overlaps, the day locks are granted in
\* time, and every refusal has its reason.
CalendarInv ==
  /\ CalendarTypeOK
  /\ WorkDisjoint
  /\ LocksGranted
  /\ RefusalsExplained
=============================================================================
