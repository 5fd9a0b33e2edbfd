------------------------------ MODULE Handlers ------------------------------
(***************************************************************************)
(* The requests the HTTP handlers accept, and what each handler checks     *)
(* before it calls the store.  BadID stands for a body that does not       *)
(* decode and for an identifier or a date that does not parse: all of them *)
(* answer 400.                                                             *)
(***************************************************************************)
EXTENDS Schema

CONSTANTS BadID

Window == [StartAt : Nat, EndAt : Nat]

CreateUserRequest == [op : {"CreateUser"}, goodName : BOOLEAN]

CreateTimeslotRequest ==
    [op : {"CreateTimeslot"}, UserID : Users \cup {BadID},
     Availability : Seq(Window), DurationMins : Int]

UpdateTimeslotRequest ==
    [op : {"UpdateTimeslot"}, TimeslotID : Slots \cup {BadID},
     StartAt : Nat, EndAt : Nat, DurationMins : Int]

DeleteTimeslotRequest ==
    [op : {"DeleteTimeslot"}, TimeslotID : Slots \cup {BadID}]

CreateMeetingRequest ==
    [op : {"CreateMeeting"}, TimeslotID : Slots \cup {BadID},
     titled : BOOLEAN, Attendees : Seq(Emails)]

\* Now is not the client's: it is what the handler reads from the clock, before
\* it waits for a connection.
GetAllottedRequest ==
    [op : {"GetAllotted"}, UserID : Users \cup {BadID},
     DateStart : Nat, DateEnd : Nat, Now : Nat]

GetCalendarRequest == [op : {"GetCalendar"}, UserID : Users \cup {BadID}]

Request == CreateUserRequest \cup CreateTimeslotRequest \cup UpdateTimeslotRequest
             \cup DeleteTimeslotRequest \cup CreateMeetingRequest
             \cup GetAllottedRequest \cup GetCalendarRequest

\* maxDurationMins is not asked about.
DurationInRange_NoMax(mins) == mins >= minDurationMins

DurationInRange(mins) == mins >= minDurationMins /\ mins <= maxDurationMins

\* onboarding.CreateUser: longer than three bytes and of the permitted shape.
ValidCreateUser(q) == q.op = "CreateUser" /\ q.goodName

ValidCreateTimeslot(q) ==
    /\ q.op = "CreateTimeslot"
    /\ q.UserID # BadID
    /\ DurationInRange(q.DurationMins)
    /\ q.Availability # << >>
    /\ \A i \in DOMAIN q.Availability :
           q.Availability[i].EndAt > q.Availability[i].StartAt

ValidUpdateTimeslot(q) ==
    /\ q.op = "UpdateTimeslot"
    /\ q.TimeslotID # BadID
    /\ q.EndAt > q.StartAt
    /\ DurationInRange(q.DurationMins)

ValidDeleteTimeslot(q) == q.op = "DeleteTimeslot" /\ q.TimeslotID # BadID

ValidCreateMeeting(q) ==
    q.op = "CreateMeeting" /\ q.TimeslotID # BadID /\ q.titled

\* Nothing asks that the window ends after it starts.
ValidGetAllotted(q) == q.op = "GetAllotted" /\ q.UserID # BadID

ValidGetCalendar(q) == q.op = "GetCalendar" /\ q.UserID # BadID

Valid(q) ==
    \/ ValidCreateUser(q)
    \/ ValidCreateTimeslot(q)
    \/ ValidUpdateTimeslot(q)
    \/ ValidDeleteTimeslot(q)
    \/ ValidCreateMeeting(q)
    \/ ValidGetAllotted(q)
    \/ ValidGetCalendar(q)

-----------------------------------------------------------------------------
(* Slicing a window, as CreateAvailability's inner loop does.              *)

slot(q) == q.DurationMins * Minute

\* start of the k-th slice of window i: StartAt advanced k - 1 times by slot.
SliceStart(q, i, k) == q.Availability[i].StartAt + (k - 1) * slot(q)

\* The loop's condition: !start.Add(slot).After(w.EndAt).
SliceFits(q, i, k) == SliceStart(q, i, k) + slot(q) <= q.Availability[i].EndAt

SliceRow(q, i, k) ==
    TimeslotRow(q.UserID, SliceStart(q, i, k), SliceStart(q, i, k) + slot(q),
                q.DurationMins)

ASSUME HandlersAssumption == BadID \notin Slots /\ BadID \notin Users
=============================================================================
