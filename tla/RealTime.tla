------------------------------ MODULE RealTime ------------------------------
(***************************************************************************)
(* What one client may rely on when it has seen the answer of another: the *)
(* store with a history variable.  A request is called in the step that    *)
(* runs its handler's checks and answered when it has a status, and calls  *)
(* come after the answers that were out by then.                           *)
(***************************************************************************)
EXTENDS Store

VARIABLES before  \* [Requests -> the requests answered when it was called]

rtvars == <<vars, before>>

RTInit == Init /\ before = [r \in Requests |-> {}]

Called(r) == pc[r] = "idle" /\ pc'[r] # "idle"

Answered == {o \in Requests : status[o] # 0}

RTNext ==
    /\ Next
    /\ before' = [r \in Requests |-> IF Called(r) THEN Answered ELSE before[r]]

RTSpec == RTInit /\ [][RTNext]_rtvars

-----------------------------------------------------------------------------
(* Properties.                                                             *)

Booking(m) == req[m].op = "CreateMeeting"

People(m) == {req[m].Attendees[j] : j \in DOMAIN req[m].Attendees}

\* r has listed one of the two kinds, and has been answered.
HasListed(r, op) == req[r].op = op /\ status[r] = 200

\* What has been answered is seen.  A calendar asked for after a booking was
\* answered 201 has the meeting, with all of its attendees, unless the timeslot
\* has been deleted under it; and a list of timeslots never shows the timeslot
\* as free (both GET handlers against BookMeeting's transaction).
BookingsAreSeen ==
    \A r \in Requests : \A m \in before[r] :
        Booking(m) /\ status[m] = 201 =>
            LET s == req[m].TimeslotID IN
            /\ HasListed(r, "GetCalendar") /\ Exists(s)
                 /\ timeslots[s].user_id = req[r].UserID =>
                   \E x \in rows[r] : x.meeting_id = m /\ x.attendees = People(m)
            /\ HasListed(r, "GetAllotted") =>
                   \A x \in rows[r] : x.timeslot_id = s => x.is_booked

\* A list of timeslots asked for after an offer was answered 201 has every slice
\* of it that starts in the window asked for, unless somebody deletes or moves
\* it (GET /timeslots/allotted against CreateAvailability's transaction).
OffersAreSeen ==
    \A r \in Requests : \A c \in before[r] : \A s \in NewSlots :
        /\ HasListed(r, "GetAllotted")
        /\ req[c].op = "CreateTimeslot" /\ status[c] = 201 /\ s[1] = c
        /\ Exists(s) /\ \A o \in Requests : ~On(o, "UpdateTimeslot", s)
        /\ timeslots[s].user_id = req[r].UserID
        /\ timeslots[s].start_at >= PgTime(req[r].DateStart)
        /\ timeslots[s].start_at < PgTime(req[r].DateEnd)
        /\ timeslots[s].start_at >= PgTime(req[r].Now)
        => \E x \in rows[r] : x.timeslot_id = s

\* Readers do not go back: what an earlier listing has shown booked, a later one
\* does not show free, and a meeting of an earlier calendar is on a later one of
\* the same user, unless its timeslot has been deleted.  In particular nothing is
\* shown that is rolled back afterwards.
ReadersNeverGoBack ==
    \A r \in Requests : \A o \in before[r] :
        /\ HasListed(o, "GetAllotted") /\ HasListed(r, "GetAllotted") =>
               \A x \in rows[o], y \in rows[r] :
                   x.timeslot_id = y.timeslot_id /\ x.is_booked => y.is_booked
        /\ HasListed(o, "GetCalendar") /\ HasListed(r, "GetCalendar")
             /\ req[o].UserID = req[r].UserID =>
               \A x \in rows[o] :
                   \/ \E y \in rows[r] : /\ y.meeting_id = x.meeting_id
                                         /\ y.attendees = x.attendees
                   \/ ~Exists(req[x.meeting_id].TimeslotID)

\* README, PATCH and DELETE /timeslots/{id}: "Cant be done if there's a meeting
\* booked at the time".  It is so for calls that do not overlap: none that comes
\* after the 201 of a booking is answered 204 on its timeslot, and no booking that
\* comes after the 204 of a deletion is answered 201.
LateCallsAreRefused ==
    \A r \in Requests : \A o \in before[r] :
        /\ Booking(o) /\ status[o] = 201 /\ status[r] = 204 =>
               ~On(r, "UpdateTimeslot", req[o].TimeslotID)
                 /\ ~On(r, "DeleteTimeslot", req[o].TimeslotID)
        /\ Booking(r) /\ status[r] = 201 /\ status[o] = 204 =>
               ~On(o, "DeleteTimeslot", req[r].TimeslotID)
=============================================================================
