--------------------------- MODULE RealTimeProofs ---------------------------
(***************************************************************************)
(* What is true between one client's answer and another's call, for any    *)
(* number of requests: on top of the invariant of StoreProofs, what every  *)
(* answer given so far promises to all who call later.                     *)
(***************************************************************************)
EXTENDS RealTime, StoreProofs

-----------------------------------------------------------------------------
(* The inductive invariant.                                                *)

\* r has run its query, of this kind, and it may still fail or not.
Reading(r, op) == req[r].op = op /\ (pc[r] = "read" \/ status[r] = 200)

\* before names requests that have been answered.
Early ==
    /\ before \in [Requests -> SUBSET Requests]
    /\ \A r \in Requests : pc[r] = "idle" => before[r] = {}
    /\ \A r \in Requests : \A o \in before[r] : status[o] # 0

\* What a calendar shows is on a timeslot of its user, or gone for good with it,
\* and what a list shows booked is booked, or gone for good.
Promised ==
    \A r \in Requests : \A x \in rows[r] :
        /\ Reading(r, "GetCalendar") =>
              \E m \in Requests, s \in Slots :
                 /\ x.meeting_id = m /\ s = req[m].TimeslotID
                 /\ x.attendees = People(m)
                 /\ meetings[m] = s \/ Dead(s)
                 /\ Exists(s) => timeslots[s].user_id = req[r].UserID
        /\ Reading(r, "GetAllotted") /\ x.is_booked =>
              x.timeslot_id \in Slots /\ (Booked(x.timeslot_id) \/ Dead(x.timeslot_id))

\* A deletion answered 204 has left nothing for good.
Removed ==
    \A o \in Requests : req[o].op = "DeleteTimeslot" /\ status[o] = 204 =>
        req[o].TimeslotID \in Slots /\ Dead(req[o].TimeslotID)

\* An update or deletion called after a booking's 201 never finds its row, and a
\* booking called after a deletion's 204 never ends well.
Late ==
    \A r \in Requests : \A o \in before[r] :
        /\ Booking(o) /\ status[o] = 201
             /\ req[r].op \in {"UpdateTimeslot", "DeleteTimeslot"}
             /\ req[o].TimeslotID = req[r].TimeslotID =>
               pc[r] \notin {"write", "commit"} /\ status[r] # 204
        /\ Booking(r) /\ req[o].op = "DeleteTimeslot" /\ status[o] = 204
             /\ req[o].TimeslotID = req[r].TimeslotID => status[r] # 201

\* The three properties of listings, from the query on.
SeenBookings ==
    \A r \in Requests : \A m \in before[r] :
        Booking(m) /\ status[m] = 201 =>
            LET s == req[m].TimeslotID IN
            /\ Reading(r, "GetCalendar") /\ Exists(s)
                 /\ timeslots[s].user_id = req[r].UserID =>
                   \E x \in rows[r] : x.meeting_id = m /\ x.attendees = People(m)
            /\ Reading(r, "GetAllotted") =>
                   \A x \in rows[r] : x.timeslot_id = s => x.is_booked

Offered(r, s) ==
    /\ timeslots[s].user_id = req[r].UserID
    /\ timeslots[s].start_at >= PgTime(req[r].DateStart)
    /\ timeslots[s].start_at < PgTime(req[r].DateEnd)
    /\ timeslots[s].start_at >= PgTime(req[r].Now)

SeenOffers ==
    \A r \in Requests : \A c \in before[r] : \A s \in NewSlots :
        /\ Reading(r, "GetAllotted")
        /\ req[c].op = "CreateTimeslot" /\ status[c] = 201 /\ s[1] = c
        /\ Exists(s) /\ \A o \in Requests : ~On(o, "UpdateTimeslot", s)
        /\ Offered(r, s)
        => \E x \in rows[r] : x.timeslot_id = s

NotBack ==
    \A r \in Requests : \A o \in before[r] :
        /\ HasListed(o, "GetAllotted") /\ Reading(r, "GetAllotted") =>
               \A x \in rows[o], y \in rows[r] :
                   x.timeslot_id = y.timeslot_id /\ x.is_booked => y.is_booked
        /\ HasListed(o, "GetCalendar") /\ Reading(r, "GetCalendar")
             /\ req[o].UserID = req[r].UserID =>
               \A x \in rows[o] :
                   \/ \E y \in rows[r] : /\ y.meeting_id = x.meeting_id
                                         /\ y.attendees = x.attendees
                   \/ ~Exists(req[x.meeting_id].TimeslotID)

RTInd ==
    IndInv /\ Early /\ Promised /\ Removed /\ Late /\ SeenBookings /\ SeenOffers /\ NotBack

-----------------------------------------------------------------------------
(* What a step leaves alone.                                               *)

\* An answer is final, a listing is read once, and the others see nothing of it.
LEMMA AnswerFrame ==
    ASSUME IndInv, NEW r \in Requests, Moves(r)
    PROVE  /\ status[r] # 0 => status'[r] = status[r]
           /\ rows'[r] = rows[r] \/ Query(r)
           /\ \A o \in Requests \ {r} : rows'[o] = rows[o]
           /\ pc'[r] = "read" => Query(r)
           /\ pc'[r] # "idle"
           /\ status'[r] = 200 => status[r] = 200 \/ ReturnRows(r)
           /\ status'[r] = 204 => status[r] = 204 \/ CommitUpdate(r) \/ CommitDelete(r)
           /\ req[r].op \in {"UpdateTimeslot", "DeleteTimeslot"}
                 /\ pc'[r] \in {"write", "commit"} =>
                    pc[r] \in {"write", "commit"} \/ ScanFindsRow(r)
  <1> USE DEF IndInv, TypeOK, Places, Answers, PCs, Goto, Finish, Acquire, CanAcquire,
      loops
  <1>1. CASE Accept(r) \/ Reject(r) \/ withTx(r)
    BY <1>1 DEF Accept, Reject, withTx
  <1>2. CASE CreateUser(r) \/ CommitUser(r)
    BY <1>2 DEF CreateUser, CommitUser
  <1>3. CASE CreateTimeslot(r)
    BY <1>3 DEF CreateTimeslot
  <1>4. CASE CreateTimeslotFails(r)
    BY <1>4 DEF CreateTimeslotFails
  <1>5. CASE NextWindow(r)
    BY <1>5 DEF NextWindow
  <1>6. CASE CommitAvailability(r)
    BY <1>6 DEF CommitAvailability
  <1>7. CASE CreateMeeting(r) \/ SlotTaken(r)
    BY <1>7 DEF CreateMeeting, SlotTaken
  <1>8. CASE LockTimeslotKey(r) \/ TimeslotMissing(r)
    BY <1>8 DEF LockTimeslotKey, TimeslotMissing
  <1>9. CASE AddMeetingParticipant(r)
    BY <1>9 DEF AddMeetingParticipant
  <1>10. CASE CommitMeeting(r)
    BY <1>10 DEF CommitMeeting
  <1>11. CASE ScanFindsNone(r) \/ ScanFindsRow(r) \/ ScanFailsCheck(r)
    BY <1>11 DEF ScanFindsNone, ScanFindsRow, ScanFailsCheck
  <1>12. CASE LockRow(r) \/ RowGone(r)
    BY <1>12 DEF LockRow, RowGone
  <1>13. CASE CommitUpdate(r)
    BY <1>13 DEF CommitUpdate
  <1>14. CASE CommitDelete(r)
    BY <1>14 DEF CommitDelete
  <1>15. CASE Query(r)
    BY <1>15 DEF Query
  <1>16. CASE ReturnRows(r)
    BY <1>16 DEF ReturnRows
  <1>17. CASE Cancel(r)
    BY <1>17 DEF Cancel
  <1>18. CASE CancelTooLate(r)
    BY <1>18 DEF CancelTooLate
  <1> QED
    BY <1>1, <1>2, <1>3, <1>4, <1>5, <1>6, <1>7, <1>8, <1>9, <1>10, <1>11, <1>12,
        <1>13, <1>14, <1>15, <1>16, <1>17, <1>18 DEF Moves, Step

\* A timeslot keeps its owner, and its row unless an update of it is sent; only
\* one that is not gone for good can appear.
LEMMA RowFrame ==
    ASSUME IndInv, NEW r \in Requests, Moves(r), NEW s \in Slots, Exists(s)'
    PROVE  /\ ~Dead(s)
           /\ Exists(s) => timeslots'[s].user_id = timeslots[s].user_id
           /\ Exists(s) /\ ~On(r, "UpdateTimeslot", s) => timeslots'[s] = timeslots[s]
  <1> USE DEF IndInv
  <1>1. ~Dead(s)
    BY GoneForGood DEF Dead
  <1>2. CASE UNCHANGED tables \/ CommitUser(r) \/ CommitMeeting(r)
    BY <1>1, <1>2 DEF tables, CommitUser, CommitMeeting
  <1>3. CASE CommitAvailability(r)
    <2>1. s \in created[r] => ~Exists(s)
      BY <1>3, AvailabilityCommitted DEF CommitAvailability, Settled
    <2> QED
      BY <1>1, <1>3, <2>1, AvailabilityCommitted
  <1>4. CASE CommitUpdate(r)
    BY <1>1, <1>4, UpdateCommitted DEF CommitUpdate, On
  <1>5. CASE CommitDelete(r)
    BY <1>1, <1>5, DeleteCommitted DEF Exists
  <1> QED
    BY <1>2, <1>3, <1>4, <1>5, MoveFrame DEF Commits

\* Who is called now comes after nobody who is answered later; nothing else
\* changes in the history.
LEMMA HistoryFrame ==
    ASSUME IndInv, Early, NEW r \in Requests, Moves(r), RTNext
    PROVE  /\ \A o \in Requests : before'[o] = before[o] \/ (o = r /\ pc[r] = "idle")
           /\ pc[r] = "idle" => /\ rows'[r] = rows[r] /\ before'[r] = Answered
                                /\ pc'[r] \in {"acquire", "done"}
                                /\ status'[r] \in {0, 400}
  <1>1. /\ \A o \in Requests \ {r} : pc'[o] = pc[o]
        /\ pc'[r] # "idle"
    BY MoveFrame, AnswerFrame DEF IndInv
  <1>2. before' = [o \in Requests |-> IF Called(o) THEN Answered ELSE before[o]]
    BY DEF RTNext
  <1>3. ASSUME pc[r] = "idle"
        PROVE  Accept(r) \/ Reject(r)
    BY <1>3 DEF Moves, Step, withTx, CreateUser, CommitUser, CreateTimeslot,
       CreateTimeslotFails, NextWindow, CommitAvailability, CreateMeeting, SlotTaken,
       LockTimeslotKey, TimeslotMissing, AddMeetingParticipant, CommitMeeting,
       ScanFindsNone, ScanFindsRow, ScanFailsCheck, LockRow, RowGone, CommitUpdate,
       CommitDelete, Query, ReturnRows, Cancel, CancelTooLate, Acquire, CanAcquire
  <1>4. pc[r] = "idle" => status[r] = 0
    BY DEF IndInv, Answers
  <1> QED
    BY <1>1, <1>2, <1>3, <1>4
       DEF Called, Early, Accept, Reject, Goto, Finish, loops, IndInv, TypeOK

-----------------------------------------------------------------------------
(* Each part of the invariant survives a move.                             *)

\* A listing read so far was read just now, or was already there as it is; the
\* answers it comes after are the same.
LEMMA ReadingFrame ==
    ASSUME IndInv, Early, NEW r \in Requests, Moves(r), RTNext,
           NEW q \in Requests, NEW op \in {"GetAllotted", "GetCalendar"}, Reading(q, op)'
    PROVE  /\ req[q].op = op /\ req' = req
           /\ before'[q] = before[q]
           /\ \/ q = r /\ Query(r)
              \/ Reading(q, op) /\ rows'[q] = rows[q]
  <1>1. /\ req' = req
        /\ \A o \in Requests \ {r} : pc'[o] = pc[o] /\ status'[o] = status[o]
    BY MoveFrame DEF IndInv
  <1>2. ReturnRows(r) => pc[r] = "read"
    BY DEF ReturnRows
  <1> QED
    BY <1>1, <1>2, AnswerFrame, HistoryFrame DEF Reading

\* An answer that was out before keeps its status, and its rows.
LEMMA PastFrame ==
    ASSUME IndInv, Early, NEW r \in Requests, Moves(r),
           NEW q \in Requests, NEW o \in before[q]
    PROVE  /\ o \in Requests /\ status[o] # 0
           /\ status'[o] = status[o] /\ rows'[o] = rows[o]
  <1>1. o \in Requests /\ status[o] # 0
    BY DEF Early
  <1>2. ~(o = r /\ Query(r))
    BY <1>1 DEF IndInv, Answers, Query, Acquire, CanAcquire
  <1> QED
    BY <1>1, <1>2, AnswerFrame, MoveFrame DEF IndInv

LEMMA EarlyStep ==
    ASSUME IndInv, Early, NEW r \in Requests, Moves(r), RTNext
    PROVE  Early'
  <1>1. \A o \in Requests : status[o] # 0 => status'[o] # 0
    BY AnswerFrame, MoveFrame DEF IndInv
  <1>2. \A o \in Requests : pc'[o] = "idle" => pc[o] = "idle" /\ o # r
    BY AnswerFrame, MoveFrame DEF IndInv
  <1>3. before' = [o \in Requests |-> IF Called(o) THEN Answered ELSE before[o]]
    BY DEF RTNext
  <1> QED
    BY <1>1, <1>2, <1>3 DEF Early, Answered, Called

\* What a calendar reads is so when it is read.
LEMMA CalendarRead ==
    ASSUME IndInv, NEW r \in Requests, Query(r), req[r].op = "GetCalendar"
    PROVE  /\ UNCHANGED <<timeslots, meetings>>
           /\ \A x \in rows'[r] : \E m \in Requests :
                 /\ x.meeting_id = m /\ x.attendees = People(m)
                 /\ meetings[m] # NoRow /\ meetings[m] = req[m].TimeslotID
                 /\ req[m].TimeslotID \in Slots
                 /\ timeslots[req[m].TimeslotID].user_id = req[r].UserID
           /\ \A m \in Requests :
                 meetings[m] # NoRow
                   /\ timeslots[req[m].TimeslotID].user_id = req[r].UserID =>
                   \E x \in rows'[r] : x.meeting_id = m /\ x.attendees = People(m)
  <1>1. rows'[r] = ListCalendarMeetings(req[r].UserID)
    BY DEF IndInv, TypeOK, Query, Listing
  <1>2. \A m \in Requests : meetings[m] # NoRow =>
            /\ meetings[m] = req[m].TimeslotID /\ meetings[m] \in Slots
            /\ Exists(meetings[m]) /\ participants[m] = People(m)
    BY DEF IndInv, TypeOK, Settled, ReferentialIntegrity, MeetingsAreWhole, People
  <1>3. ASSUME NEW x \in rows'[r]
        PROVE  \E m \in Requests :
                 /\ x.meeting_id = m /\ x.attendees = People(m)
                 /\ meetings[m] # NoRow /\ meetings[m] = req[m].TimeslotID
                 /\ req[m].TimeslotID \in Slots
                 /\ timeslots[req[m].TimeslotID].user_id = req[r].UserID
    BY <1>1, <1>2 DEF ListCalendarMeetings
  <1>4. ASSUME NEW m \in Requests, meetings[m] # NoRow,
               timeslots[req[m].TimeslotID].user_id = req[r].UserID
        PROVE  \E x \in rows'[r] : x.meeting_id = m /\ x.attendees = People(m)
    <2> DEFINE row == [meeting_id |-> m, start_at |-> timeslots[meetings[m]].start_at,
                       end_at |-> timeslots[meetings[m]].end_at,
                       attendees |-> participants[m]]
    <2>1. row \in rows'[r]
      BY <1>1, <1>2, <1>4 DEF ListCalendarMeetings
    <2>2. row.meeting_id = m /\ row.attendees = People(m)
      BY <1>2, <1>4
    <2> QED
      <3> HIDE DEF row
      <3> QED
        BY <2>1, <2>2
  <1> QED
    BY <1>3, <1>4 DEF Query, tables

\* What a list of timeslots reads is so when it is read.
LEMMA AllottedRead ==
    ASSUME IndInv, NEW r \in Requests, Query(r), req[r].op = "GetAllotted"
    PROVE  /\ UNCHANGED <<timeslots, meetings>>
           /\ \A x \in rows'[r] : /\ x.timeslot_id \in Slots
                                  /\ Exists(x.timeslot_id)
                                  /\ x.is_booked <=> Booked(x.timeslot_id)
           /\ \A s \in Slots : Exists(s) /\ Offered(r, s) =>
                 \E x \in rows'[r] : x.timeslot_id = s
  <1>1. rows'[r] = ListAllottedTimeslots(req[r].UserID, req[r].DateStart,
                                         req[r].DateEnd, req[r].Now)
    BY DEF IndInv, TypeOK, Query, Listing
  <1> DEFINE row(s) == [timeslot_id |-> s, timeslot |-> timeslots[s],
                        is_booked |-> Booked(s)]
  <1>2. ASSUME NEW x \in rows'[r]
        PROVE  \E s \in Slots : Exists(s) /\ x = row(s)
    BY <1>1 DEF ListAllottedTimeslots
  <1>3. ASSUME NEW s \in Slots, Exists(s), Offered(r, s)
        PROVE  row(s) \in rows'[r]
    BY <1>1, <1>3 DEF ListAllottedTimeslots, Offered
  <1>4. \A s : row(s).timeslot_id = s /\ row(s).is_booked = Booked(s)
    OBVIOUS
  <1> QED
    <2> HIDE DEF row
    <2> QED
      BY <1>2, <1>3, <1>4 DEF Query, tables

LEMMA PromisedStep ==
    ASSUME IndInv, Early, Promised, NEW r \in Requests, Moves(r), RTNext
    PROVE  Promised'
  <1> USE DEF IndInv
  <1>1. ASSUME NEW q \in Requests, NEW x \in rows'[q], Reading(q, "GetCalendar")'
        PROVE  \E m \in Requests, s \in Slots :
                 /\ x.meeting_id = m /\ s = req'[m].TimeslotID
                 /\ x.attendees = People(m)'
                 /\ meetings'[m] = s \/ Dead(s)'
                 /\ Exists(s)' => timeslots'[s].user_id = req'[q].UserID
    <2>1. \E m \in Requests, s \in Slots :
             /\ x.meeting_id = m /\ s = req[m].TimeslotID
             /\ x.attendees = People(m)
             /\ meetings[m] = s \/ Dead(s)
             /\ Exists(s) => timeslots[s].user_id = req[q].UserID
      BY <1>1, ReadingFrame, CalendarRead DEF Promised
    <2>2. PICK m \in Requests, s \in Slots :
             /\ x.meeting_id = m /\ s = req[m].TimeslotID
             /\ x.attendees = People(m)
             /\ meetings[m] = s \/ Dead(s)
             /\ Exists(s) => timeslots[s].user_id = req[q].UserID
      BY <2>1
    <2>3. meetings[m] = s => Exists(s)
      BY SchemaAssumption DEF ReferentialIntegrity
    <2>4. meetings'[m] = s \/ Dead(s)'
      BY <2>2, GoneForGood
    <2>5. Exists(s)' => timeslots'[s].user_id = req[q].UserID
      BY <2>2, <2>3, RowFrame
    <2>6. UNCHANGED req /\ People(m)' = People(m)
      BY MoveFrame DEF People
    <2> QED
      BY <2>2, <2>4, <2>5, <2>6
  <1>2. ASSUME NEW q \in Requests, NEW x \in rows'[q], Reading(q, "GetAllotted")',
               x.is_booked
        PROVE  x.timeslot_id \in Slots
                 /\ (Booked(x.timeslot_id)' \/ Dead(x.timeslot_id)')
    <2>1. x.timeslot_id \in Slots /\ (Booked(x.timeslot_id) \/ Dead(x.timeslot_id))
      BY <1>2, ReadingFrame, AllottedRead DEF Promised
    <2> QED
      BY <2>1, GoneForGood
  <1> QED
    BY <1>1, <1>2 DEF Promised

LEMMA RemovedStep ==
    ASSUME IndInv, Removed, NEW r \in Requests, Moves(r)
    PROVE  Removed'
  <1> USE DEF IndInv
  <1>1. UNCHANGED req /\ \A o \in Requests \ {r} : status'[o] = status[o]
    BY MoveFrame
  <1> SUFFICES ASSUME NEW o \in Requests, req[o].op = "DeleteTimeslot", status'[o] = 204
               PROVE  /\ req[o].TimeslotID \in Slots
                      /\ \A s \in Slots : s = req[o].TimeslotID => Dead(s)'
    BY <1>1 DEF Removed, Dead, Exists
  <1>2. CASE status[o] = 204
    BY <1>2, GoneForGood DEF Removed
  <1>3. CASE o = r /\ CommitDelete(r)
    <2>1. /\ req[r].TimeslotID \in Slots
          /\ Exists(req[r].TimeslotID) /\ ~Exists(req[r].TimeslotID)'
      BY <1>1, <1>3, DeleteCommitted DEF Exists
    <2>2. \A x \in NewSlots : pc[x[1]] = "done" => pc'[x[1]] = "done"
      BY MoveFrame DEF NewSlots
    <2>3. \A s \in Slots : s = req[r].TimeslotID =>
             Exists(s) /\ ~Exists(s)' /\ (s \in NewSlots => pc[s[1]] = "done")
      BY <1>1, <2>1 DEF Settled, Exists
    <2> QED
      BY <1>3, <2>1, <2>2, <2>3 DEF Dead
  <1> QED
    BY <1>1, <1>2, <1>3, AnswerFrame DEF CommitUpdate

LEMMA LateStep ==
    ASSUME IndInv, Early, Removed, Late, NEW r \in Requests, Moves(r), RTNext
    PROVE  Late'
  <1> USE DEF IndInv
  <1>1. /\ UNCHANGED req
        /\ \A o \in Requests \ {r} : pc'[o] = pc[o] /\ status'[o] = status[o]
    BY MoveFrame
  <1>2. ASSUME NEW q \in Requests, NEW o \in before[q]
        PROVE  /\ o \in Requests /\ status'[o] = status[o]
               /\ Booking(o) /\ status[o] = 201
                    /\ req[q].op \in {"UpdateTimeslot", "DeleteTimeslot"}
                    /\ req[o].TimeslotID = req[q].TimeslotID =>
                      pc'[q] \notin {"write", "commit"} /\ status'[q] # 204
               /\ Booking(q) /\ req[o].op = "DeleteTimeslot" /\ status[o] = 204
                    /\ req[o].TimeslotID = req[q].TimeslotID => status'[q] # 201
    <2>1. o \in Requests /\ status'[o] = status[o]
      BY PastFrame
    <2>2. ASSUME Booking(o), status[o] = 201, req[o].TimeslotID = req[q].TimeslotID,
                 req[q].op \in {"UpdateTimeslot", "DeleteTimeslot"}
          PROVE  pc'[q] \notin {"write", "commit"} /\ status'[q] # 204
      <3>1. pc[q] \notin {"write", "commit"} /\ status[q] # 204
        BY <2>1, <2>2 DEF Late
      <3>2. Booked(req[q].TimeslotID) \/ ~Exists(req[q].TimeslotID)
        BY <2>1, <2>2 DEF Honest, Booking, Booked, Dead
      <3>3. ~(q = r /\ ScanFindsRow(r))
        BY <3>2 DEF ScanFindsRow
      <3>4. ~(q = r /\ (CommitUpdate(r) \/ CommitDelete(r)))
        BY <3>1 DEF CommitUpdate, CommitDelete
      <3> QED
        BY <1>1, <2>2, <3>1, <3>3, <3>4, AnswerFrame
    <2>3. ASSUME Booking(q), req[o].op = "DeleteTimeslot", status[o] = 204,
                 req[o].TimeslotID = req[q].TimeslotID
          PROVE  status'[q] # 201
      <3>1. status[q] # 201
        BY <2>1, <2>3 DEF Late
      <3>2. ~Exists(req[q].TimeslotID)
        BY <2>1, <2>3 DEF Removed, Dead
      <3>3. ~(q = r /\ CommitMeeting(r))
        BY <3>2, MeetingCommitted
      <3> QED
        BY <1>1, <2>3, <3>1, <3>3, NewAnswer DEF Booking
    <2> QED
      BY <2>1, <2>2, <2>3
  <1> QED
    BY <1>1, <1>2, HistoryFrame DEF Late, Booking

LEMMA SeenBookingsStep ==
    ASSUME IndInv, Early, SeenBookings, NEW r \in Requests, Moves(r), RTNext
    PROVE  SeenBookings'
  <1> USE DEF IndInv
  <1>1. UNCHANGED req /\ \A m \in Requests : People(m)' = People(m)
    BY MoveFrame DEF People
  <1>2. ASSUME NEW q \in Requests, NEW m \in before'[q],
               Reading(q, "GetCalendar")' \/ Reading(q, "GetAllotted")'
        PROVE  m \in before[q] /\ m \in Requests /\ status'[m] = status[m]
    BY <1>2, ReadingFrame, PastFrame
  <1>3. ASSUME NEW m \in Requests, Booking(m), status[m] = 201
        PROVE  /\ req[m].TimeslotID \in Slots
               /\ meetings[m] = req[m].TimeslotID \/ Dead(req[m].TimeslotID)
               /\ meetings[m] = req[m].TimeslotID => Exists(req[m].TimeslotID)
    BY <1>3, SchemaAssumption DEF Honest, Booking, ReferentialIntegrity
  <1>4. ASSUME NEW q \in Requests, NEW m \in before'[q], Booking(m), status'[m] = 201,
               NEW s \in Slots, s = req[m].TimeslotID,
               Reading(q, "GetCalendar")', Exists(s)',
               timeslots'[s].user_id = req[q].UserID
        PROVE  \E x \in rows'[q] : x.meeting_id = m /\ x.attendees = People(m)
    <2>1. /\ m \in before[q] /\ m \in Requests /\ status[m] = 201
          /\ meetings[m] = s \/ Dead(s)
          /\ meetings[m] = s => Exists(s)
      BY <1>2, <1>3, <1>4
    <2>2. ~Dead(s) /\ (Exists(s) => timeslots'[s].user_id = timeslots[s].user_id)
      BY <1>4, RowFrame
    <2>3. /\ meetings[m] = s /\ Exists(s) /\ meetings[m] # NoRow
          /\ timeslots[s].user_id = req[q].UserID
      BY <1>4, <2>1, <2>2, SchemaAssumption
    <2>4. CASE q = r /\ Query(r)
      BY <1>4, <2>1, <2>3, <2>4, CalendarRead, ReadingFrame
    <2>5. CASE Reading(q, "GetCalendar") /\ rows'[q] = rows[q]
      BY <1>4, <2>1, <2>3, <2>5 DEF SeenBookings
    <2> QED
      BY <1>4, <2>4, <2>5, ReadingFrame
  <1>5. ASSUME NEW q \in Requests, NEW m \in before'[q], Booking(m), status'[m] = 201,
               Reading(q, "GetAllotted")', NEW x \in rows'[q],
               x.timeslot_id = req[m].TimeslotID
        PROVE  x.is_booked
    <2>1. m \in before[q] /\ m \in Requests /\ status[m] = 201
      BY <1>2, <1>5
    <2>2. CASE q = r /\ Query(r)
      <3>1. Exists(x.timeslot_id) /\ (x.is_booked <=> Booked(x.timeslot_id))
        BY <1>5, <2>2, AllottedRead, ReadingFrame
      <3> QED
        BY <1>3, <1>5, <2>1, <3>1 DEF Dead, Booked
    <2>3. CASE Reading(q, "GetAllotted") /\ rows'[q] = rows[q]
      BY <1>5, <2>1, <2>3 DEF SeenBookings
    <2> QED
      BY <1>5, <2>2, <2>3, ReadingFrame
  <1>6. \A q \in Requests : \A m \in before'[q] :
           (Reading(q, "GetCalendar")' \/ Reading(q, "GetAllotted")')
             /\ Booking(m) /\ status'[m] = 201 => req[m].TimeslotID \in Slots
    BY <1>2, <1>3
  <1>7. ASSUME NEW q \in Requests, NEW m \in before'[q],
               Booking(m), status'[m] = 201, NEW s, s = req[m].TimeslotID
        PROVE  /\ Reading(q, "GetCalendar")' /\ Exists(s)'
                    /\ timeslots'[s].user_id = req[q].UserID =>
                      \E x \in rows'[q] :
                          x.meeting_id = m /\ x.attendees = People(m)
               /\ Reading(q, "GetAllotted")' =>
                      \A x \in rows'[q] : x.timeslot_id = s => x.is_booked
    BY <1>4, <1>5, <1>6, <1>7
  <1>8. ASSUME NEW q \in Requests, NEW m \in before'[q]
        PROVE  m \in Requests
    BY EarlyStep, <1>8 DEF Early
  <1> QED
    BY <1>1, <1>7, <1>8 DEF SeenBookings, Booking, Exists, Reading

LEMMA SeenOffersStep ==
    ASSUME IndInv, Early, SeenOffers, NEW r \in Requests, Moves(r), RTNext
    PROVE  SeenOffers'
  <1> USE DEF IndInv
  <1>1. UNCHANGED req
    BY MoveFrame
  <1>2. ASSUME NEW q \in Requests, NEW c \in before'[q], NEW s \in NewSlots,
               Reading(q, "GetAllotted")', req[c].op = "CreateTimeslot",
               status'[c] = 201, s[1] = c, Exists(s)', Offered(q, s)',
               \A o \in Requests : ~On(o, "UpdateTimeslot", s)
        PROVE  \E x \in rows'[q] : x.timeslot_id = s
    <2>1. /\ c \in before[q] /\ c \in Requests /\ status[c] = 201 /\ s \in Slots
          /\ before'[q] = before[q]
      BY <1>2, ReadingFrame, PastFrame DEF Slots
    <2>2. Exists(s) /\ timeslots'[s] = timeslots[s]
      <3>1. ~Dead(s)
        BY <1>2, <2>1, RowFrame
      <3>2. pc[c] = "done"
        BY <2>1 DEF Answers
      <3> QED
        BY <1>2, <2>1, <3>1, <3>2, RowFrame DEF Dead
    <2>3. Offered(q, s)
      BY <1>1, <1>2, <2>2 DEF Offered
    <2>4. CASE q = r /\ Query(r)
      BY <1>2, <2>1, <2>2, <2>3, <2>4, AllottedRead, ReadingFrame
    <2>5. CASE Reading(q, "GetAllotted") /\ rows'[q] = rows[q]
      BY <1>2, <2>1, <2>2, <2>3, <2>5 DEF SeenOffers
    <2> QED
      BY <1>2, <2>4, <2>5, ReadingFrame
  <1> QED
    BY <1>1, <1>2 DEF SeenOffers, On, Reading, Offered, Exists

LEMMA NotBackStep ==
    ASSUME IndInv, Early, Promised, NotBack, NEW r \in Requests, Moves(r), RTNext
    PROVE  NotBack'
  <1> USE DEF IndInv
  <1>1. UNCHANGED req
    BY MoveFrame
  <1>2. ASSUME NEW q \in Requests, NEW o \in before'[q],
               Reading(q, "GetCalendar")' \/ Reading(q, "GetAllotted")'
        PROVE  /\ o \in before[q] /\ o \in Requests
               /\ status'[o] = status[o] /\ rows'[o] = rows[o]
    BY <1>2, ReadingFrame, PastFrame
  <1>3. ASSUME NEW q \in Requests, NEW o \in before'[q], HasListed(o, "GetAllotted")',
               Reading(q, "GetAllotted")', NEW x \in rows'[o], NEW y \in rows'[q],
               x.timeslot_id = y.timeslot_id, x.is_booked
        PROVE  y.is_booked
    <2>1. /\ o \in before[q] /\ o \in Requests /\ x \in rows[o]
          /\ HasListed(o, "GetAllotted")
      BY <1>1, <1>2, <1>3 DEF HasListed
    <2>2. CASE q = r /\ Query(r)
      <3>1. Exists(y.timeslot_id) /\ (y.is_booked <=> Booked(y.timeslot_id))
        BY <1>3, <2>2, AllottedRead, ReadingFrame
      <3>2. Booked(x.timeslot_id) \/ Dead(x.timeslot_id)
        BY <1>3, <2>1 DEF Promised, Reading, HasListed
      <3> QED
        BY <1>3, <3>1, <3>2 DEF Dead
    <2>3. CASE Reading(q, "GetAllotted") /\ rows'[q] = rows[q]
      BY <1>3, <2>1, <2>3 DEF NotBack
    <2> QED
      BY <1>3, <2>2, <2>3, ReadingFrame
  <1>4. ASSUME NEW q \in Requests, NEW o \in before'[q], HasListed(o, "GetCalendar")',
               Reading(q, "GetCalendar")', req[o].UserID = req[q].UserID,
               NEW x \in rows'[o], Exists(req[x.meeting_id].TimeslotID)'
        PROVE  \E y \in rows'[q] : /\ y.meeting_id = x.meeting_id
                                   /\ y.attendees = x.attendees
    <2>1. /\ o \in before[q] /\ o \in Requests /\ x \in rows[o]
          /\ HasListed(o, "GetCalendar")
      BY <1>1, <1>2, <1>4 DEF HasListed
    <2>2. PICK m \in Requests, s \in Slots :
             /\ x.meeting_id = m /\ s = req[m].TimeslotID
             /\ x.attendees = People(m)
             /\ meetings[m] = s \/ Dead(s)
             /\ Exists(s) => timeslots[s].user_id = req[o].UserID
      BY <2>1 DEF Promised, Reading, HasListed
    <2>3. Exists(s)'
      BY <1>1, <1>4, <2>2
    <2>4. meetings[m] = s /\ Exists(s) /\ meetings[m] # NoRow
      BY <2>2, <2>3, RowFrame, SchemaAssumption DEF ReferentialIntegrity
    <2>5. CASE q = r /\ Query(r)
      BY <1>4, <2>2, <2>4, <2>5, CalendarRead, ReadingFrame
    <2>6. CASE Reading(q, "GetCalendar") /\ rows'[q] = rows[q]
      BY <1>4, <2>1, <2>2, <2>4, <2>6 DEF NotBack
    <2> QED
      BY <1>4, <2>5, <2>6, ReadingFrame
  <1> QED
    BY <1>1, <1>3, <1>4 DEF NotBack, Exists, HasListed, Reading

-----------------------------------------------------------------------------
(* The invariant, and what follows from it.                                *)

\* Before the first request, nobody has been answered.
LEMMA RTInitInd == RTInit => RTInd
  <1> SUFFICES ASSUME RTInit PROVE RTInd
    OBVIOUS
  <1>1. IndInv
    BY InitInd DEF RTInit
  <1>2. \A r \in Requests : status[r] = 0 /\ rows[r] = {} /\ before[r] = {}
    BY DEF RTInit, Init
  <1> QED
    BY <1>1, <1>2 DEF RTInit, RTInd, Early, Promised, Removed, Late, SeenBookings,
       SeenOffers, NotBack

\* Every move preserves every part, each by its own lemma above.
LEMMA RTStepInd == RTInd /\ [RTNext]_rtvars => RTInd'
  <1> SUFFICES ASSUME RTInd, [RTNext]_rtvars PROVE RTInd'
    OBVIOUS
  <1>1. IndInv'
    BY StepInd DEF RTInd, RTNext, rtvars
  <1>2. CASE UNCHANGED rtvars
    <2>1. UNCHANGED <<timeslots, meetings, req, pc, rows, status, before>>
      BY <1>2 DEF rtvars, vars, tables, loops
    <2> USE <2>1 DEF Reading, HasListed, Booking
    <2>2. Early'
      BY DEF RTInd, Early
    <2>3. Promised'
      <3>1. /\ \A s : Dead(s)' = Dead(s)
            /\ \A s : Booked(s)' = Booked(s)
            /\ \A s : Exists(s)' = Exists(s)
            /\ \A m : People(m)' = People(m)
            /\ \A q, op : Reading(q, op)' = Reading(q, op)
        BY DEF Dead, Exists, Booked, People
      <3> QED
        BY <3>1 DEF RTInd, Promised
    <2>4. Removed'
      BY DEF RTInd, Removed, Dead, Exists
    <2>5. Late' /\ NotBack'
      BY DEF RTInd, Late, NotBack, Exists
    <2>6. SeenBookings' /\ SeenOffers'
      BY DEF RTInd, SeenBookings, SeenOffers, Exists, People, Offered, On
    <2> QED
      BY <1>1, <2>2, <2>3, <2>4, <2>5, <2>6 DEF RTInd
  <1>3. ASSUME NEW r \in Requests, Moves(r), RTNext
        PROVE  RTInd'
    BY <1>1, <1>3, EarlyStep, PromisedStep, RemovedStep, LateStep, SeenBookingsStep,
       SeenOffersStep, NotBackStep DEF RTInd
  <1>4. CASE UNCHANGED vars /\ RTNext
    <2>1. before' = before
      BY <1>4 DEF RTInd, Early, RTNext, Called, vars
    <2> QED
      BY <1>2, <1>4, <2>1 DEF rtvars
  <1> QED
    BY <1>2, <1>3, <1>4 DEF RTNext, Next, Quiescent, Moves

\* The invariant holds in every reachable state.
THEOREM RTInvariance == RTSpec => []RTInd
  BY RTInitInd, RTStepInd, PTL DEF RTSpec

\* Whoever asks after a booking was answered 201 sees it: on the calendar, and as
\* a booked timeslot.
THEOREM SeesBookings == RTSpec => []BookingsAreSeen
  <1>1. RTInd => BookingsAreSeen
    BY DEF RTInd, SeenBookings, BookingsAreSeen, HasListed, Reading
  <1> QED
    BY <1>1, RTInvariance, PTL

\* Whoever lists timeslots after an offer was answered 201 gets all of it that
\* was asked for.
THEOREM SeesOffers == RTSpec => []OffersAreSeen
  <1>1. RTInd => OffersAreSeen
    BY DEF RTInd, SeenOffers, Offered, OffersAreSeen, HasListed, Reading
  <1> QED
    BY <1>1, RTInvariance, PTL

\* A later listing takes back nothing an earlier one has shown.
THEOREM NeverGoesBack == RTSpec => []ReadersNeverGoBack
  <1>1. RTInd => ReadersNeverGoBack
    BY DEF RTInd, NotBack, ReadersNeverGoBack, HasListed, Reading
  <1> QED
    BY <1>1, RTInvariance, PTL

\* Between calls that do not overlap, a booked timeslot is neither changed nor
\* deleted, and a deleted one not booked.
THEOREM RefusesLateCalls == RTSpec => []LateCallsAreRefused
  <1>1. RTInd => LateCallsAreRefused
    <2> SUFFICES ASSUME RTInd, NEW r \in Requests, NEW o \in before[r]
                 PROVE  /\ Booking(o) /\ status[o] = 201 /\ status[r] = 204 =>
                             ~On(r, "UpdateTimeslot", req[o].TimeslotID)
                               /\ ~On(r, "DeleteTimeslot", req[o].TimeslotID)
                        /\ Booking(r) /\ status[r] = 201 /\ status[o] = 204 =>
                             ~On(o, "DeleteTimeslot", req[r].TimeslotID)
      BY DEF LateCallsAreRefused
    <2> QED
      BY DEF RTInd, Late, On
  <1> QED
    BY <1>1, RTInvariance, PTL
=============================================================================
