---------------------------- MODULE StoreProofs ----------------------------
(***************************************************************************)
(* The safety properties of Store, proved for every set of requests,       *)
(* tenants, stored slots and inputs.                                       *)
(***************************************************************************)
EXTENDS Store, FiniteSetTheorems, TLAPS

-----------------------------------------------------------------------------
(* The inductive invariant.                                                *)

\* A request beyond "idle" passed its handler's checks, and each place of the
\* program belongs to the operations that visit it.
Places ==
    \A r \in Requests :
        /\ pc[r] \notin {"idle", "done"} => Valid(req[r])
        /\ pc[r] = "insert" => req[r].op \in {"CreateTimeslot", "CreateMeeting"}
        /\ pc[r] \in {"fkey", "people"} => req[r].op = "CreateMeeting"
        /\ pc[r] = "write" => req[r].op \in {"UpdateTimeslot", "DeleteTimeslot"}
        /\ pc[r] = "read" => req[r].op \in {"GetAllotted", "GetCalendar"}
        /\ pc[r] = "commit" => req[r].op \notin {"GetAllotted", "GetCalendar"}

\* Who holds a connection is using it.
Lent == \A r \in conn : pc[r] \notin {"idle", "acquire", "done"}

\* An answer precedes the end only when the client left a backend at work, and
\* an answered request holds no connection.
Answers ==
    \A r \in Requests :
        /\ status[r] # 0 => pc[r] \in {"write", "commit", "done"}
        /\ status[r] \notin {0, 500} => pc[r] = "done"
        /\ r \in conn => status[r] = 0

\* Where the loops of BookMeeting and CreateAvailability are.
Attending ==
    \A r \in Requests : req[r].op = "CreateMeeting" =>
        /\ pc[r] \in {"idle", "acquire", "insert", "fkey"} => next[r] = 1
        /\ pc[r] = "people" => next[r] <= Len(req[r].Attendees)
        /\ pc[r] = "commit" => next[r] = Len(req[r].Attendees) + 1

Offering ==
    \A r \in Requests : req[r].op = "CreateTimeslot" =>
        /\ pc[r] \in {"idle", "acquire"} => next[r] = 1
        /\ pc[r] = "insert" => next[r] <= Len(req[r].Availability)

\* What an open CreateAvailability has inserted is its own, valid, and its
\* user's, who is registered.
Inserted ==
    \A r \in Requests : \A s \in created[r] :
        /\ req[r].op = "CreateTimeslot"
        /\ ValidCreateTimeslot(req[r])
        /\ req[r].UserID \in users
        /\ s[1] = r
        /\ s[2] \in DOMAIN req[r].Availability

\* The UPDATE that found its row passed the CHECK constraints.
Checked ==
    \A r \in Requests :
        pc[r] \in {"write", "commit"} /\ req[r].op = "UpdateTimeslot" =>
            PgTime(req[r].EndAt) > PgTime(req[r].StartAt)

\* A meeting belongs to a booking that has ended, and a new timeslot to an offer
\* that has ended: neither is written again.
Settled ==
    /\ \A m \in Requests : meetings[m] # NoRow =>
          /\ pc[m] = "done"
          /\ req[m].op = "CreateMeeting"
          /\ meetings[m] = req[m].TimeslotID
    /\ \A s \in NewSlots : Exists(s) => pc[s[1]] = "done"

\* s is gone for good.
Dead(s) == ~Exists(s) /\ (s \in NewSlots => pc[s[1]] = "done")

\* What a booking was answered is true, or its timeslot is gone for good.
Honest ==
    \A r \in Requests :
        req[r].op = "CreateMeeting" /\ status[r] \in {201, 409} =>
            /\ req[r].TimeslotID \in Slots
            /\ status[r] = 201 => meetings[r] = req[r].TimeslotID
                                    \/ Dead(req[r].TimeslotID)
            /\ status[r] = 409 => Booked(req[r].TimeslotID)
                                    \/ Dead(req[r].TimeslotID)

IndInv ==
    /\ TypeOK
    /\ Places
    /\ Lent
    /\ Answers
    /\ Attending
    /\ Offering
    /\ Inserted
    /\ Checked
    /\ Settled
    /\ LocksExclude
    /\ OneMeetingPerSlot
    /\ ReferentialIntegrity
    /\ MeetingsAreWhole
    /\ RowsSatisfyChecks
    /\ Honest
    /\ OnlyOneBookingWins
    /\ Cardinality(conn) <= MaxConns

Moves(r) ==
    Accept(r) \/ Reject(r) \/ Step(r) \/ Cancel(r) \/ CancelTooLate(r)

-----------------------------------------------------------------------------
(* Requests.                                                               *)

\* The fields of a request have the types its operation gives them.
LEMMA RequestFields ==
    ASSUME NEW q \in Request
    PROVE  /\ q.op = "CreateTimeslot" =>
                 /\ q.UserID \in Users \cup {BadID}
                 /\ q.Availability \in Seq(Window)
                 /\ q.DurationMins \in Int
           /\ q.op = "UpdateTimeslot" =>
                 /\ q.TimeslotID \in Slots \cup {BadID}
                 /\ q.StartAt \in Nat /\ q.EndAt \in Nat
                 /\ q.DurationMins \in Int
           /\ q.op = "DeleteTimeslot" => q.TimeslotID \in Slots \cup {BadID}
           /\ q.op = "CreateMeeting" =>
                 /\ q.TimeslotID \in Slots \cup {BadID}
                 /\ q.Attendees \in Seq(Emails)
  BY DEF Request, CreateUserRequest, CreateTimeslotRequest, UpdateTimeslotRequest,
         DeleteTimeslotRequest, CreateMeetingRequest, GetAllottedRequest,
         GetCalendarRequest

\* A request past its handler's checks passed those of its own operation.
LEMMA ValidByOperation ==
    ASSUME NEW q, Valid(q)
    PROVE  /\ q.op = "CreateTimeslot" => ValidCreateTimeslot(q)
           /\ q.op = "UpdateTimeslot" => ValidUpdateTimeslot(q)
           /\ q.op = "DeleteTimeslot" => ValidDeleteTimeslot(q)
           /\ q.op = "CreateMeeting" => ValidCreateMeeting(q)
  BY DEF Valid, ValidCreateUser, ValidCreateTimeslot, ValidUpdateTimeslot,
         ValidDeleteTimeslot, ValidCreateMeeting, ValidGetAllotted, ValidGetCalendar

\* A request past its handler's checks names a timeslot that could exist.
LEMMA ValidSlot ==
    ASSUME NEW q \in Request, Valid(q),
           q.op \in {"UpdateTimeslot", "DeleteTimeslot", "CreateMeeting"}
    PROVE  q.TimeslotID \in Slots
  BY RequestFields, ValidByOperation
     DEF ValidUpdateTimeslot, ValidDeleteTimeslot, ValidCreateMeeting

-----------------------------------------------------------------------------

-----------------------------------------------------------------------------
(* Time and slices.                                                        *)

\* Multiplication by a natural number is monotone.
LEMMA MulMonotone ==
    ASSUME NEW a \in Nat, NEW b \in Nat, NEW c \in Nat, a <= b
    PROVE  a * c \in Nat /\ a * c <= b * c
  OBVIOUS

LEMMA MulAssociates ==
    ASSUME NEW a \in Nat, NEW b \in Nat, NEW c \in Nat
    PROVE  a * (b * c) = (a * b) * c
  OBVIOUS

\* Two times a microsecond apart or more are told apart in a timestamptz.
LEMMA PgTimeGrows ==
    ASSUME NEW x \in Nat, NEW d \in Nat, d >= Micro
    PROVE  PgTime(x) \in Nat /\ PgTime(x + d) \in Nat /\ PgTime(x + d) > PgTime(x)
  BY SchemaAssumption DEF PgTime

\* A slot lasts at least a microsecond.
LEMMA SlotLength ==
    ASSUME NEW q, ValidCreateTimeslot(q), q.DurationMins \in Int
    PROVE  slot(q) \in Nat /\ slot(q) >= Micro
  <1>1. Minute >= Micro
    BY SchemaAssumption
  <1>2. q.DurationMins \in Nat /\ 1 <= q.DurationMins
    BY SchemaAssumption DEF ValidCreateTimeslot, DurationInRange
  <1>3. 1 * Minute <= q.DurationMins * Minute /\ q.DurationMins * Minute \in Nat
    BY <1>2, MulMonotone, SchemaAssumption
  <1> QED
    BY <1>1, <1>3, SchemaAssumption DEF slot

\* Every slice is a row of timeslots and passes the CHECK constraints.
LEMMA SliceRowGood ==
    ASSUME NEW q \in Request, ValidCreateTimeslot(q),
           NEW i \in DOMAIN q.Availability, NEW k \in Nat \ {0}
    PROVE  /\ SliceRow(q, i, k) \in Timeslot
           /\ SliceRow(q, i, k) # NoRow
           /\ SliceRow(q, i, k).user_id = q.UserID
           /\ SatisfiesChecks(SliceRow(q, i, k))
  <1>1. /\ q.UserID \in Users
        /\ q.Availability[i] \in Window
        /\ q.DurationMins \in Int
        /\ DurationInRange(q.DurationMins)
    BY RequestFields DEF ValidCreateTimeslot
  <1>2. slot(q) \in Nat /\ slot(q) >= Micro
    BY <1>1, SlotLength
  <1>3. (k - 1) * slot(q) \in Nat
    BY <1>2, MulMonotone
  <1>4. SliceStart(q, i, k) \in Nat
    BY <1>1, <1>3 DEF SliceStart, Window
  <1> DEFINE start == SliceStart(q, i, k)
  <1>5. /\ PgTime(start) \in Nat
        /\ PgTime(start + slot(q)) \in Nat
        /\ PgTime(start + slot(q)) > PgTime(start)
    BY <1>2, <1>4, PgTimeGrows
  <1> QED
    BY <1>1, <1>5, SchemaAssumption
       DEF SliceRow, TimeslotRow, Timeslot, SatisfiesChecks, DurationInRange

\* A slice fits when every later one does.
LEMMA EarlierFits ==
    ASSUME NEW q \in Request, ValidCreateTimeslot(q), NEW i \in DOMAIN q.Availability,
           NEW j \in Nat \ {0}, NEW k \in Nat \ {0}, j <= k, SliceFits(q, i, k)
    PROVE  SliceFits(q, i, j)
  <1>1. /\ q.Availability[i] \in Window
        /\ q.DurationMins \in Int
    BY RequestFields DEF ValidCreateTimeslot
  <1>2. slot(q) \in Nat
    BY <1>1, SlotLength
  <1> DEFINE early == (j - 1) * slot(q)
             late == (k - 1) * slot(q)
             from == q.Availability[i].StartAt
             to == q.Availability[i].EndAt
             length == slot(q)
  <1>3. early \in Nat /\ late \in Nat /\ early <= late
    <2>1. j - 1 \in Nat /\ k - 1 \in Nat /\ j - 1 <= k - 1
      OBVIOUS
    <2> QED
      BY <1>2, <2>1, MulMonotone
  <1>4. /\ SliceFits(q, i, j) <=> from + early + length <= to
        /\ SliceFits(q, i, k) <=> from + late + length <= to
    BY Zenon DEF SliceFits, SliceStart
  <1>5. from \in Nat /\ to \in Nat /\ length \in Nat
    BY <1>1, <1>2 DEF Window
  <1> HIDE DEF early, late, from, to, length
  <1> QED
    BY <1>3, <1>4, <1>5

\* The bounds contain every slice that fits.
LEMMA SliceInBounds ==
    ASSUME NEW r \in Requests, NEW q \in Inputs[r], ValidCreateTimeslot(q),
           NEW i \in DOMAIN q.Availability, NEW k \in Nat \ {0}, SliceFits(q, i, k)
    PROVE  <<r, i, k>> \in NewSlots
  <1>1. q \in Request
    BY StoreAssumption
  <1>2. /\ q.Availability \in Seq(Window)
        /\ q.Availability[i] \in Window
        /\ q.DurationMins \in Int
    BY <1>1, RequestFields DEF ValidCreateTimeslot
  <1>3. Len(q.Availability) <= MaxWindows /\ ~SliceFits(q, i, MaxSlices + 1)
    BY BoundsAssumption
  <1>4. MaxSlices \in Nat /\ MaxWindows \in Nat
    BY SchemaAssumption
  <1>5. ASSUME MaxSlices <= k - 1
        PROVE  SliceFits(q, i, MaxSlices + 1)
    <2>1. MaxSlices + 1 \in Nat \ {0} /\ MaxSlices + 1 <= k
      BY <1>4, <1>5
    <2> QED
      BY <1>1, <2>1, EarlierFits
  <1>6. k \in 1..MaxSlices
    BY <1>3, <1>4, <1>5
  <1>7. i \in 1..MaxWindows
    BY <1>2, <1>3, <1>4
  <1> QED
    BY <1>6, <1>7 DEF NewSlots

\* The new version of a row is a row too, and passes the CHECK constraints, when
\* the UPDATE was checked.
LEMMA NewVersionGood ==
    ASSUME NEW r \in Requests, NEW s \in Slots, TypeOK, Exists(s),
           ValidUpdateTimeslot(req[r]), PgTime(req[r].EndAt) > PgTime(req[r].StartAt)
    PROVE  /\ NewVersion(r, s) \in Timeslot
           /\ NewVersion(r, s) # NoRow
           /\ NewVersion(r, s).user_id = timeslots[s].user_id
           /\ SatisfiesChecks(NewVersion(r, s))
  <1>1. timeslots[s].user_id \in Users
    BY DEF TypeOK, Exists, Timeslot
  <1>2. /\ req[r].StartAt \in Nat /\ req[r].EndAt \in Nat
        /\ req[r].DurationMins \in Int /\ DurationInRange(req[r].DurationMins)
    BY RequestFields DEF TypeOK, ValidUpdateTimeslot
  <1>3. PgTime(req[r].StartAt) \in Nat /\ PgTime(req[r].EndAt) \in Nat
    BY <1>2, SchemaAssumption DEF PgTime
  <1> QED
    BY <1>1, <1>2, <1>3, SchemaAssumption
       DEF NewVersion, TimeslotRow, Timeslot, SatisfiesChecks, DurationInRange

-----------------------------------------------------------------------------
(* What each step preserves.                                               *)

\* Every step keeps requests in the places of their operations.
LEMMA PlacesStep ==
    ASSUME TypeOK, Places,
           NEW r \in Requests, Moves(r)
    PROVE  Places'
  <1> USE DEF TypeOK, Places, PCs, Goto, Finish, Acquire, CanAcquire, tables,
      loops
  <1>1. CASE Accept(r) \/ Reject(r) \/ withTx(r)
    BY <1>1 DEF Accept, Reject, withTx
  <1>2. CASE CreateUser(r) \/ CommitUser(r)
    BY <1>2 DEF CreateUser, CommitUser
  <1>3. CASE CreateTimeslot(r) \/ CreateTimeslotFails(r) \/ NextWindow(r) \/
      CommitAvailability(r)
    BY <1>3 DEF CreateTimeslot, CreateTimeslotFails, NextWindow,
        CommitAvailability
  <1>4. CASE CreateMeeting(r) \/ SlotTaken(r) \/ LockTimeslotKey(r) \/
      TimeslotMissing(r) \/ AddMeetingParticipant(r) \/ CommitMeeting(r)
    BY <1>4 DEF CreateMeeting, SlotTaken, LockTimeslotKey, TimeslotMissing,
        AddMeetingParticipant, CommitMeeting
  <1>5. CASE ScanFindsNone(r) \/ ScanFindsRow(r) \/ ScanFailsCheck(r) \/
      LockRow(r) \/ RowGone(r) \/ CommitUpdate(r) \/ CommitDelete(r)
    BY <1>5 DEF ScanFindsNone, ScanFindsRow, ScanFailsCheck, LockRow, RowGone,
        CommitUpdate, CommitDelete
  <1>6. CASE Query(r) \/ ReturnRows(r) \/ Cancel(r) \/ CancelTooLate(r)
    BY <1>6 DEF Query, ReturnRows, Cancel, CancelTooLate
  <1> QED
    BY <1>1, <1>2, <1>3, <1>4, <1>5, <1>6 DEF Moves, Step

\* Every step answers in order, and every answer gives the connection back.
LEMMA AnswersStep ==
    ASSUME TypeOK, Answers,
           NEW r \in Requests, Moves(r)
    PROVE  Answers'
  <1> USE DEF TypeOK, Answers, PCs, Goto, Finish, Acquire, CanAcquire, tables,
      loops
  <1>1. CASE Accept(r) \/ Reject(r) \/ withTx(r)
    BY <1>1 DEF Accept, Reject, withTx
  <1>2. CASE CreateUser(r) \/ CommitUser(r)
    BY <1>2 DEF CreateUser, CommitUser
  <1>3. CASE CreateTimeslot(r)
    BY <1>3 DEF CreateTimeslot
  <1>4. CASE CreateTimeslotFails(r)
    BY <1>4 DEF CreateTimeslotFails
  <1>5. CASE NextWindow(r)
    BY <1>5 DEF NextWindow
  <1>6. CASE CommitAvailability(r)
    BY <1>6 DEF CommitAvailability
  <1>7. CASE CreateMeeting(r)
    BY <1>7 DEF CreateMeeting
  <1>8. CASE SlotTaken(r)
    BY <1>8 DEF SlotTaken
  <1>9. CASE LockTimeslotKey(r)
    BY <1>9 DEF LockTimeslotKey
  <1>10. CASE TimeslotMissing(r)
    BY <1>10 DEF TimeslotMissing
  <1>11. CASE AddMeetingParticipant(r)
    BY <1>11 DEF AddMeetingParticipant
  <1>12. CASE CommitMeeting(r)
    BY <1>12 DEF CommitMeeting
  <1>13. CASE ScanFindsNone(r) \/ ScanFindsRow(r) \/ ScanFailsCheck(r) \/
      LockRow(r) \/ RowGone(r) \/ CommitUpdate(r) \/ CommitDelete(r)
    BY <1>13 DEF ScanFindsNone, ScanFindsRow, ScanFailsCheck, LockRow, RowGone,
        CommitUpdate, CommitDelete
  <1>14. CASE Query(r) \/ ReturnRows(r) \/ Cancel(r) \/ CancelTooLate(r)
    BY <1>14 DEF Query, ReturnRows, Cancel, CancelTooLate
  <1> QED
    BY <1>1, <1>2, <1>3, <1>4, <1>5, <1>6, <1>7, <1>8, <1>9, <1>10, <1>11, <1>12,
        <1>13, <1>14 DEF Moves, Step

\* The loop over the attendees takes each one once.
LEMMA AttendingStep ==
    ASSUME TypeOK, Places, Attending,
           NEW r \in Requests, Moves(r)
    PROVE  Attending'
  <1> USE DEF TypeOK, Places, Attending, PCs, Goto, Finish, Acquire, CanAcquire,
      tables, loops
  <1>1. CASE Accept(r) \/ Reject(r) \/ withTx(r)
    BY <1>1 DEF Accept, Reject, withTx
  <1>2. CASE CreateUser(r) \/ CommitUser(r)
    BY <1>2 DEF CreateUser, CommitUser
  <1>3. CASE CreateTimeslot(r) \/ CreateTimeslotFails(r) \/ NextWindow(r) \/
      CommitAvailability(r)
    BY <1>3 DEF CreateTimeslot, CreateTimeslotFails, NextWindow,
        CommitAvailability
  <1>4. CASE CreateMeeting(r)
    BY <1>4 DEF CreateMeeting
  <1>5. CASE SlotTaken(r)
    BY <1>5 DEF SlotTaken
  <1>6. CASE LockTimeslotKey(r)
    BY <1>6, RequestFields DEF LockTimeslotKey
  <1>7. CASE TimeslotMissing(r)
    BY <1>7 DEF TimeslotMissing
  <1>8. CASE AddMeetingParticipant(r)
    BY <1>8, RequestFields DEF AddMeetingParticipant
  <1>9. CASE CommitMeeting(r)
    BY <1>9 DEF CommitMeeting
  <1>10. CASE ScanFindsNone(r) \/ ScanFindsRow(r) \/ ScanFailsCheck(r) \/
      LockRow(r) \/ RowGone(r) \/ CommitUpdate(r) \/ CommitDelete(r)
    BY <1>10 DEF ScanFindsNone, ScanFindsRow, ScanFailsCheck, LockRow, RowGone,
        CommitUpdate, CommitDelete
  <1>11. CASE Query(r) \/ ReturnRows(r) \/ Cancel(r) \/ CancelTooLate(r)
    BY <1>11 DEF Query, ReturnRows, Cancel, CancelTooLate
  <1> QED
    BY <1>1, <1>2, <1>3, <1>4, <1>5, <1>6, <1>7, <1>8, <1>9, <1>10, <1>11 DEF
        Moves, Step

\* The loop over the windows stays inside them.
LEMMA OfferingStep ==
    ASSUME TypeOK, Places, Offering,
           NEW r \in Requests, Moves(r)
    PROVE  Offering'
  <1> USE DEF TypeOK, Places, Offering, PCs, Goto, Finish, Acquire, CanAcquire,
      tables, loops
  <1>1. CASE Accept(r) \/ Reject(r) \/ withTx(r)
    BY <1>1, RequestFields, ValidByOperation
       DEF Accept, Reject, withTx, ValidCreateTimeslot
  <1>2. CASE CreateUser(r) \/ CommitUser(r)
    BY <1>2 DEF CreateUser, CommitUser
  <1>3. CASE CreateTimeslot(r) \/ CreateTimeslotFails(r) \/ NextWindow(r) \/
      CommitAvailability(r)
    BY <1>3, RequestFields DEF CreateTimeslot, CreateTimeslotFails, NextWindow,
        CommitAvailability
  <1>4. CASE CreateMeeting(r) \/ SlotTaken(r) \/ LockTimeslotKey(r) \/
      TimeslotMissing(r) \/ AddMeetingParticipant(r) \/ CommitMeeting(r)
    BY <1>4 DEF CreateMeeting, SlotTaken, LockTimeslotKey, TimeslotMissing,
        AddMeetingParticipant, CommitMeeting
  <1>5. CASE ScanFindsNone(r) \/ ScanFindsRow(r) \/ ScanFailsCheck(r) \/
      LockRow(r) \/ RowGone(r) \/ CommitUpdate(r) \/ CommitDelete(r)
    BY <1>5 DEF ScanFindsNone, ScanFindsRow, ScanFailsCheck, LockRow, RowGone,
        CommitUpdate, CommitDelete
  <1>6. CASE Query(r) \/ ReturnRows(r) \/ Cancel(r) \/ CancelTooLate(r)
    BY <1>6 DEF Query, ReturnRows, Cancel, CancelTooLate
  <1> QED
    BY <1>1, <1>2, <1>3, <1>4, <1>5, <1>6 DEF Moves, Step

\* What CreateAvailability inserts is its own and its registered user's.
LEMMA InsertedStep ==
    ASSUME TypeOK, Places, Offering, Inserted,
           NEW r \in Requests, Moves(r)
    PROVE  Inserted'
  <1> USE DEF TypeOK, Places, Offering, Inserted, PCs, Goto, Finish, Acquire,
      CanAcquire, tables, loops
  <1>1. CASE Accept(r) \/ Reject(r) \/ withTx(r)
    BY <1>1 DEF Accept, Reject, withTx
  <1>2. CASE CreateUser(r) \/ CommitUser(r)
    BY <1>2 DEF CreateUser, CommitUser
  <1>3. CASE CreateTimeslot(r)
    <2>1. ValidCreateTimeslot(req[r])
      BY <1>3, ValidByOperation DEF CreateTimeslot
    <2>2. next[r] \in DOMAIN req[r].Availability
      BY <1>3, RequestFields DEF CreateTimeslot
    <2>3. ASSUME NEW o \in Requests, NEW s \in created'[o]
          PROVE  s \in created[o] \/ (o = r /\ s = <<r, next[r], slice[r]>>)
      BY <1>3 DEF CreateTimeslot
    <2>4. UNCHANGED <<req, users>> /\ req[r].op = "CreateTimeslot" /\ req[r].UserID \in users
      BY <1>3 DEF CreateTimeslot
    <2> QED
      BY <2>1, <2>2, <2>3, <2>4 DEF ValidCreateTimeslot
  <1>4. CASE CreateTimeslotFails(r)
    BY <1>4 DEF CreateTimeslotFails
  <1>5. CASE NextWindow(r)
    BY <1>5 DEF NextWindow
  <1>6. CASE CommitAvailability(r)
    BY <1>6 DEF CommitAvailability
  <1>7. CASE CreateMeeting(r) \/ SlotTaken(r) \/ LockTimeslotKey(r) \/
      TimeslotMissing(r) \/ AddMeetingParticipant(r) \/ CommitMeeting(r)
    BY <1>7 DEF CreateMeeting, SlotTaken, LockTimeslotKey, TimeslotMissing,
        AddMeetingParticipant, CommitMeeting
  <1>8. CASE ScanFindsNone(r) \/ ScanFindsRow(r) \/ ScanFailsCheck(r) \/
      LockRow(r) \/ RowGone(r) \/ CommitUpdate(r) \/ CommitDelete(r)
    BY <1>8 DEF ScanFindsNone, ScanFindsRow, ScanFailsCheck, LockRow, RowGone,
        CommitUpdate, CommitDelete
  <1>9. CASE Query(r) \/ ReturnRows(r) \/ Cancel(r) \/ CancelTooLate(r)
    BY <1>9 DEF Query, ReturnRows, Cancel, CancelTooLate
  <1> QED
    BY <1>1, <1>2, <1>3, <1>4, <1>5, <1>6, <1>7, <1>8, <1>9 DEF Moves, Step

\* A row is written only after the CHECK constraints passed.
LEMMA CheckedStep ==
    ASSUME TypeOK, Places, Checked,
           NEW r \in Requests, Moves(r)
    PROVE  Checked'
  <1> USE DEF TypeOK, Places, Checked, PCs, SatisfiesChecks, NewVersion,
      TimeslotRow, Goto, Finish, Acquire, CanAcquire, tables, loops
  <1>1. CASE Accept(r) \/ Reject(r) \/ withTx(r)
    BY <1>1 DEF Accept, Reject, withTx
  <1>2. CASE CreateUser(r) \/ CommitUser(r)
    BY <1>2 DEF CreateUser, CommitUser
  <1>3. CASE CreateTimeslot(r) \/ CreateTimeslotFails(r) \/ NextWindow(r) \/
      CommitAvailability(r)
    BY <1>3 DEF CreateTimeslot, CreateTimeslotFails, NextWindow,
        CommitAvailability
  <1>4. CASE CreateMeeting(r) \/ SlotTaken(r) \/ LockTimeslotKey(r) \/
      TimeslotMissing(r) \/ AddMeetingParticipant(r) \/ CommitMeeting(r)
    BY <1>4 DEF CreateMeeting, SlotTaken, LockTimeslotKey, TimeslotMissing,
        AddMeetingParticipant, CommitMeeting
  <1>5. CASE ScanFindsNone(r) \/ ScanFindsRow(r) \/ ScanFailsCheck(r) \/
      LockRow(r) \/ RowGone(r) \/ CommitUpdate(r) \/ CommitDelete(r)
    BY <1>5 DEF ScanFindsNone, ScanFindsRow, ScanFailsCheck, LockRow, RowGone,
        CommitUpdate, CommitDelete
  <1>6. CASE Query(r) \/ ReturnRows(r) \/ Cancel(r) \/ CancelTooLate(r)
    BY <1>6 DEF Query, ReturnRows, Cancel, CancelTooLate
  <1> QED
    BY <1>1, <1>2, <1>3, <1>4, <1>5, <1>6 DEF Moves, Step

\* A listing returns rows of its own kind.
LEMMA ListingTyped ==
    ASSUME TypeOK, NEW q
    PROVE  Listing(q) \subseteq ListedTimeslot \cup ListedMeeting
  <1>1. \A s \in Slots : Exists(s) => timeslots[s] \in Timeslot
    BY DEF TypeOK, Exists
  <1>2. \A m \in Requests : meetings[m] # NoRow => meetings[m] \in Slots
    BY DEF TypeOK
  <1>3. ASSUME NEW u, NEW dateStart, NEW dateEnd, NEW now
        PROVE  ListAllottedTimeslots(u, dateStart, dateEnd, now) \subseteq ListedTimeslot
    <2>1. \A s \in Slots : Booked(s) \in BOOLEAN
      BY DEF Booked
    <2>2. ASSUME NEW row \in ListAllottedTimeslots(u, dateStart, dateEnd, now)
          PROVE  row \in ListedTimeslot
      <3>1. PICK s \in Slots : /\ Exists(s)
                              /\ row = [timeslot_id |-> s, timeslot |-> timeslots[s],
                                        is_booked |-> Booked(s)]
        BY DEF ListAllottedTimeslots
      <3> QED
        BY <1>1, <2>1, <3>1 DEF ListedTimeslot
    <2> QED
      BY <2>2
  <1>4. ASSUME NEW u
        PROVE  ListCalendarMeetings(u) \subseteq ListedMeeting
    BY <1>1, <1>2 DEF TypeOK, ListCalendarMeetings, ListedMeeting, Timeslot
  <1> QED
    BY <1>3, <1>4 DEF Listing

\* Every step keeps the types.  That an UPDATE still has a row to build on rests on
\* the locks, and that a slice has a name on the bounds.
LEMMA TypeStep ==
    ASSUME TypeOK, Places, Attending, Offering, Inserted, Checked, LocksExclude,
           NEW r \in Requests, Moves(r)
    PROVE  TypeOK'
  <1> USE DEF TypeOK, Places, PCs, Statuses, Users, Goto, Finish, Acquire,
      CanAcquire, tables, loops
  <1>1. CASE Accept(r) \/ Reject(r) \/ withTx(r)
    BY <1>1 DEF Accept, Reject, withTx
  <1>2. CASE CreateUser(r) \/ CommitUser(r)
    BY <1>2 DEF CreateUser, CommitUser
  <1>3. CASE CreateTimeslot(r)
    <2>1. ValidCreateTimeslot(req[r])
      BY <1>3, ValidByOperation DEF CreateTimeslot
    <2>2. next[r] \in DOMAIN req[r].Availability
      BY <1>3, RequestFields DEF CreateTimeslot, Offering
    <2>3. <<r, next[r], slice[r]>> \in NewSlots
      BY <1>3, <2>1, <2>2, SliceInBounds DEF CreateTimeslot
    <2> QED
      BY <1>3, <2>3 DEF CreateTimeslot
  <1>4. CASE CreateTimeslotFails(r)
    BY <1>4 DEF CreateTimeslotFails
  <1>5. CASE NextWindow(r)
    <2>1. next' \in [Requests -> Nat \ {0}] /\ slice' \in [Requests -> Nat \ {0}]
      BY <1>5 DEF NextWindow
    <2>2. pc' \in [Requests -> PCs]
      <3>1. pc' = pc \/ pc' = [pc EXCEPT ![r] = "commit"]
        BY <1>5 DEF NextWindow
      <3> QED
        BY <3>1
    <2> QED
      BY <1>5, <2>1, <2>2 DEF NextWindow
  <1>6. CASE CommitAvailability(r)
    <2>1. ASSUME NEW s \in created[r]
          PROVE  SliceRow(req[r], s[2], s[3]) \in Timeslot
      <3>1. s[3] \in Nat \ {0}
        BY SchemaAssumption DEF NewSlots
      <3> QED
        BY <3>1, SliceRowGood DEF Inserted
    <2>2. timeslots' \in [Slots -> Timeslot \cup {NoRow}]
      BY <1>6, <2>1 DEF CommitAvailability
    <2> QED
      BY <1>6, <2>2 DEF CommitAvailability
  <1>7. CASE CreateMeeting(r)
    BY <1>7 DEF CreateMeeting
  <1>8. CASE SlotTaken(r)
    BY <1>8 DEF SlotTaken
  <1>9. CASE LockTimeslotKey(r)
    BY <1>9 DEF LockTimeslotKey
  <1>10. CASE TimeslotMissing(r)
    BY <1>10 DEF TimeslotMissing
  <1>11. CASE AddMeetingParticipant(r)
    <2>1. next' \in [Requests -> Nat \ {0}]
      BY <1>11 DEF AddMeetingParticipant
    <2>2. pc' \in [Requests -> PCs]
      <3>1. pc' = pc \/ pc' = [pc EXCEPT ![r] = "commit"]
        BY <1>11 DEF AddMeetingParticipant
      <3> QED
        BY <3>1
    <2> QED
      BY <1>11, <2>1, <2>2 DEF AddMeetingParticipant
  <1>12. CASE CommitMeeting(r)
    <2>1. /\ req[r].TimeslotID \in Slots
          /\ req[r].Attendees \in Seq(Emails)
          /\ next[r] = Len(req[r].Attendees) + 1
      BY <1>12, RequestFields, ValidSlot DEF CommitMeeting, Attending
    <2>2. {req[r].Attendees[j] : j \in 1 .. (next[r] - 1)} \subseteq Emails
      BY <2>1
    <2> QED
      BY <1>12, <2>1, <2>2 DEF CommitMeeting
  <1>13. CASE ScanFindsNone(r)
    BY <1>13 DEF ScanFindsNone
  <1>14. CASE ScanFindsRow(r)
    BY <1>14 DEF ScanFindsRow
  <1>15. CASE ScanFailsCheck(r)
    BY <1>15 DEF ScanFailsCheck
  <1>16. CASE LockRow(r)
    BY <1>16 DEF LockRow
  <1>17. CASE RowGone(r)
    BY <1>17 DEF RowGone
  <1>18. CASE CommitUpdate(r)
    <2>1. req[r].TimeslotID \in Slots
      BY <1>18, ValidSlot DEF CommitUpdate
    <2>2. Exists(req[r].TimeslotID)
      BY <1>18, <2>1 DEF CommitUpdate, LocksExclude, HasWritten, HasUpdated, On
    <2>3. ValidUpdateTimeslot(req[r])
      BY <1>18, ValidByOperation DEF CommitUpdate
    <2>4. NewVersion(r, req[r].TimeslotID) \in Timeslot
      BY <1>18, <2>1, <2>2, <2>3, NewVersionGood DEF CommitUpdate, Checked
    <2> QED
      BY <1>18, <2>1, <2>4 DEF CommitUpdate
  <1>19. CASE CommitDelete(r)
    <2>1. timeslots' \in [Slots -> Timeslot \cup {NoRow}]
      BY <1>19 DEF CommitDelete
    <2>2. /\ meetings' \in [Requests -> Slots \cup {NoRow}]
          /\ participants' \in [Requests -> SUBSET Emails]
      BY <1>19 DEF CommitDelete
    <2> QED
      BY <1>19, <2>1, <2>2 DEF CommitDelete
  <1>20. CASE ReturnRows(r) \/ Cancel(r) \/ CancelTooLate(r)
    BY <1>20 DEF ReturnRows, Cancel, CancelTooLate
  <1>21. CASE Query(r)
    <2>1. rows' \in [Requests -> SUBSET (ListedTimeslot \cup ListedMeeting)]
      BY <1>21, ListingTyped DEF Query
    <2> QED
      BY <1>21, <2>1 DEF Query
  <1> QED
    BY <1>1, <1>2, <1>3, <1>4, <1>5, <1>6, <1>7, <1>8, <1>9, <1>10, <1>11, <1>12,
        <1>13, <1>14, <1>15, <1>16, <1>17, <1>18, <1>19, <1>20, <1>21 DEF Moves, Step

-----------------------------------------------------------------------------
(* What each commit writes.                                                *)

\* CreateAvailability writes good rows of a registered user, and no others.
LEMMA AvailabilityCommitted ==
    ASSUME TypeOK, Inserted, NEW r \in Requests, CommitAvailability(r)
    PROVE  /\ \A s \in created[r] :
                 /\ timeslots'[s] # NoRow
                 /\ timeslots'[s].user_id = req[r].UserID
                 /\ req[r].UserID \in users
                 /\ SatisfiesChecks(timeslots'[s])
                 /\ s \in NewSlots /\ s[1] = r
           /\ \A s \in Slots \ created[r] : timeslots'[s] = timeslots[s]
  <1>1. ASSUME NEW s \in created[r]
        PROVE  /\ timeslots'[s] # NoRow
               /\ timeslots'[s].user_id = req[r].UserID
               /\ req[r].UserID \in users
               /\ SatisfiesChecks(timeslots'[s])
               /\ s \in NewSlots /\ s[1] = r
    <2>1. s \in NewSlots /\ s[3] \in Nat \ {0}
      BY SchemaAssumption DEF TypeOK, NewSlots
    <2>2. /\ ValidCreateTimeslot(req[r]) /\ s[2] \in DOMAIN req[r].Availability
          /\ req[r].UserID \in users /\ s[1] = r
      BY DEF Inserted
    <2>3. timeslots'[s] = SliceRow(req[r], s[2], s[3])
      BY <2>1 DEF CommitAvailability, Slots
    <2>4. req[r] \in Request
      BY DEF TypeOK
    <2> QED
      BY <2>1, <2>2, <2>3, <2>4, SliceRowGood
  <1>2. \A s \in Slots \ created[r] : timeslots'[s] = timeslots[s]
    BY DEF CommitAvailability
  <1> QED
    BY <1>1, <1>2

\* BookMeeting writes one whole meeting, on a timeslot that exists and is free.
LEMMA MeetingCommitted ==
    ASSUME TypeOK, Places, Attending, LocksExclude, NEW r \in Requests, CommitMeeting(r)
    PROVE  /\ req[r].TimeslotID \in Slots
           /\ Exists(req[r].TimeslotID)
           /\ ~Booked(req[r].TimeslotID)
           /\ meetings'[r] = req[r].TimeslotID
           /\ participants'[r] =
                 {req[r].Attendees[j] : j \in DOMAIN req[r].Attendees}
           /\ \A m \in Requests \ {r} : /\ meetings'[m] = meetings[m]
                                        /\ participants'[m] = participants[m]
  <1>1. /\ pc[r] = "commit" /\ req[r].op = "CreateMeeting"
        /\ req[r].TimeslotID \in Slots
    BY ValidSlot DEF TypeOK, Places, CommitMeeting
  <1>2. Exists(req[r].TimeslotID) /\ ~Booked(req[r].TimeslotID)
    BY <1>1 DEF LocksExclude, HasEntered, HoldsKeyShare, On
  <1>3. /\ next[r] = Len(req[r].Attendees) + 1
        /\ req[r].Attendees \in Seq(Emails)
    BY <1>1, RequestFields DEF TypeOK, Attending
  <1>4. 1 .. (next[r] - 1) = DOMAIN req[r].Attendees
    BY <1>3
  <1> QED
    BY <1>1, <1>2, <1>4 DEF TypeOK, CommitMeeting

\* UpdateTimeslot writes a good row in the place of the same user's.
LEMMA UpdateCommitted ==
    ASSUME TypeOK, Places, Checked, LocksExclude, NEW r \in Requests, CommitUpdate(r)
    PROVE  LET s == req[r].TimeslotID
           IN  /\ s \in Slots
               /\ Exists(s)
               /\ timeslots'[s] # NoRow
               /\ timeslots'[s].user_id = timeslots[s].user_id
               /\ SatisfiesChecks(timeslots'[s])
               /\ \A x \in Slots \ {s} : timeslots'[x] = timeslots[x]
  <1>1. /\ pc[r] = "commit" /\ req[r].op = "UpdateTimeslot"
        /\ req[r].TimeslotID \in Slots
        /\ Valid(req[r])
    BY ValidSlot DEF TypeOK, Places, CommitUpdate
  <1>2. Exists(req[r].TimeslotID)
    BY <1>1 DEF LocksExclude, HasWritten, HasUpdated, On
  <1>3. ValidUpdateTimeslot(req[r])
    BY <1>1, ValidByOperation
  <1>4. PgTime(req[r].EndAt) > PgTime(req[r].StartAt)
    BY <1>1 DEF Checked
  <1>5. timeslots' = [timeslots EXCEPT
                          ![req[r].TimeslotID] = NewVersion(r, req[r].TimeslotID)]
    BY DEF CommitUpdate
  <1> QED
    BY <1>1, <1>2, <1>3, <1>4, <1>5, NewVersionGood DEF TypeOK

\* DeleteTimeslot removes one timeslot and what is booked on it.
LEMMA DeleteCommitted ==
    ASSUME TypeOK, Places, LocksExclude, NEW r \in Requests, CommitDelete(r)
    PROVE  LET s == req[r].TimeslotID
           IN  /\ s \in Slots
               /\ HasDeleted(r, s)
               /\ Exists(s)
               /\ timeslots'[s] = NoRow
               /\ \A x \in Slots \ {s} : timeslots'[x] = timeslots[x]
               /\ \A m \in Requests :
                     IF meetings[m] = s
                       THEN meetings'[m] = NoRow /\ participants'[m] = {}
                       ELSE /\ meetings'[m] = meetings[m]
                            /\ participants'[m] = participants[m]
  <1>1. /\ pc[r] = "commit" /\ req[r].op = "DeleteTimeslot"
        /\ req[r].TimeslotID \in Slots
    BY ValidSlot DEF TypeOK, Places, CommitDelete
  <1>2. HasDeleted(r, req[r].TimeslotID) /\ Exists(req[r].TimeslotID)
    BY <1>1 DEF LocksExclude, HasWritten, HasDeleted, On
  <1> QED
    BY <1>1, <1>2 DEF TypeOK, CommitDelete

-----------------------------------------------------------------------------
(* Locks.                                                                  *)

\* A step after which no request holds a lock it did not hold.
NoNewLocks ==
    \A o \in Requests, s \in Slots :
        /\ HasEntered(o, s)' => HasEntered(o, s)
        /\ HoldsKeyShare(o, s)' => HoldsKeyShare(o, s)
        /\ HasDeleted(o, s)' => HasDeleted(o, s)
        /\ HasWritten(o, s)' => HasWritten(o, s)

\* Such a step disturbs nobody, unless it books or removes a timeslot.
LEMMA LocksReleased ==
    ASSUME LocksExclude, NoNewLocks,
           \A s \in Slots : /\ Booked(s)' => Booked(s)
                            /\ Exists(s) => Exists(s)'
    PROVE  LocksExclude'
  BY DEF LocksExclude, NoNewLocks

\* Which moves take no lock.
LEMMA NoLockTaken ==
    ASSUME Places, NEW r \in Requests, UNCHANGED req,
           \A o \in Requests \ {r} : pc'[o] = pc[o],
           \/ pc'[r] \notin {"fkey", "people", "commit"}
           \/ pc'[r] = pc[r]
           \/ pc'[r] = "commit" /\ pc[r] = "people"
           \/ pc'[r] = "commit" /\ req[r].op \in {"CreateUser", "CreateTimeslot"}
    PROVE  NoNewLocks
  BY DEF Places, NoNewLocks, HasEntered, HoldsKeyShare, HasUpdated, HasDeleted,
         HasWritten, On

\* What is read from the tables stays as it is when they do.
LEMMA TablesUnchanged ==
    ASSUME UNCHANGED <<timeslots, meetings>>
    PROVE  \A s \in Slots : (Booked(s)' <=> Booked(s)) /\ (Exists(s)' <=> Exists(s))
  BY DEF Booked, Exists

\* Every step respects the locks of the others.
LEMMA LocksStep ==
    ASSUME TypeOK, Places, Inserted, Checked, Attending, LocksExclude,
           NEW r \in Requests, Moves(r)
    PROVE  LocksExclude'
  <1> USE DEF TypeOK, PCs, Goto, Finish, Acquire, CanAcquire, tables, loops
  <1>1. CASE \/ Accept(r) \/ Reject(r) \/ withTx(r) \/ CreateUser(r)
             \/ CreateTimeslotFails(r) \/ SlotTaken(r) \/ TimeslotMissing(r)
             \/ ScanFindsNone(r) \/ ScanFindsRow(r) \/ ScanFailsCheck(r)
             \/ RowGone(r) \/ Query(r) \/ ReturnRows(r) \/ Cancel(r)
    <2>1. /\ UNCHANGED <<req, timeslots, meetings>>
          /\ \A o \in Requests \ {r} : pc'[o] = pc[o]
      BY <1>1 DEF Accept, Reject, withTx, CreateUser, CreateTimeslotFails, SlotTaken,
          TimeslotMissing, ScanFindsNone, ScanFindsRow, ScanFailsCheck, RowGone, Query,
          ReturnRows, Cancel
    <2>2. \/ pc'[r] \in {"acquire", "insert", "write", "read", "done"}
          \/ pc'[r] = "commit" /\ req[r].op = "CreateUser"
      BY <1>1 DEF Accept, Reject, withTx, CreateUser, CreateTimeslotFails, SlotTaken,
          TimeslotMissing, ScanFindsNone, ScanFindsRow, ScanFailsCheck, RowGone, Query,
          ReturnRows, Cancel
    <2> QED
      BY <2>1, <2>2, NoLockTaken, TablesUnchanged, LocksReleased
  <1>2. CASE \/ CreateTimeslot(r) \/ NextWindow(r) \/ AddMeetingParticipant(r)
             \/ CancelTooLate(r)
    <2>1. /\ UNCHANGED <<req, timeslots, meetings>>
          /\ \A o \in Requests \ {r} : pc'[o] = pc[o]
      BY <1>2 DEF CreateTimeslot, NextWindow, AddMeetingParticipant, CancelTooLate
    <2>2. \/ pc'[r] = pc[r]
          \/ pc'[r] = "commit" /\ pc[r] = "people"
          \/ pc'[r] = "commit" /\ req[r].op = "CreateTimeslot"
      BY <1>2 DEF CreateTimeslot, NextWindow, AddMeetingParticipant, CancelTooLate
    <2> QED
      BY <2>1, <2>2, NoLockTaken, TablesUnchanged, LocksReleased
  <1>3. CASE CommitUser(r) \/ CommitAvailability(r) \/ CommitUpdate(r)
    <2>1. /\ UNCHANGED <<req, meetings>> /\ pc'[r] = "done"
          /\ \A o \in Requests \ {r} : pc'[o] = pc[o]
      BY <1>3 DEF CommitUser, CommitAvailability, CommitUpdate
    <2>2. \A s \in Slots : Exists(s) => Exists(s)'
      <3>1. CASE CommitUser(r)
        BY <3>1 DEF CommitUser, Exists
      <3>2. CASE CommitAvailability(r)
        BY <3>2, AvailabilityCommitted DEF Exists
      <3>3. CASE CommitUpdate(r)
        BY <3>3, UpdateCommitted DEF Exists
      <3> QED
        BY <1>3, <3>1, <3>2, <3>3
    <2> QED
      BY <2>1, <2>2, NoLockTaken, LocksReleased DEF Booked
  <1>4. CASE CreateMeeting(r)
    <2>1. /\ req[r].TimeslotID \in Slots /\ pc'[r] = "fkey" /\ pc[r] = "insert"
          /\ req[r].op = "CreateMeeting"
          /\ UNCHANGED <<req, timeslots, meetings>>
          /\ \A o \in Requests \ {r} : pc'[o] = pc[o]
      BY <1>4, ValidSlot DEF CreateMeeting, Places
    <2>2. /\ ~Booked(req[r].TimeslotID)
          /\ \A o \in Requests \ {r} : ~HasEntered(o, req[r].TimeslotID)
      BY <1>4 DEF CreateMeeting, UniqueMustWait
    <2>3. \A o \in Requests, s \in Slots :
             /\ HasEntered(o, s)' =>
                   HasEntered(o, s) \/ (o = r /\ s = req[r].TimeslotID)
             /\ HoldsKeyShare(o, s)' => HoldsKeyShare(o, s)
             /\ HasDeleted(o, s)' => HasDeleted(o, s)
             /\ HasWritten(o, s)' => HasWritten(o, s)
      BY <2>1 DEF HasEntered, HoldsKeyShare, HasUpdated, HasDeleted, HasWritten, On
    <2> QED
      BY <2>1, <2>2, <2>3, TablesUnchanged DEF LocksExclude
  <1>5. CASE LockTimeslotKey(r)
    <2>1. /\ req[r].TimeslotID \in Slots /\ pc[r] = "fkey"
          /\ pc'[r] \in {"people", "commit"}
          /\ req[r].op = "CreateMeeting"
          /\ UNCHANGED <<req, timeslots, meetings>>
          /\ \A o \in Requests \ {r} : pc'[o] = pc[o]
      BY <1>5, ValidSlot DEF LockTimeslotKey, Places
    <2>2. /\ Exists(req[r].TimeslotID)
          /\ \A o \in Requests : ~HasDeleted(o, req[r].TimeslotID)
      BY <1>5, <2>1 DEF LockTimeslotKey, KeyShareMustWait, HasDeleted
    <2>3. \A o \in Requests, s \in Slots :
             /\ HasEntered(o, s)' => HasEntered(o, s)
             /\ HoldsKeyShare(o, s)' =>
                   HoldsKeyShare(o, s) \/ (o = r /\ s = req[r].TimeslotID)
             /\ HasDeleted(o, s)' => HasDeleted(o, s)
             /\ HasWritten(o, s)' => HasWritten(o, s)
      BY <2>1 DEF HasEntered, HoldsKeyShare, HasUpdated, HasDeleted, HasWritten, On
    <2> QED
      BY <2>1, <2>2, <2>3, TablesUnchanged DEF LocksExclude
  <1>6. CASE CommitMeeting(r)
    <2>1. /\ pc[r] = "commit" /\ req[r].op = "CreateMeeting" /\ pc'[r] = "done"
          /\ UNCHANGED <<req, timeslots>>
          /\ \A o \in Requests \ {r} : pc'[o] = pc[o]
      BY <1>6 DEF CommitMeeting
    <2>2. \A s \in Slots : Booked(s)' => Booked(s) \/ s = req[r].TimeslotID
      BY <1>6, MeetingCommitted DEF Booked
    <2>3. HasEntered(r, req[r].TimeslotID) /\ req[r].TimeslotID \in Slots
      BY <1>6, <2>1, MeetingCommitted DEF HasEntered, On
    <2>4. NoNewLocks /\ \A s \in Slots : ~HasEntered(r, s)'
      BY <2>1, NoLockTaken DEF HasEntered
    <2>5. \A s \in Slots : Exists(s)' <=> Exists(s)
      BY <2>1 DEF Exists
    <2> QED
      BY <2>2, <2>3, <2>4, <2>5 DEF LocksExclude, NoNewLocks
  <1>7. CASE LockRow(r)
    <2>1. /\ req[r].TimeslotID \in Slots
          /\ pc[r] = "write" /\ pc'[r] = "commit"
          /\ req[r].op \in {"UpdateTimeslot", "DeleteTimeslot"}
          /\ UNCHANGED <<req, timeslots, meetings>>
          /\ \A o \in Requests \ {r} : pc'[o] = pc[o]
      BY <1>7, ValidSlot DEF LockRow, Places
    <2>2. /\ Exists(req[r].TimeslotID)
          /\ \A o \in Requests \ {r} :
                /\ ~HasWritten(o, req[r].TimeslotID)
                /\ req[r].op = "DeleteTimeslot" => ~HoldsKeyShare(o, req[r].TimeslotID)
      BY <1>7, <2>1 DEF LockRow, MustWait, UpdateMustWait, DeleteMustWait
    <2>3. \A o \in Requests, s \in Slots :
             /\ HasEntered(o, s)' => HasEntered(o, s)
             /\ HoldsKeyShare(o, s)' => HoldsKeyShare(o, s) /\ o # r
             /\ HasDeleted(o, s)' =>
                   \/ HasDeleted(o, s)
                   \/ o = r /\ s = req[r].TimeslotID /\ req[r].op = "DeleteTimeslot"
             /\ HasWritten(o, s)' =>
                   HasWritten(o, s) \/ (o = r /\ s = req[r].TimeslotID)
      BY <2>1 DEF HasEntered, HoldsKeyShare, HasUpdated, HasDeleted, HasWritten, On
    <2> QED
      BY <2>1, <2>2, <2>3, TablesUnchanged DEF LocksExclude
  <1>8. CASE CommitDelete(r)
    <2>1. /\ pc[r] = "commit" /\ pc'[r] = "done"
          /\ UNCHANGED req
          /\ \A o \in Requests \ {r} : pc'[o] = pc[o]
      BY <1>8 DEF CommitDelete
    <2>2. NoNewLocks /\ \A s \in Slots : ~HasWritten(r, s)' /\ ~HasDeleted(r, s)'
      BY <2>1, NoLockTaken DEF HasWritten, HasUpdated, HasDeleted
    <2> DEFINE gone == req[r].TimeslotID
    <2>3. /\ gone \in Slots /\ HasDeleted(r, gone) /\ HasWritten(r, gone)
          /\ \A x \in Slots \ {gone} : Exists(x)' <=> Exists(x)
      BY <1>8, DeleteCommitted DEF Exists, HasWritten
    <2>4. \A s \in Slots : Booked(s)' => Booked(s)
      BY <1>8, DeleteCommitted, SchemaAssumption DEF Booked
    <2> QED
      BY <2>2, <2>3, <2>4 DEF LocksExclude, NoNewLocks
  <1> QED
    BY <1>1, <1>2, <1>3, <1>4, <1>5, <1>6, <1>7, <1>8 DEF Moves, Step

-----------------------------------------------------------------------------
(* The tables.                                                             *)

Commits(r) ==
    \/ CommitUser(r) \/ CommitAvailability(r) \/ CommitMeeting(r)
    \/ CommitUpdate(r) \/ CommitDelete(r)

\* Only commits write the tables, no request that has ended moves, and a move
\* leaves the others where they are.
LEMMA MoveFrame ==
    ASSUME TypeOK, NEW r \in Requests, Moves(r)
    PROVE  /\ UNCHANGED req
           /\ pc[r] # "done"
           /\ \A o \in Requests \ {r} : pc'[o] = pc[o] /\ status'[o] = status[o]
           /\ UNCHANGED tables \/ Commits(r)
  <1> USE DEF TypeOK, PCs, Goto, Finish, Acquire, CanAcquire, tables, loops, Commits
  <1>1. CASE Accept(r) \/ Reject(r) \/ withTx(r) \/ CreateUser(r)
    BY <1>1 DEF Accept, Reject, withTx, CreateUser
  <1>2. CASE CreateTimeslot(r) \/ CreateTimeslotFails(r) \/ NextWindow(r)
    BY <1>2 DEF CreateTimeslot, CreateTimeslotFails, NextWindow
  <1>3. CASE CreateMeeting(r) \/ SlotTaken(r) \/ LockTimeslotKey(r)
    BY <1>3 DEF CreateMeeting, SlotTaken, LockTimeslotKey
  <1>4. CASE TimeslotMissing(r) \/ AddMeetingParticipant(r)
    BY <1>4 DEF TimeslotMissing, AddMeetingParticipant
  <1>5. CASE ScanFindsNone(r) \/ ScanFindsRow(r) \/ ScanFailsCheck(r)
    BY <1>5 DEF ScanFindsNone, ScanFindsRow, ScanFailsCheck
  <1>6. CASE LockRow(r) \/ RowGone(r)
    BY <1>6 DEF LockRow, RowGone
  <1>7. CASE Query(r) \/ ReturnRows(r) \/ Cancel(r) \/ CancelTooLate(r)
    BY <1>7 DEF Query, ReturnRows, Cancel, CancelTooLate
  <1>8. CASE CommitUser(r) \/ CommitAvailability(r) \/ CommitMeeting(r)
    BY <1>8 DEF CommitUser, CommitAvailability, CommitMeeting
  <1>9. CASE CommitUpdate(r) \/ CommitDelete(r)
    BY <1>9 DEF CommitUpdate, CommitDelete
  <1> QED
    BY <1>1, <1>2, <1>3, <1>4, <1>5, <1>6, <1>7, <1>8, <1>9 DEF Moves, Step

\* The transaction commits and ends.
LEMMA CommitEnds ==
    ASSUME TypeOK, NEW r \in Requests, Commits(r)
    PROVE  pc[r] = "commit" /\ pc'[r] = "done"
  BY DEF TypeOK, Commits, CommitUser, CommitAvailability, CommitMeeting, CommitUpdate,
         CommitDelete, Goto, Finish

\* A meeting and a new timeslot appear only as their request ends.
LEMMA SettledStep ==
    ASSUME TypeOK, Places, Attending, Inserted, Checked, LocksExclude, Settled,
           NEW r \in Requests, Moves(r)
    PROVE  Settled'
  <1>1. /\ UNCHANGED req /\ pc[r] # "done"
        /\ \A o \in Requests \ {r} : pc'[o] = pc[o]
    BY MoveFrame
  <1>2. CASE UNCHANGED tables
    BY <1>1, <1>2 DEF Settled, tables, Exists, NewSlots
  <1>3. CASE CommitUser(r)
    BY <1>1, <1>3 DEF Settled, CommitUser, Exists, NewSlots
  <1>4. CASE CommitAvailability(r)
    <2>1. UNCHANGED meetings /\ pc'[r] = "done"
      BY <1>4, CommitEnds DEF CommitAvailability, Commits
    <2>2. \A s \in NewSlots : Exists(s)' => Exists(s) \/ s[1] = r
      BY <1>4, AvailabilityCommitted DEF Exists, Slots
    <2> QED
      BY <1>1, <2>1, <2>2 DEF Settled, NewSlots
  <1>5. CASE CommitMeeting(r)
    <2>1. UNCHANGED timeslots /\ pc'[r] = "done" /\ req[r].op = "CreateMeeting"
      BY <1>5, CommitEnds DEF CommitMeeting, Commits
    <2> QED
      BY <1>1, <1>5, <2>1, MeetingCommitted DEF Settled, Exists, NewSlots
  <1>6. CASE CommitUpdate(r)
    <2>1. UNCHANGED meetings
      BY <1>6 DEF CommitUpdate
    <2>2. \A s \in NewSlots : Exists(s)' => Exists(s)
      BY <1>6, UpdateCommitted DEF Exists, Slots
    <2> QED
      BY <1>1, <2>1, <2>2 DEF Settled, NewSlots
  <1>7. CASE CommitDelete(r)
    <2>1. \A m \in Requests : meetings'[m] # NoRow => meetings'[m] = meetings[m]
      BY <1>7, DeleteCommitted
    <2>2. \A s \in NewSlots : Exists(s)' => Exists(s)
      BY <1>7, DeleteCommitted DEF Exists, Slots
    <2> QED
      BY <1>1, <2>1, <2>2 DEF Settled, NewSlots
  <1> QED
    BY <1>2, <1>3, <1>4, <1>5, <1>6, <1>7, MoveFrame DEF Commits

\* No row is left dangling.
LEMMA ReferentialStep ==
    ASSUME TypeOK, Places, Attending, Inserted, Checked, LocksExclude,
           ReferentialIntegrity, NEW r \in Requests, Moves(r)
    PROVE  ReferentialIntegrity'
  <1> USE DEF ReferentialIntegrity
  <1>1. CASE UNCHANGED tables
    BY <1>1 DEF tables, Exists
  <1>2. CASE CommitUser(r)
    BY <1>2 DEF CommitUser, Exists
  <1>3. CASE CommitAvailability(r)
    <2>1. UNCHANGED <<users, meetings, participants>>
      BY <1>3 DEF CommitAvailability
    <2>2. \A s \in Slots : /\ Exists(s) => Exists(s)'
                           /\ Exists(s)' => timeslots'[s].user_id \in users
      BY <1>3, AvailabilityCommitted DEF Exists
    <2> QED
      BY <2>1, <2>2, SchemaAssumption DEF TypeOK
  <1>4. CASE CommitMeeting(r)
    <2>1. UNCHANGED <<users, timeslots>>
      BY <1>4 DEF CommitMeeting
    <2> QED
      BY <1>4, <2>1, MeetingCommitted, SchemaAssumption DEF TypeOK, Exists
  <1>5. CASE CommitUpdate(r)
    <2>1. UNCHANGED <<users, meetings, participants>>
      BY <1>5 DEF CommitUpdate
    <2>2. \A s \in Slots : /\ Exists(s)' <=> Exists(s)
                           /\ Exists(s)' => timeslots'[s].user_id = timeslots[s].user_id
      BY <1>5, UpdateCommitted DEF Exists
    <2> QED
      BY <2>1, <2>2, SchemaAssumption DEF TypeOK
  <1>6. CASE CommitDelete(r)
    <2>1. UNCHANGED users
      BY <1>6 DEF CommitDelete
    <2> QED
      BY <1>6, <2>1, DeleteCommitted, SchemaAssumption DEF TypeOK, Exists
  <1> QED
    BY <1>1, <1>2, <1>3, <1>4, <1>5, <1>6, MoveFrame DEF Commits

\* A second meeting never joins a first.
LEMMA UniqueStep ==
    ASSUME TypeOK, Places, Attending, LocksExclude, OneMeetingPerSlot,
           NEW r \in Requests, Moves(r)
    PROVE  OneMeetingPerSlot'
  <1>1. CASE \/ UNCHANGED tables \/ CommitUser(r) \/ CommitAvailability(r)
             \/ CommitUpdate(r)
    BY <1>1 DEF OneMeetingPerSlot, tables, CommitUser, CommitAvailability, CommitUpdate
  <1>2. CASE CommitMeeting(r)
    BY <1>2, MeetingCommitted DEF OneMeetingPerSlot, Booked
  <1>3. CASE CommitDelete(r)
    BY <1>3, DeleteCommitted DEF OneMeetingPerSlot
  <1> QED
    BY <1>1, <1>2, <1>3, MoveFrame DEF Commits

\* A meeting comes with all of its attendees, and keeps them.
LEMMA WholeStep ==
    ASSUME TypeOK, Places, Attending, Checked, LocksExclude, MeetingsAreWhole,
           NEW r \in Requests, Moves(r)
    PROVE  MeetingsAreWhole'
  <1>1. UNCHANGED req
    BY MoveFrame
  <1>2. CASE \/ UNCHANGED tables \/ CommitUser(r) \/ CommitAvailability(r)
             \/ CommitUpdate(r)
    BY <1>1, <1>2 DEF MeetingsAreWhole, tables, CommitUser, CommitAvailability,
        CommitUpdate
  <1>3. CASE CommitMeeting(r)
    BY <1>1, <1>3, MeetingCommitted DEF MeetingsAreWhole
  <1>4. CASE CommitDelete(r)
    BY <1>1, <1>4, DeleteCommitted DEF MeetingsAreWhole
  <1> QED
    BY <1>2, <1>3, <1>4, MoveFrame DEF Commits

\* Every row written passes the CHECK constraints.
LEMMA RowsStep ==
    ASSUME TypeOK, Places, Inserted, Checked, LocksExclude, RowsSatisfyChecks,
           NEW r \in Requests, Moves(r)
    PROVE  RowsSatisfyChecks'
  <1> USE DEF RowsSatisfyChecks, SatisfiesChecks, Exists
  <1>1. CASE UNCHANGED tables \/ CommitUser(r) \/ CommitMeeting(r)
    BY <1>1 DEF tables, CommitUser, CommitMeeting
  <1>2. CASE CommitAvailability(r)
    BY <1>2, AvailabilityCommitted
  <1>3. CASE CommitUpdate(r)
    BY <1>3, UpdateCommitted
  <1>4. CASE CommitDelete(r)
    BY <1>4, DeleteCommitted
  <1> QED
    BY <1>1, <1>2, <1>3, <1>4, MoveFrame DEF Commits

-----------------------------------------------------------------------------
(* Answers.                                                                *)

\* A booking is answered 201 by its commit and 409 by the unique violation.
LEMMA NewAnswer ==
    ASSUME TypeOK, Places, Answers, NEW r \in Requests, Moves(r),
           req[r].op = "CreateMeeting", status'[r] \in {201, 409}
    PROVE  \/ status'[r] = status[r]
           \/ status'[r] = 201 /\ CommitMeeting(r)
           \/ status'[r] = 409 /\ SlotTaken(r)
  <1> USE DEF TypeOK, PCs, Places, Answers, Goto, Finish, Acquire, CanAcquire
  <1>1. CASE Accept(r) \/ Reject(r) \/ withTx(r) \/ CreateUser(r) \/ CommitUser(r)
    BY <1>1 DEF Accept, Reject, withTx, CreateUser, CommitUser
  <1>2. CASE CreateTimeslot(r) \/ CreateTimeslotFails(r) \/ NextWindow(r) \/
      CommitAvailability(r)
    BY <1>2 DEF CreateTimeslot, CreateTimeslotFails, NextWindow,
        CommitAvailability
  <1>3. CASE CreateMeeting(r) \/ SlotTaken(r) \/ LockTimeslotKey(r)
    BY <1>3 DEF CreateMeeting, SlotTaken, LockTimeslotKey
  <1>4. CASE TimeslotMissing(r) \/ AddMeetingParticipant(r)
    BY <1>4 DEF TimeslotMissing, AddMeetingParticipant
  <1>5. CASE ScanFindsNone(r) \/ ScanFindsRow(r) \/ ScanFailsCheck(r)
    BY <1>5 DEF ScanFindsNone, ScanFindsRow, ScanFailsCheck
  <1>6. CASE LockRow(r) \/ RowGone(r) \/ CommitUpdate(r) \/ CommitDelete(r)
    BY <1>6 DEF LockRow, RowGone, CommitUpdate, CommitDelete
  <1>7. CASE Query(r) \/ ReturnRows(r) \/ Cancel(r) \/ CancelTooLate(r)
    BY <1>7 DEF Query, ReturnRows, Cancel, CancelTooLate
  <1>8. CASE CommitMeeting(r)
    BY <1>8 DEF CommitMeeting
  <1> QED
    BY <1>1, <1>2, <1>3, <1>4, <1>5, <1>6, <1>7, <1>8 DEF Moves, Step

\* What is gone for good stays gone, and what is booked is booked until it goes.
LEMMA GoneForGood ==
    ASSUME TypeOK, Places, Attending, Inserted, Checked, LocksExclude, Settled,
           ReferentialIntegrity, NEW r \in Requests, Moves(r), NEW s \in Slots
    PROVE  /\ Dead(s) => Dead(s)'
           /\ \A m \in Requests : meetings[m] = s => meetings'[m] = s \/ Dead(s)'
           /\ Booked(s) => Booked(s)' \/ Dead(s)'
  <1>1. /\ pc[r] # "done"
        /\ \A o \in Requests \ {r} : pc'[o] = pc[o]
    BY MoveFrame
  <1>2. \A x \in NewSlots : pc[x[1]] = "done" => pc'[x[1]] = "done"
    BY <1>1 DEF NewSlots
  <1>3. Booked(s) => Exists(s)
    BY SchemaAssumption DEF Booked, ReferentialIntegrity
  <1>4. CASE UNCHANGED tables \/ CommitUser(r)
    BY <1>2, <1>4 DEF tables, CommitUser, Dead, Exists, Booked
  <1>5. CASE CommitAvailability(r)
    <2>1. UNCHANGED meetings
      BY <1>5 DEF CommitAvailability
    <2>2. Dead(s) => timeslots'[s] = timeslots[s]
      BY <1>1, <1>5, AvailabilityCommitted DEF Dead
    <2> QED
      BY <1>2, <2>1, <2>2 DEF Dead, Exists, Booked
  <1>6. CASE CommitMeeting(r)
    <2>1. UNCHANGED timeslots
      BY <1>6 DEF CommitMeeting
    <2>2. \A m \in Requests : meetings[m] = s => meetings'[m] = s
      BY <1>1, <1>6, MeetingCommitted, SchemaAssumption DEF Settled
    <2> QED
      BY <1>2, <2>1, <2>2 DEF Dead, Exists, Booked
  <1>7. CASE CommitUpdate(r)
    <2>1. UNCHANGED meetings
      BY <1>7 DEF CommitUpdate
    <2>2. Exists(s)' <=> Exists(s)
      BY <1>7, UpdateCommitted DEF Exists
    <2> QED
      BY <1>2, <2>1, <2>2 DEF Dead, Booked
  <1>8. CASE CommitDelete(r)
    <2>1. CASE s = req[r].TimeslotID
      <3>1. Exists(s) /\ ~Exists(s)'
        BY <1>8, <2>1, DeleteCommitted DEF Exists
      <3>2. s \in NewSlots => pc'[s[1]] = "done"
        BY <1>2, <3>1 DEF Settled
      <3> QED
        BY <3>1, <3>2 DEF Dead
    <2>2. CASE s # req[r].TimeslotID
      <3>1. Exists(s)' <=> Exists(s)
        BY <1>8, <2>2, DeleteCommitted DEF Exists
      <3>2. \A m \in Requests : meetings[m] = s => meetings'[m] = s
        BY <1>8, <2>2, DeleteCommitted
      <3> QED
        BY <1>2, <3>1, <3>2 DEF Dead, Booked
    <2> QED
      BY <2>1, <2>2
  <1> QED
    BY <1>4, <1>5, <1>6, <1>7, <1>8, MoveFrame DEF Commits

\* What a booking was answered stays true.
LEMMA HonestStep ==
    ASSUME TypeOK, Places, Answers, Attending, Inserted, Checked, LocksExclude,
           Settled, ReferentialIntegrity, Honest, NEW r \in Requests, Moves(r)
    PROVE  Honest'
  <1>1. UNCHANGED req /\ \A o \in Requests \ {r} : status'[o] = status[o]
    BY MoveFrame
  <1> SUFFICES ASSUME NEW o \in Requests, req[o].op = "CreateMeeting",
                      status'[o] \in {201, 409}
               PROVE  /\ req[o].TimeslotID \in Slots
                      /\ \A s \in Slots : s = req[o].TimeslotID =>
                            /\ status'[o] = 201 => meetings'[o] = s \/ Dead(s)'
                            /\ status'[o] = 409 => Booked(s)' \/ Dead(s)'
    BY <1>1 DEF Honest, Dead, Booked, Exists
  <1>2. CASE status'[o] = status[o]
    <2>1. req[o].TimeslotID \in Slots
      BY <1>2 DEF Honest
    <2>2. ASSUME NEW s \in Slots, s = req[o].TimeslotID
          PROVE  /\ status'[o] = 201 => meetings'[o] = s \/ Dead(s)'
                 /\ status'[o] = 409 => Booked(s)' \/ Dead(s)'
      <3>1. /\ status[o] = 201 => meetings[o] = s \/ Dead(s)
            /\ status[o] = 409 => Booked(s) \/ Dead(s)
        BY <1>2, <2>2 DEF Honest
      <3> QED
        BY <1>2, <3>1, GoneForGood
    <2> QED
      BY <2>1, <2>2
  <1>3. CASE o = r /\ status'[o] = 201 /\ CommitMeeting(r)
    BY <1>1, <1>3, MeetingCommitted
  <1>4. CASE o = r /\ status'[o] = 409 /\ SlotTaken(r)
    <2>1. req[o].TimeslotID \in Slots
      BY <1>4, ValidSlot DEF TypeOK, SlotTaken, Places
    <2>2. ASSUME NEW s \in Slots, s = req[o].TimeslotID
          PROVE  Booked(s)' \/ Dead(s)'
      <3>1. Booked(s)
        BY <1>4, <2>2 DEF SlotTaken
      <3> QED
        BY <3>1, GoneForGood
    <2> QED
      BY <1>4, <2>1, <2>2
  <1> QED
    BY <1>1, <1>2, <1>3, <1>4, NewAnswer

\* A booking that wins finds nobody who has won before it.
LEMMA WinsStep ==
    ASSUME TypeOK, Places, Answers, Attending, LocksExclude, Honest,
           OnlyOneBookingWins, NEW r \in Requests, Moves(r)
    PROVE  OnlyOneBookingWins'
  <1>1. UNCHANGED req /\ \A o \in Requests \ {r} : status'[o] = status[o]
    BY MoveFrame
  <1>2. ASSUME NEW o \in Requests \ {r}, req[o].op = "CreateMeeting", status[o] = 201,
               req[r].op = "CreateMeeting", req[o].TimeslotID = req[r].TimeslotID,
               CommitMeeting(r)
        PROVE  FALSE
    <2>1. Exists(req[o].TimeslotID) /\ ~Booked(req[o].TimeslotID)
      BY <1>2, MeetingCommitted
    <2> QED
      BY <1>2, <2>1 DEF Honest, Dead, Booked
  <1>3. ASSUME NEW o \in Requests \ {r}, req[o].op = "CreateMeeting", status[o] = 201,
               req[r].op = "CreateMeeting", req[o].TimeslotID = req[r].TimeslotID,
               status'[r] = 201
        PROVE  FALSE
    <2>1. status[r] = 201 \/ CommitMeeting(r)
      BY <1>3, NewAnswer
    <2> QED
      BY <1>2, <1>3, <2>1 DEF OnlyOneBookingWins
  <1> QED
    BY <1>1, <1>3 DEF OnlyOneBookingWins

\* Every step that ends a request, or waits for a connection, holds none.
LEMMA LentStep ==
    ASSUME TypeOK, Lent,
           NEW r \in Requests, Moves(r)
    PROVE  Lent'
  <1> USE DEF TypeOK, Lent, PCs, Goto, Finish, Acquire, CanAcquire, tables, loops
  <1>1. CASE Accept(r) \/ Reject(r) \/ withTx(r)
    BY <1>1 DEF Accept, Reject, withTx
  <1>2. CASE CreateUser(r) \/ CommitUser(r)
    BY <1>2 DEF CreateUser, CommitUser
  <1>3. CASE CreateTimeslot(r) \/ CreateTimeslotFails(r) \/ NextWindow(r) \/
      CommitAvailability(r)
    BY <1>3 DEF CreateTimeslot, CreateTimeslotFails, NextWindow,
        CommitAvailability
  <1>4. CASE CreateMeeting(r) \/ SlotTaken(r) \/ LockTimeslotKey(r) \/
      TimeslotMissing(r) \/ AddMeetingParticipant(r) \/ CommitMeeting(r)
    BY <1>4 DEF CreateMeeting, SlotTaken, LockTimeslotKey, TimeslotMissing,
        AddMeetingParticipant, CommitMeeting
  <1>5. CASE ScanFindsNone(r) \/ ScanFindsRow(r) \/ ScanFailsCheck(r) \/
      LockRow(r) \/ RowGone(r) \/ CommitUpdate(r) \/ CommitDelete(r)
    BY <1>5 DEF ScanFindsNone, ScanFindsRow, ScanFailsCheck, LockRow, RowGone,
        CommitUpdate, CommitDelete
  <1>6. CASE Query(r) \/ ReturnRows(r) \/ Cancel(r) \/ CancelTooLate(r)
    BY <1>6 DEF Query, ReturnRows, Cancel, CancelTooLate
  <1> QED
    BY <1>1, <1>2, <1>3, <1>4, <1>5, <1>6 DEF Moves, Step

\* The pool lends one connection at a time, and only when one is idle.
LEMMA PoolStep ==
    ASSUME TypeOK, Cardinality(conn) <= MaxConns, NEW r \in Requests, Moves(r)
    PROVE  Cardinality(conn') <= MaxConns
  <1>1. IsFiniteSet(conn) /\ Cardinality(conn) \in Nat
    BY SchemaAssumption, FS_Subset, FS_CardinalityType DEF TypeOK
  <1> DEFINE more == conn \cup {r}
             less == conn \ {r}
  <1>2. Cardinality(more) = IF r \in conn THEN Cardinality(conn)
                                          ELSE Cardinality(conn) + 1
    BY <1>1, FS_AddElement
  <1>3. Cardinality(less) = IF r \in conn THEN Cardinality(conn) - 1
                                          ELSE Cardinality(conn)
    BY <1>1, FS_RemoveElement
  <1>4. \/ conn' = conn
        \/ conn' = less
        \/ conn' = more /\ Cardinality(conn) < MaxConns
    BY DEF Moves, Step, Goto, Finish, Acquire, CanAcquire,
       Accept, Reject, withTx, CreateUser, CommitUser, CreateTimeslot,
       CreateTimeslotFails, NextWindow, CommitAvailability, CreateMeeting, SlotTaken,
       LockTimeslotKey, TimeslotMissing, AddMeetingParticipant, CommitMeeting,
       ScanFindsNone, ScanFindsRow, ScanFailsCheck, LockRow, RowGone, CommitUpdate,
       CommitDelete, Query, ReturnRows, Cancel, CancelTooLate
  <1> QED
    <2> HIDE DEF more, less
    <2>1. CASE conn' = conn
      BY <2>1
    <2>2. CASE conn' = less
      BY <1>1, <1>3, <2>2, StoreAssumption
    <2>3. CASE conn' = more /\ Cardinality(conn) < MaxConns
      BY <1>1, <1>2, <2>3, StoreAssumption
    <2> QED
      BY <1>4, <2>1, <2>2, <2>3

-----------------------------------------------------------------------------
(* The invariant, and what follows from it.                                *)

\* Before the first request, no request has done anything.
LEMMA InitInd == Init => IndInv
  <1> SUFFICES ASSUME Init PROVE IndInv
    OBVIOUS
  <1>1. TypeOK
    BY SchemaAssumption, StoreAssumption
       DEF Init, TypeOK, Users, Slots, PCs, Statuses
  <1>2. Places /\ Lent /\ Answers /\ Attending /\ Offering /\ Inserted /\ Checked
    BY <1>1 DEF Init, TypeOK, Places, Lent, Answers, Attending, Offering, Inserted,
       Checked
  <1>3. Settled
    BY SchemaAssumption DEF Init, Settled, Exists, Slots
  <1>4. LocksExclude
    BY DEF Init, LocksExclude, HasEntered, HoldsKeyShare, HasUpdated, HasDeleted,
           HasWritten
  <1>5. \A s \in Slots : Exists(s) =>
           s \in StoredSlots /\ timeslots[s] = StoredTimeslots[s]
    BY DEF Init, Exists
  <1>6. ReferentialIntegrity /\ RowsSatisfyChecks
    BY <1>5, StoreAssumption DEF Init, ReferentialIntegrity, RowsSatisfyChecks
  <1>7. OneMeetingPerSlot /\ MeetingsAreWhole /\ Honest /\ OnlyOneBookingWins
    BY DEF Init, OneMeetingPerSlot, MeetingsAreWhole, Honest, OnlyOneBookingWins
  <1>8. Cardinality(conn) <= MaxConns
    BY FS_EmptySet, StoreAssumption DEF Init
  <1> QED
    BY <1>1, <1>2, <1>3, <1>4, <1>6, <1>7, <1>8 DEF IndInv

\* Every step of a request preserves every part, each by its own lemma above.
LEMMA StepInd == IndInv /\ [Next]_vars => IndInv'
  <1> SUFFICES ASSUME IndInv, [Next]_vars PROVE IndInv'
    OBVIOUS
  <1>1. CASE UNCHANGED vars
    BY <1>1 DEF IndInv, vars, tables, loops, TypeOK, Places, Lent, Answers,
       Attending, Offering, Inserted, Checked, Settled, LocksExclude,
       OneMeetingPerSlot, ReferentialIntegrity, MeetingsAreWhole, RowsSatisfyChecks,
       Honest, OnlyOneBookingWins, Dead, Exists, Booked, HasEntered, HoldsKeyShare,
       HasUpdated, HasDeleted, HasWritten, On
  <1>2. ASSUME NEW r \in Requests, Moves(r)
        PROVE  IndInv'
    BY <1>2, PlacesStep, AnswersStep, AttendingStep, OfferingStep, InsertedStep,
       CheckedStep, TypeStep, LocksStep, SettledStep, UniqueStep, ReferentialStep,
       WholeStep, RowsStep, HonestStep, WinsStep, LentStep, PoolStep DEF IndInv
  <1> QED
    BY <1>1, <1>2 DEF Next, Quiescent, Moves

\* The invariant holds in every reachable state.
THEOREM Invariance == Spec => []IndInv
  BY InitInd, StepInd, PTL DEF Spec

\* Every variable has its type, in every behaviour: no statement builds on a row
\* that is not there, and every slice of every window has a name.
THEOREM TypeCorrect == Spec => []TypeOK
  <1>1. IndInv => TypeOK
    BY DEF IndInv
  <1> QED
    BY <1>1, Invariance, PTL

\* The open transactions keep out of each other's way on every timeslot.
THEOREM LocksAreExclusive == Spec => []LocksExclude
  <1>1. IndInv => LocksExclude
    BY DEF IndInv
  <1> QED
    BY <1>1, Invariance, PTL

\* A timeslot never carries two meetings, whatever bookings race for it.
THEOREM NoDoubleBooking == Spec => []OneMeetingPerSlot
  <1>1. IndInv => OneMeetingPerSlot
    BY DEF IndInv
  <1> QED
    BY <1>1, Invariance, PTL

\* Of all the bookings of one timeslot at most one is ever answered 201.
THEOREM OneWinner == Spec => []OnlyOneBookingWins
  <1>1. IndInv => OnlyOneBookingWins
    BY DEF IndInv
  <1> QED
    BY <1>1, Invariance, PTL

\* No meeting is ever without its timeslot, no timeslot without its user.
THEOREM NothingDangles == Spec => []ReferentialIntegrity
  <1>1. IndInv => ReferentialIntegrity
    BY DEF IndInv
  <1> QED
    BY <1>1, Invariance, PTL

\* A meeting is never seen without some of its attendees.
THEOREM WholeMeetings == Spec => []MeetingsAreWhole
  <1>1. IndInv => MeetingsAreWhole
    BY DEF IndInv
  <1> QED
    BY <1>1, Invariance, PTL

\* Every stored timeslot satisfies the CHECK constraints.
THEOREM GoodRows == Spec => []RowsSatisfyChecks
  <1>1. IndInv => RowsSatisfyChecks
    BY DEF IndInv
  <1> QED
    BY <1>1, Invariance, PTL

\* What a booking was answered stays true until its timeslot is deleted.
THEOREM TrueAnswers == Spec => []AnswersStayTrue
  <1>1. IndInv => AnswersStayTrue
    BY DEF IndInv, Honest, AnswersStayTrue, Dead
  <1> QED
    BY <1>1, Invariance, PTL

\* The pool is never overdrawn, and no answered request keeps a connection.
THEOREM PoolIsBounded == Spec => []ConnectionsReturned
  <1>1. IndInv => ConnectionsReturned
    BY DEF IndInv, TypeOK, Answers, ConnectionsReturned
  <1> QED
    BY <1>1, Invariance, PTL

-----------------------------------------------------------------------------
(* Deletions stand.                                                        *)

\* What was deleted is gone for good, and was deleted once.
Deleted ==
    /\ \A r \in Requests :
          req[r].op = "DeleteTimeslot" /\ status[r] = 204 =>
              req[r].TimeslotID \in Slots /\ Dead(req[r].TimeslotID)
    /\ DeletionsStand

\* A deletion is answered 204 by its commit, which finds the row there.
LEMMA DeletionAnswer ==
    ASSUME IndInv, NEW r \in Requests, Moves(r), req[r].op = "DeleteTimeslot",
           status'[r] = 204
    PROVE  status[r] = 204 \/ CommitDelete(r)
  <1> USE DEF IndInv, TypeOK, PCs, Places, Answers, Goto, Finish, Acquire, CanAcquire
  <1>1. CASE Accept(r) \/ Reject(r) \/ withTx(r) \/ CreateUser(r) \/ CommitUser(r)
    BY <1>1 DEF Accept, Reject, withTx, CreateUser, CommitUser
  <1>2. CASE CreateTimeslot(r) \/ CreateTimeslotFails(r) \/ NextWindow(r) \/
      CommitAvailability(r)
    BY <1>2 DEF CreateTimeslot, CreateTimeslotFails, NextWindow,
        CommitAvailability
  <1>3. CASE CreateMeeting(r) \/ SlotTaken(r) \/ LockTimeslotKey(r)
    BY <1>3 DEF CreateMeeting, SlotTaken, LockTimeslotKey
  <1>4. CASE TimeslotMissing(r) \/ AddMeetingParticipant(r) \/ CommitMeeting(r)
    BY <1>4 DEF TimeslotMissing, AddMeetingParticipant, CommitMeeting
  <1>5. CASE ScanFindsNone(r) \/ ScanFindsRow(r) \/ ScanFailsCheck(r)
    BY <1>5 DEF ScanFindsNone, ScanFindsRow, ScanFailsCheck
  <1>6. CASE LockRow(r) \/ RowGone(r) \/ CommitUpdate(r)
    BY <1>6 DEF LockRow, RowGone, CommitUpdate
  <1>7. CASE Query(r) \/ ReturnRows(r) \/ Cancel(r) \/ CancelTooLate(r)
    BY <1>7 DEF Query, ReturnRows, Cancel, CancelTooLate
  <1> QED
    BY <1>1, <1>2, <1>3, <1>4, <1>5, <1>6, <1>7 DEF Moves, Step

\* No move undoes a deletion or answers a second one of the same timeslot.
LEMMA DeletedStep ==
    ASSUME IndInv, Deleted, NEW r \in Requests, Moves(r)
    PROVE  Deleted'
  <1>1. UNCHANGED req /\ \A o \in Requests \ {r} : status'[o] = status[o]
    BY MoveFrame DEF IndInv
  <1>2. \A s \in Slots : Dead(s) => Dead(s)'
    BY GoneForGood DEF IndInv
  <1>3. CASE CommitDelete(r)
    <2>1. /\ req[r].TimeslotID \in Slots /\ Exists(req[r].TimeslotID)
          /\ ~Exists(req[r].TimeslotID)'
      <3>1. TypeOK /\ Places /\ LocksExclude
        BY DEF IndInv
      <3>2. /\ req[r].TimeslotID \in Slots /\ Exists(req[r].TimeslotID)
            /\ timeslots'[req[r].TimeslotID] = NoRow
        BY <1>3, <3>1, DeleteCommitted
      <3> QED
        BY <1>1, <3>2 DEF Exists
    <2>2. Dead(req[r].TimeslotID)'
      <3>1. req[r].TimeslotID \in NewSlots => pc[req[r].TimeslotID[1]] = "done"
        BY <2>1 DEF IndInv, Settled
      <3>2. \A x \in NewSlots : pc[x[1]] = "done" => pc'[x[1]] = "done"
        BY MoveFrame DEF IndInv, NewSlots
      <3> QED
        BY <1>1, <2>1, <3>1, <3>2 DEF Dead
    <2>3. \A o \in Requests \ {r} :
             On(o, "DeleteTimeslot", req[r].TimeslotID) => status[o] # 204
      BY <2>1 DEF Deleted, DeletionsStand, On
    <2> QED
      BY <1>1, <1>2, <2>1, <2>2, <2>3 DEF Deleted, DeletionsStand, On, Dead
  <1>4. CASE ~CommitDelete(r)
    <2>1. \A o \in Requests :
             req[o].op = "DeleteTimeslot" /\ status'[o] = 204 => status[o] = 204
      BY <1>1, <1>4, DeletionAnswer
    <2> QED
      BY <1>1, <1>2, <2>1 DEF Deleted, DeletionsStand, On, Dead
  <1> QED
    BY <1>3, <1>4

\* A deletion that was answered 204 stands, and is the only one of its timeslot.
THEOREM DeletionsAreFinal == Spec => []DeletionsStand
  <1>1. Init => Deleted
    BY DEF Init, Deleted, DeletionsStand
  <1>2. IndInv /\ Deleted /\ [Next]_vars => Deleted'
    <2> SUFFICES ASSUME IndInv, Deleted, [Next]_vars PROVE Deleted'
      OBVIOUS
    <2>1. CASE UNCHANGED vars
      BY <2>1 DEF vars, tables, Deleted, DeletionsStand, Dead, Exists, On
    <2>2. ASSUME NEW r \in Requests, Moves(r)
          PROVE  Deleted'
      BY <2>2, DeletedStep
    <2> QED
      BY <2>1, <2>2 DEF Next, Quiescent, Moves
  <1>3. Deleted => DeletionsStand
    BY DEF Deleted
  <1> QED
    BY <1>1, <1>2, <1>3, Invariance, PTL DEF Spec

-----------------------------------------------------------------------------
(* Nobody waits in a circle.                                               *)

\* How far a request has got in taking what others wait for.  Everybody takes in
\* this order: a connection, an entry in the unique index, a lock on the row; and
\* who has the last of them waits for nobody.
Grip(r) ==
    CASE pc[r] \in {"idle", "acquire"} -> 0
      [] pc[r] \in {"insert", "write"} -> 1
      [] pc[r] = "fkey" -> 2
      [] OTHER -> 3

\* Whoever waits, waits for requests that have got further, and that are at work.
LEMMA WaitsForFurther ==
    ASSUME TypeOK, Lent, NEW r \in Requests, NEW o \in Requests, WaitsFor(r, o)
    PROVE  /\ AtWork(o) /\ pc[o] # "acquire"
           /\ Grip(o) > Grip(r)
  <1> USE DEF WaitsFor, AtWork, Grip, TypeOK
  <1>1. CASE pc[r] = "acquire" /\ o \in conn
    BY <1>1 DEF Lent
  <1>2. CASE pc[r] = "insert" /\ pc[o] \in {"fkey", "people", "commit"}
    BY <1>2
  <1>3. CASE pc[r] = "fkey" /\ pc[o] = "commit"
    BY <1>3
  <1>4. CASE pc[r] = "write" /\ pc[o] \in {"people", "commit"}
    BY <1>4
  <1> QED
    BY <1>1, <1>2, <1>3, <1>4
       DEF HasEntered, HasDeleted, HasUpdated, HasWritten, HoldsKeyShare

\* Of any requests, one has got furthest.
LEMMA OneIsFurthest ==
    ASSUME NEW S \in SUBSET Requests, S # {}
    PROVE  \E r \in S : \A o \in S : ~(Grip(o) > Grip(r))
  <1>1. \A r \in S : Grip(r) \in {0, 1, 2, 3}
    BY DEF Grip
  <1>2. CASE \E r \in S : Grip(r) = 3
    BY <1>1, <1>2
  <1>3. CASE (\E r \in S : Grip(r) = 2) /\ ~ \E r \in S : Grip(r) = 3
    BY <1>1, <1>3
  <1>4. CASE (\E r \in S : Grip(r) = 1) /\ \A r \in S : Grip(r) \notin {2, 3}
    BY <1>1, <1>4
  <1>5. CASE \A r \in S : Grip(r) \notin {1, 2, 3}
    BY <1>1, <1>5
  <1> QED
    BY <1>2, <1>3, <1>4, <1>5

\* Of any requests at work, one that has got furthest waits for none of them.
LEMMA FurthestIsFree ==
    ASSUME TypeOK, Lent, NEW S \in SUBSET Requests, S # {}
    PROVE  \E r \in S : \A o \in S : ~WaitsFor(r, o)
  <1>1. PICK r \in S : \A o \in S : ~(Grip(o) > Grip(r))
    BY OneIsFurthest
  <1> QED
    BY <1>1, WaitsForFurther

\* Whoever waits, waits for requests at work, and never in a circle.
THEOREM NoDeadlock == Spec => []NoCircularWait
  <1>1. IndInv => NoCircularWait
    <2> SUFFICES ASSUME IndInv PROVE NoCircularWait
      OBVIOUS
    <2>1. TypeOK /\ Lent
      BY DEF IndInv
    <2>2. \A r, o \in Requests : WaitsFor(r, o) => AtWork(o) /\ pc[o] # "acquire"
      BY <2>1, WaitsForFurther
    <2>3. ASSUME NEW S \in SUBSET {r \in Requests : AtWork(r)}, S # {}
          PROVE  \E r \in S : \A o \in S : ~WaitsFor(r, o)
      BY <2>1, <2>3, FurthestIsFree
    <2> QED
      BY <2>2, <2>3 DEF NoCircularWait
  <1> QED
    BY <1>1, Invariance, PTL

-----------------------------------------------------------------------------
(* Somebody can always go on.                                              *)

\* The guards of Step, those together that differ only in what they find: r has a
\* statement to send and the locks for it.
Ready(r) ==
    LET s == req[r].TimeslotID
        op == req[r].op
    IN  \/ CanAcquire(r)
        \/ pc[r] = "insert" /\ op = "CreateTimeslot"
        \/ pc[r] = "insert" /\ op = "CreateMeeting" /\ ~UniqueMustWait(r, s)
        \/ pc[r] = "fkey" /\ ~KeyShareMustWait(r, s)
        \/ pc[r] = "people"
        \/ pc[r] = "write" /\ ~MustWait(r)
        \/ pc[r] = "read"
        \/ pc[r] = "commit" /\ op \in {"CreateUser", "CreateTimeslot", "CreateMeeting",
                                       "UpdateTimeslot", "DeleteTimeslot"}

\* There is nothing else to wait for than another request.
LEMMA WaitsOrReady ==
    ASSUME IndInv, NEW r \in Requests, AtWork(r)
    PROVE  Ready(r) \/ \E o \in Requests : WaitsFor(r, o)
  <1>1. TypeOK /\ Places
    BY DEF IndInv
  <1>2. req[r] \in Request
    BY <1>1 DEF TypeOK
  <1>3. CASE pc[r] = "acquire"
    <2>1. CASE conn = {}
      BY <1>3, <2>1, FS_EmptySet, StoreAssumption DEF Ready, CanAcquire
    <2>2. CASE conn # {} /\ Cardinality(conn) < MaxConns
      BY <1>3, <2>2 DEF Ready, CanAcquire
    <2>3. CASE conn # {} /\ Cardinality(conn) >= MaxConns
      <3>1. PICK o \in conn : TRUE
        BY <2>3
      <3>2. o \in Requests
        BY <1>1 DEF TypeOK
      <3> QED
        BY <1>3, <2>3, <3>1, <3>2 DEF WaitsFor
    <2>4. Cardinality(conn) \in Nat /\ MaxConns \in Nat
      BY <1>1, SchemaAssumption, StoreAssumption, FS_Subset, FS_CardinalityType DEF TypeOK
    <2> QED
      BY <2>1, <2>2, <2>3, <2>4
  <1>4. CASE pc[r] = "insert"
    BY <1>1, <1>4 DEF Ready, WaitsFor, Places, UniqueMustWait
  <1>5. CASE pc[r] = "fkey"
    BY <1>5 DEF Ready, WaitsFor, KeyShareMustWait
  <1>6. CASE pc[r] = "write"
    BY <1>6 DEF Ready, WaitsFor, MustWait, UpdateMustWait, DeleteMustWait
  <1>7. CASE pc[r] \in {"people", "read"}
    BY <1>7 DEF Ready
  <1>8. CASE pc[r] = "commit"
    <2>1. req[r].op \in {"CreateUser", "CreateTimeslot", "CreateMeeting",
                         "UpdateTimeslot", "DeleteTimeslot"}
      BY <1>1, <1>2, <1>8
         DEF Places, Request, CreateUserRequest, CreateTimeslotRequest,
             UpdateTimeslotRequest, DeleteTimeslotRequest, CreateMeetingRequest,
             GetAllottedRequest, GetCalendarRequest
    <2> QED
      BY <1>8, <2>1 DEF Ready
  <1> QED
    BY <1>1, <1>3, <1>4, <1>5, <1>6, <1>7, <1>8 DEF TypeOK, PCs, AtWork

\* While any request is at work, the guard of one that is at work holds: the service
\* and its database never come to a stand under their locks and their pool.
THEOREM SomebodyCanGoOn ==
    Spec => []((\E r \in Requests : AtWork(r)) => \E r \in Requests : AtWork(r) /\ Ready(r))
  <1>1. IndInv => ((\E r \in Requests : AtWork(r)) =>
                       \E r \in Requests : AtWork(r) /\ Ready(r))
    <2> SUFFICES ASSUME IndInv, \E r \in Requests : AtWork(r)
                 PROVE  \E r \in Requests : AtWork(r) /\ Ready(r)
      OBVIOUS
    <2> DEFINE S == {r \in Requests : AtWork(r)}
    <2>1. TypeOK /\ Lent
      BY DEF IndInv
    <2>2. PICK r \in S : \A o \in S : ~WaitsFor(r, o)
      <3>1. S # {} /\ S \in SUBSET Requests
        OBVIOUS
      <3> QED
        BY <2>1, <3>1, FurthestIsFree
    <2>3. \A o \in Requests : ~WaitsFor(r, o)
      <3>1. \A o \in Requests : WaitsFor(r, o) => o \in S
        BY <2>1, WaitsForFurther
      <3> QED
        BY <2>2, <3>1
    <2> QED
      BY <2>3, WaitsOrReady
  <1> QED
    BY <1>1, Invariance, PTL

-----------------------------------------------------------------------------
(* Every step goes forward.                                                *)

\* One statement of a handler takes its request to a later place, except in the
\* two loops, where next or slice moves on, and when a client leaves a backend at
\* work, which is an answer.
LEMMA MoveGoesOn ==
    ASSUME TypeOK, Places, NEW r \in Requests, Moves(r)
    PROVE  GoesOn(r)
  <1> USE DEF GoesOn, Stage, TypeOK, Places, PCs, Goto, Finish, Acquire, CanAcquire, loops
  <1>1. CASE Accept(r) \/ Reject(r) \/ withTx(r) \/ CreateUser(r)
    BY <1>1 DEF Accept, Reject, withTx, CreateUser
  <1>2. CASE CreateTimeslot(r) \/ CreateTimeslotFails(r) \/ NextWindow(r)
    BY <1>2 DEF CreateTimeslot, CreateTimeslotFails, NextWindow
  <1>3. CASE CreateMeeting(r) \/ SlotTaken(r) \/ LockTimeslotKey(r)
    BY <1>3 DEF CreateMeeting, SlotTaken, LockTimeslotKey
  <1>4. CASE TimeslotMissing(r) \/ AddMeetingParticipant(r)
    BY <1>4 DEF TimeslotMissing, AddMeetingParticipant
  <1>5. CASE ScanFindsNone(r) \/ ScanFindsRow(r) \/ ScanFailsCheck(r)
    BY <1>5 DEF ScanFindsNone, ScanFindsRow, ScanFailsCheck
  <1>6. CASE LockRow(r) \/ RowGone(r)
    BY <1>6 DEF LockRow, RowGone
  <1>7. CASE Query(r) \/ ReturnRows(r) \/ Cancel(r)
    BY <1>7 DEF Query, ReturnRows, Cancel
  <1>8. CASE CancelTooLate(r)
    BY <1>8 DEF CancelTooLate
  <1>9. CASE CommitUser(r) \/ CommitAvailability(r) \/ CommitMeeting(r)
    BY <1>9 DEF CommitUser, CommitAvailability, CommitMeeting
  <1>10. CASE CommitUpdate(r) \/ CommitDelete(r)
    BY <1>10 DEF CommitUpdate, CommitDelete
  <1> QED
    BY <1>1, <1>2, <1>3, <1>4, <1>5, <1>6, <1>7, <1>8, <1>9, <1>10 DEF Moves, Step

\* Outside of the two loops nothing counts, and nobody counts for another.
LEMMA OnlyLoopsCount ==
    ASSUME NEW r \in Requests, Moves(r)
    PROVE  \/ UNCHANGED <<next, slice>>
           \/ CreateTimeslot(r) \/ NextWindow(r) \/ AddMeetingParticipant(r)
  <1> USE DEF loops
  <1>1. CASE Accept(r) \/ Reject(r) \/ withTx(r) \/ CreateUser(r) \/ CommitUser(r)
    BY <1>1 DEF Accept, Reject, withTx, CreateUser, CommitUser
  <1>2. CASE CreateTimeslotFails(r) \/ CommitAvailability(r)
    BY <1>2 DEF CreateTimeslotFails, CommitAvailability
  <1>3. CASE CreateMeeting(r) \/ SlotTaken(r) \/ LockTimeslotKey(r) \/
      TimeslotMissing(r) \/ CommitMeeting(r)
    BY <1>3 DEF CreateMeeting, SlotTaken, LockTimeslotKey, TimeslotMissing, CommitMeeting
  <1>4. CASE ScanFindsNone(r) \/ ScanFindsRow(r) \/ ScanFailsCheck(r) \/ LockRow(r) \/
      RowGone(r) \/ CommitUpdate(r) \/ CommitDelete(r)
    BY <1>4 DEF ScanFindsNone, ScanFindsRow, ScanFailsCheck, LockRow, RowGone,
       CommitUpdate, CommitDelete
  <1>5. CASE Query(r) \/ ReturnRows(r) \/ Cancel(r) \/ CancelTooLate(r)
    BY <1>5 DEF Query, ReturnRows, Cancel, CancelTooLate
  <1> QED
    BY <1>1, <1>2, <1>3, <1>4, <1>5 DEF Moves, Step

\* The loops stay inside their input: a slice that fits is one the bounds contain.
LEMMA MoveInLoops ==
    ASSUME IndInv, NEW r \in Requests, Moves(r), InLoops(r)
    PROVE  /\ InLoops(r)'
           /\ \A o \in Requests \ {r} : next'[o] = next[o] /\ slice'[o] = slice[o]
  <1>1. TypeOK /\ Places /\ Attending /\ Offering
    BY DEF IndInv
  <1>2. UNCHANGED req
    BY <1>1, MoveFrame
  <1>3. req[r] \in Request /\ req[r] \in Inputs[r] /\ MaxSlices \in Nat
    BY <1>1, SchemaAssumption DEF TypeOK
  <1>4. CASE UNCHANGED <<next, slice>>
    BY <1>2, <1>4 DEF InLoops
  <1>5. CASE CreateTimeslot(r)
    <2>1. /\ pc[r] = "insert" /\ req[r].op = "CreateTimeslot"
          /\ SliceFits(req[r], next[r], slice[r])
          /\ next' = next /\ slice' = [slice EXCEPT ![r] = @ + 1]
      BY <1>5 DEF CreateTimeslot
    <2>2. ValidCreateTimeslot(req[r]) /\ req[r].Availability \in Seq(Window)
      BY <1>1, <1>3, <2>1, ValidByOperation, RequestFields DEF Places
    <2>3. next[r] \in DOMAIN req[r].Availability
      BY <1>1, <2>1, <2>2 DEF Offering, TypeOK
    <2>4. slice[r] \in Nat \ {0}
      BY <1>1 DEF TypeOK
    <2>5. <<r, next[r], slice[r]>> \in NewSlots
      BY <1>3, <2>1, <2>2, <2>3, <2>4, SliceInBounds
    <2>6. slice[r] <= MaxSlices
      BY <1>3, <2>4, <2>5 DEF NewSlots
    <2> QED
      BY <1>1, <1>2, <1>3, <2>1, <2>6 DEF InLoops, TypeOK
  <1>6. CASE NextWindow(r)
    <2>1. /\ pc[r] = "insert" /\ req[r].op = "CreateTimeslot"
          /\ next' = [next EXCEPT ![r] = @ + 1] /\ slice' = [slice EXCEPT ![r] = 1]
      BY <1>6 DEF NextWindow
    <2>2. req[r].Availability \in Seq(Window)
      BY <1>3, <2>1, RequestFields
    <2> QED
      BY <1>1, <1>2, <1>3, <2>1, <2>2 DEF InLoops, TypeOK, Offering
  <1>7. CASE AddMeetingParticipant(r)
    <2>1. /\ pc[r] = "people" /\ req[r].op = "CreateMeeting"
          /\ next' = [next EXCEPT ![r] = @ + 1] /\ slice' = slice
      BY <1>1, <1>7 DEF AddMeetingParticipant, Places
    <2>2. req[r].Attendees \in Seq(Emails)
      BY <1>3, <2>1, RequestFields
    <2> QED
      BY <1>1, <1>2, <1>3, <2>1, <2>2 DEF InLoops, TypeOK, Attending
  <1> QED
    BY <1>4, <1>5, <1>6, <1>7, OnlyLoopsCount

\* No request goes round: with the finitely many places, and with loops as long as
\* their input, each has only so many steps to its end, in whatever order they come.
THEOREM AlwaysForward == Spec => OnlyForward
  <1> DEFINE Inside == \A r \in Requests : InLoops(r)
  <1>1. Init => Inside
    <2> SUFFICES ASSUME Init, NEW r \in Requests PROVE InLoops(r)
      OBVIOUS
    <2>1. next[r] = 1 /\ slice[r] = 1 /\ req[r] \in Request
      BY StoreAssumption DEF Init
    <2> QED
      BY <2>1, RequestFields, SchemaAssumption DEF InLoops
  <1>2. IndInv /\ Inside /\ [Next]_vars =>
           /\ Inside'
           /\ [\E r \in Requests :
                  /\ GoesOn(r) /\ InLoops(r)'
                  /\ \A o \in Requests \ {r} :
                        UNCHANGED <<pc[o], next[o], slice[o], status[o]>>]_vars
    <2> SUFFICES ASSUME IndInv, Inside, [Next]_vars
                 PROVE  /\ Inside'
                        /\ \/ UNCHANGED vars
                           \/ \E r \in Requests :
                                 /\ GoesOn(r) /\ InLoops(r)'
                                 /\ \A o \in Requests \ {r} :
                                       UNCHANGED <<pc[o], next[o], slice[o], status[o]>>
      OBVIOUS
    <2>1. CASE UNCHANGED vars
      BY <2>1 DEF vars, loops, InLoops
    <2>2. ASSUME NEW r \in Requests, Moves(r)
          PROVE  /\ Inside'
                 /\ GoesOn(r) /\ InLoops(r)'
                 /\ \A o \in Requests \ {r} :
                       UNCHANGED <<pc[o], next[o], slice[o], status[o]>>
      <3>1. TypeOK /\ Places
        BY DEF IndInv
      <3>2. /\ UNCHANGED req
            /\ \A o \in Requests \ {r} : pc'[o] = pc[o] /\ status'[o] = status[o]
        BY <2>2, <3>1, MoveFrame
      <3>3. /\ InLoops(r)'
            /\ \A o \in Requests \ {r} : next'[o] = next[o] /\ slice'[o] = slice[o]
        BY <2>2, MoveInLoops
      <3>4. \A o \in Requests \ {r} : InLoops(o)'
        BY <3>2, <3>3 DEF InLoops
      <3>5. GoesOn(r)
        BY <2>2, <3>1, MoveGoesOn
      <3> QED
        BY <3>2, <3>3, <3>4, <3>5
    <2> QED
      BY <2>1, <2>2 DEF Next, Quiescent, Moves
  <1> QED
    BY <1>1, <1>2, Invariance, PTL DEF Spec, OnlyForward

-----------------------------------------------------------------------------
(* Where clashing meetings come from.                                      *)

\* No user has offered two timeslots that overlap.
OffersApart ==
    \A s, t \in Slots :
        s # t /\ Exists(s) /\ Exists(t) /\ timeslots[s].user_id = timeslots[t].user_id =>
            \/ timeslots[s].end_at <= timeslots[t].start_at
            \/ timeslots[t].end_at <= timeslots[s].start_at

\* The bookings add no clash of their own: a user whose timeslots never overlap has
\* no clashing meetings (so a check in CreateAvailability and in UpdateTimeslot
\* would be enough).
THEOREM ClashesComeFromOffers == Spec /\ []OffersApart => []NoClashingMeetings
  <1>1. IndInv /\ OffersApart => NoClashingMeetings
    <2> SUFFICES ASSUME OffersApart, OneMeetingPerSlot, ReferentialIntegrity, TypeOK,
                        NEW m \in Requests, NEW n \in Requests,
                        m # n, meetings[m] # NoRow, meetings[n] # NoRow,
                        timeslots[meetings[m]].user_id = timeslots[meetings[n]].user_id
                 PROVE  \/ timeslots[meetings[m]].end_at <= timeslots[meetings[n]].start_at
                        \/ timeslots[meetings[n]].end_at <= timeslots[meetings[m]].start_at
      BY DEF IndInv, NoClashingMeetings
    <2>1. meetings[m] # meetings[n]
      BY DEF OneMeetingPerSlot
    <2>2. /\ meetings[m] \in Slots /\ Exists(meetings[m])
          /\ meetings[n] \in Slots /\ Exists(meetings[n])
      BY DEF TypeOK, ReferentialIntegrity
    <2> QED
      BY <2>1, <2>2 DEF OffersApart
  <1> QED
    BY <1>1, Invariance, PTL
=============================================================================
