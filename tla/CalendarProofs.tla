--------------------------- MODULE CalendarProofs ---------------------------
(***************************************************************************)
(* Store implements Calendar: under every interleaving, the committed      *)
(* tables change only by whole operations of the abstract calendar.        *)
(***************************************************************************)
EXTENDS StoreProofs

\* The database a run starts with is one the calendar may start with.
LEMMA CalendarInit == Init => AsBuilt!Init
  <1> SUFFICES ASSUME Init PROVE AsBuilt!Init
    OBVIOUS
  <1>1. TypeOK
    BY InitInd DEF IndInv
  <1> QED
    BY <1>1 DEF Init, TypeOK, AsBuilt!Init

\* Creating a user, or the same one again, is the calendar's CreateUser.
LEMMA UserStep ==
    ASSUME IndInv, NEW r \in Requests, CommitUser(r)
    PROVE  AsBuilt!CreateUser
  BY DEF CommitUser, AsBuilt!CreateUser, Users

\* The slots of one transaction are new, and all of one registered user.
LEMMA AvailabilityStep ==
    ASSUME IndInv, IndInv', NEW r \in Requests, CommitAvailability(r)
    PROVE  AsBuilt!CreateAvailability \/ UNCHANGED tables
  <1>1. /\ timeslots \in [Slots -> Timeslot \cup {NoRow}]
        /\ timeslots' \in [Slots -> Timeslot \cup {NoRow}]
    BY DEF IndInv, TypeOK
  <1>2. UNCHANGED <<users, meetings, participants>>
    BY DEF CommitAvailability
  <1>3. CASE created[r] = {}
    <2>1. \A s \in Slots : timeslots'[s] = timeslots[s]
      BY <1>3, AvailabilityCommitted DEF IndInv
    <2>2. timeslots' = timeslots
      BY <1>1, <2>1
    <2> QED
      BY <1>2, <2>2 DEF tables
  <1>4. CASE created[r] # {}
    <2>1. req[r].UserID \in users
      BY <1>4, AvailabilityCommitted DEF IndInv
    <2>2. pc[r] # "done"
      BY DEF CommitAvailability
    <2>3. \A s \in created[r] : timeslots[s] = NoRow
      BY <2>2, AvailabilityCommitted DEF IndInv, Settled, Exists
    <2>4. \A s \in Slots : timeslots'[s] # timeslots[s] =>
             timeslots[s] = NoRow /\ timeslots'[s].user_id = req[r].UserID
      BY <2>3, AvailabilityCommitted DEF IndInv
    <2> QED
      BY <1>1, <1>2, <2>1, <2>4 DEF AsBuilt!CreateAvailability
  <1> QED
    BY <1>3, <1>4

\* A booking commits on a timeslot that exists and is free.
LEMMA BookingStep ==
    ASSUME IndInv, IndInv', NEW r \in Requests, CommitMeeting(r)
    PROVE  AsBuilt!BookMeeting(r, req[r].TimeslotID)
  <1>1. meetings[r] = NoRow
    BY DEF IndInv, Settled, CommitMeeting
  <1>2. Exists(req[r].TimeslotID) /\ ~Booked(req[r].TimeslotID)
    BY MeetingCommitted DEF IndInv
  <1> DEFINE people == {req[r].Attendees[j] : j \in 1 .. (next[r] - 1)}
  <1>3. participants' = [participants EXCEPT ![r] = people]
    BY DEF CommitMeeting
  <1>4. people \in SUBSET Emails
    BY <1>3 DEF IndInv, TypeOK
  <1> HIDE DEF people
  <1>5. /\ meetings' = [meetings EXCEPT ![r] = req[r].TimeslotID]
        /\ UNCHANGED <<users, timeslots>>
    BY DEF CommitMeeting
  <1> QED
    BY <1>1, <1>2, <1>3, <1>4, <1>5
       DEF Exists, Booked, AsBuilt!BookMeeting, AsBuilt!Booked

\* An update leaves the timeslot in place and its owner as it was.
LEMMA UpdateStep ==
    ASSUME IndInv, IndInv', NEW r \in Requests, CommitUpdate(r)
    PROVE  AsBuilt!UpdateTimeslot(req[r].TimeslotID)
  <1>1. timeslots' \in [Slots -> Timeslot \cup {NoRow}]
    BY DEF IndInv, TypeOK
  <1>2. UNCHANGED <<users, meetings, participants>>
    BY DEF CommitUpdate
  <1> QED
    BY <1>1, <1>2, UpdateCommitted DEF IndInv, Exists, AsBuilt!UpdateTimeslot

\* A deletion takes the timeslot and what is booked on it, and nothing else.
LEMMA DeletionStep ==
    ASSUME IndInv, NEW r \in Requests, CommitDelete(r)
    PROVE  AsBuilt!DeleteTimeslot(req[r].TimeslotID)
  BY DeleteCommitted DEF IndInv, Exists, CommitDelete, AsBuilt!DeleteTimeslot

\* Every step is a step of the calendar, or leaves the tables alone.
LEMMA CalendarStep ==
    IndInv /\ IndInv' /\ [Next]_vars => [AsBuilt!Next]_(AsBuilt!vars)
  <1> SUFFICES ASSUME IndInv, IndInv', [Next]_vars
               PROVE  AsBuilt!Next \/ UNCHANGED tables
    BY DEF AsBuilt!vars, tables
  <1>1. CASE UNCHANGED vars
    BY <1>1 DEF vars
  <1>2. ASSUME NEW r \in Requests, Moves(r)
        PROVE  AsBuilt!Next \/ UNCHANGED tables
    <2>1. CASE UNCHANGED tables
      BY <2>1
    <2>2. CASE CommitUser(r)
      BY <2>2, UserStep DEF AsBuilt!Next
    <2>3. CASE CommitAvailability(r)
      BY <2>3, AvailabilityStep DEF AsBuilt!Next
    <2>4. CASE CommitMeeting(r)
      BY <2>4, BookingStep, MeetingCommitted DEF IndInv, AsBuilt!Next
    <2>5. CASE CommitUpdate(r)
      BY <2>5, UpdateStep, UpdateCommitted DEF IndInv, AsBuilt!Next
    <2>6. CASE CommitDelete(r)
      BY <2>6, DeletionStep, DeleteCommitted DEF IndInv, AsBuilt!Next
    <2> QED
      BY <1>2, <2>1, <2>2, <2>3, <2>4, <2>5, <2>6, MoveFrame DEF IndInv, Commits
  <1> QED
    BY <1>1, <1>2 DEF Next, Quiescent, Moves

\* The service, with every statement, lock, rollback and lost client, behaves
\* as the abstract calendar.
THEOREM Refinement == Spec => ImplementsCalendar
  <1>1. IndInv /\ IndInv' /\ [Next]_vars => [AsBuilt!Next]_(AsBuilt!vars)
    BY CalendarStep
  <1> QED
    BY <1>1, CalendarInit, Invariance, PTL
       DEF Spec, ImplementsCalendar, AsBuilt!Spec
=============================================================================
