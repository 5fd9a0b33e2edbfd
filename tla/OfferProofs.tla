---------------------------- MODULE OfferProofs ----------------------------
(***************************************************************************)
(* What CreateAvailability writes, and that no booking is missing from the *)
(* two listings.                                                           *)
(***************************************************************************)
EXTENDS StoreProofs

-----------------------------------------------------------------------------
(* Arithmetic of the slices.                                               *)

\* The quotient, by multiplication.
LEMMA Quotient ==
    ASSUME NEW a \in Nat, NEW d \in Nat \ {0}
    PROVE  a \div d \in Nat /\ d * (a \div d) <= a /\ a < d * ((a \div d) + 1)
  <1>1. a \div d \in Nat
    OBVIOUS
  <1>2. d * (a \div d) <= a
    OBVIOUS
  <1>3. a < d * ((a \div d) + 1)
    OBVIOUS
  <1> QED BY <1>1, <1>2, <1>3

\* A quotient is known by its product.
LEMMA QuotientIs ==
    ASSUME NEW a \in Nat, NEW d \in Nat \ {0}, NEW q \in Nat, d * q <= a, a < d * (q + 1)
    PROVE  a \div d = q
  <1> DEFINE p == a \div d
  <1>1. p \in Nat /\ d * p <= a /\ a < d * (p + 1)
    BY Quotient
  <1> HIDE DEF p
  <1>2. p < q + 1
    <2> SUFFICES ASSUME q + 1 <= p PROVE FALSE
      BY <1>1
    <2>1. (q + 1) * d <= p * d
      BY <1>1, MulMonotone
    <2> QED BY <1>1, <2>1
  <1>3. q < p + 1
    <2> SUFFICES ASSUME p + 1 <= q PROVE FALSE
      BY <1>1
    <2>1. (p + 1) * d <= q * d
      BY <1>1, MulMonotone
    <2> QED BY <1>1, <2>1
  <1>4. p = q
    BY <1>1, <1>2, <1>3
  <1> QED BY <1>4 DEF p

\* k whole slices fit in a span when k is at most the quotient.
LEMMA FitsByDivision ==
    ASSUME NEW a \in Nat, NEW d \in Nat \ {0}, NEW k \in Nat
    PROVE  k * d <= a <=> k <= a \div d
  <1> DEFINE p == a \div d
  <1>1. p \in Nat /\ d * p <= a /\ a < d * (p + 1)
    BY Quotient
  <1> HIDE DEF p
  <1>2. ASSUME k <= p PROVE k * d <= a
    <2>1. k * d <= p * d
      BY <1>1, <1>2, MulMonotone
    <2> QED BY <1>1, <2>1
  <1>3. ASSUME k * d <= a PROVE k <= p
    <2> SUFFICES ASSUME p + 1 <= k PROVE FALSE
      BY <1>1
    <2>1. (p + 1) * d <= k * d
      BY <1>1, MulMonotone
    <2> QED BY <1>1, <1>3, <2>1
  <1> QED BY <1>2, <1>3 DEF p

\* A whole number of microseconds survives in a timestamptz.
LEMMA PgTimeAdds ==
    ASSUME NEW x \in Nat, NEW k \in Nat
    PROVE  /\ PgTime(x + k * Micro) = PgTime(x) + k
           /\ PgTime(k * Micro) = k
  <1>1. Micro \in Nat \ {0}
    BY SchemaAssumption
  <1> DEFINE p == x \div Micro
  <1>2. p \in Nat /\ Micro * p <= x /\ x < Micro * (p + 1)
    BY <1>1, Quotient
  <1> HIDE DEF p
  <1>3. /\ k * Micro \in Nat /\ Micro * (p + k) <= x + k * Micro
        /\ x + k * Micro < Micro * ((p + k) + 1)
    BY <1>1, <1>2
  <1>4. (x + k * Micro) \div Micro = p + k
    BY <1>1, <1>2, <1>3, QuotientIs
  <1>5. Micro * k <= k * Micro /\ k * Micro < Micro * (k + 1)
    BY <1>1
  <1>6. (k * Micro) \div Micro = k
    BY <1>1, <1>3, <1>5, QuotientIs
  <1> QED BY <1>4, <1>6 DEF PgTime, p

-----------------------------------------------------------------------------
(* The listings.                                                           *)

\* The times of a row come back from the tables as they are.
LEMMA PgTimeOfTicks == \A k \in Nat : PgTime(k * Micro) = k
  <1>1. 0 \in Nat
    OBVIOUS
  <1> QED BY <1>1, PgTimeAdds

\* A committed meeting is on its user's calendar and on nobody else's, and its
\* slot is flagged as booked in that user's timeslots.
THEOREM MeetingsListed == Spec => []EveryMeetingIsListed
  <1>1. ASSUME IndInv PROVE EveryMeetingIsListed
    <2>1. ASSUME NEW m \in Requests, meetings[m] # NoRow
          PROVE  \E u \in users : \E row \in ListCalendarMeetings(u) :
                    /\ row.meeting_id = m
                    /\ [timeslot_id |-> meetings[m], timeslot |-> timeslots[meetings[m]],
                        is_booked |-> TRUE] \in
                          ListAllottedTimeslots(u, row.start_at * Micro,
                                                row.end_at * Micro, row.start_at * Micro)
      <3> DEFINE s == meetings[m]
                 u == timeslots[s].user_id
                 row == [meeting_id |-> m, start_at |-> timeslots[s].start_at,
                         end_at |-> timeslots[s].end_at, attendees |-> participants[m]]
      <3>1. s \in Slots /\ Exists(s) /\ Booked(s)
        BY <1>1, <2>1 DEF IndInv, TypeOK, ReferentialIntegrity, Booked
      <3>2. timeslots[s] \in Timeslot
        BY <1>1, <3>1 DEF IndInv, TypeOK, Exists
      <3>3. u \in users /\ SatisfiesChecks(timeslots[s])
        BY <1>1, <3>1 DEF IndInv, ReferentialIntegrity, RowsSatisfyChecks
      <3>4. row \in ListCalendarMeetings(u)
        BY <2>1, <3>1 DEF ListCalendarMeetings
      <3>5. /\ PgTime(timeslots[s].start_at * Micro) = timeslots[s].start_at
            /\ PgTime(timeslots[s].end_at * Micro) = timeslots[s].end_at
            /\ timeslots[s].start_at < timeslots[s].end_at
            /\ timeslots[s].start_at \in Nat
        BY <3>2, <3>3, PgTimeOfTicks DEF Timeslot, SatisfiesChecks
      <3>6. [timeslot_id |-> s, timeslot |-> timeslots[s], is_booked |-> Booked(s)] \in
               ListAllottedTimeslots(u, row.start_at * Micro, row.end_at * Micro,
                                     row.start_at * Micro)
        <4> DEFINE from == row.start_at * Micro
                   to == row.end_at * Micro
        <4>1. /\ timeslots[s].start_at >= PgTime(from)
              /\ timeslots[s].start_at < PgTime(to)
          BY <3>5
        <4> HIDE DEF row, s, from, to
        <4>2. s \in {x \in Slots : /\ Exists(x)
                                   /\ timeslots[x].user_id = u
                                   /\ timeslots[x].start_at >= PgTime(from)
                                   /\ timeslots[x].start_at < PgTime(to)
                                   /\ timeslots[x].start_at >= PgTime(from)}
          BY <3>1, <4>1
        <4>3. [timeslot_id |-> s, timeslot |-> timeslots[s], is_booked |-> Booked(s)] \in
                 ListAllottedTimeslots(u, from, to, from)
          BY <4>2, Zenon DEF ListAllottedTimeslots
        <4> QED
          BY <4>3 DEF from, to
      <3>7. Booked(s) = TRUE
        BY <3>1 DEF Booked
      <3> QED
        BY <3>3, <3>4, <3>6, <3>7
    <2>2. ASSUME NEW u \in users, NEW v \in users, u # v,
                 NEW x \in ListCalendarMeetings(u), NEW y \in ListCalendarMeetings(v)
          PROVE  x.meeting_id # y.meeting_id
      <3>1. /\ timeslots[meetings[x.meeting_id]].user_id = u
            /\ timeslots[meetings[y.meeting_id]].user_id = v
        BY DEF ListCalendarMeetings
      <3> QED
        BY <2>2, <3>1
    <2> QED
      BY <2>1, <2>2 DEF EveryMeetingIsListed
  <1> QED
    BY <1>1, Invariance, PTL

-----------------------------------------------------------------------------
(* CreateAvailability.                                                     *)

\* The slices inserted when the loops stand at window next[r], slice slice[r].
Reached(r) ==
    {s \in NewSlots :
        /\ s[1] = r /\ s[2] \in DOMAIN req[r].Availability
        /\ SliceFits(req[r], s[2], s[3])
        /\ s[2] < next[r] \/ (s[2] = next[r] /\ s[3] < slice[r])}

\* What is inserted is what the loops have passed, and at COMMIT that is all.
LaidOut ==
    \A r \in Requests : req[r].op = "CreateTimeslot" =>
        /\ pc[r] \in {"idle", "acquire"} => slice[r] = 1 /\ created[r] = {}
        /\ pc[r] \in {"insert", "commit"} => created[r] = Reached(r)
        /\ pc[r] = "commit" => next[r] = Len(req[r].Availability) + 1

\* The loop's condition, by division.
LEMMA FitsBySlices ==
    ASSUME NEW q \in Request, ValidCreateTimeslot(q), NEW i \in DOMAIN q.Availability,
           NEW k \in Nat \ {0}
    PROVE  SliceFits(q, i, k) <=>
             k <= (q.Availability[i].EndAt - q.Availability[i].StartAt) \div slot(q)
  <1>1. /\ q.Availability[i] \in Window
        /\ q.DurationMins \in Int
        /\ q.Availability[i].EndAt > q.Availability[i].StartAt
    BY RequestFields DEF ValidCreateTimeslot
  <1>2. slot(q) \in Nat \ {0}
    BY <1>1, SlotLength, SchemaAssumption
  <1> DEFINE span == q.Availability[i].EndAt - q.Availability[i].StartAt
  <1>3. span \in Nat
    BY <1>1 DEF Window
  <1>4. (k - 1) * slot(q) + slot(q) = k * slot(q) /\ (k - 1) * slot(q) \in Nat
    BY <1>2
  <1>5. SliceFits(q, i, k) <=> k * slot(q) <= span
    BY <1>1, <1>2, <1>4 DEF SliceFits, SliceStart, Window
  <1>6. k * slot(q) <= span <=> k <= span \div slot(q)
    BY <1>2, <1>3, FitsByDivision
  <1> QED
    BY <1>5, <1>6

\* The loop of CreateAvailability comes to the end of any window, because the handler
\* lets no slot of length zero through: there are no more slices than ticks of time,
\* so that there is a MaxSlices for any inputs, and BoundsAssumption can be met.
THEOREM SlicingEnds ==
    ASSUME NEW q \in Request, ValidCreateTimeslot(q), NEW i \in DOMAIN q.Availability,
           NEW k \in Nat \ {0}, SliceFits(q, i, k)
    PROVE  k <= q.Availability[i].EndAt - q.Availability[i].StartAt
  <1>1. /\ q.Availability[i] \in Window
        /\ q.DurationMins \in Int
        /\ q.Availability[i].EndAt > q.Availability[i].StartAt
    BY RequestFields DEF ValidCreateTimeslot
  <1>2. slot(q) \in Nat \ {0}
    BY <1>1, SlotLength, SchemaAssumption
  <1> DEFINE span == q.Availability[i].EndAt - q.Availability[i].StartAt
             p == span \div slot(q)
  <1>3. span \in Nat
    BY <1>1 DEF Window
  <1>4. p \in Nat /\ slot(q) * p <= span
    BY <1>2, <1>3, Quotient
  <1>5. k <= p
    BY FitsBySlices
  <1> HIDE DEF p, span
  <1>6. p <= slot(q) * p /\ slot(q) * p \in Nat
    <2>1. 1 * p <= slot(q) * p /\ slot(q) * p \in Nat
      BY <1>2, <1>4, MulMonotone
    <2> QED
      BY <1>4, <2>1
  <1>7. k <= span
    BY <1>3, <1>4, <1>5, <1>6
  <1> QED
    BY <1>7 DEF span

\* A stored slice lasts as long as the one it was made from.
LEMMA SliceLasts ==
    ASSUME NEW q \in Request, ValidCreateTimeslot(q), NEW i \in DOMAIN q.Availability,
           NEW k \in Nat \ {0}
    PROVE  SliceRow(q, i, k).end_at - SliceRow(q, i, k).start_at = slot(q) \div Micro
  <1>1. /\ q.Availability[i] \in Window
        /\ q.DurationMins \in Nat
    BY RequestFields, SchemaAssumption DEF ValidCreateTimeslot, DurationInRange
  <1>2. slot(q) \in Nat
    BY <1>1, SlotLength
  <1>3. (k - 1) * slot(q) \in Nat
    BY <1>2, MulMonotone
  <1>4. SliceStart(q, i, k) \in Nat
    BY <1>1, <1>3 DEF SliceStart, Window
  <1>5. PICK n \in Nat : Minute = n * Micro
    BY SchemaAssumption
  <1>6. q.DurationMins * n \in Nat /\ slot(q) = (q.DurationMins * n) * Micro
    <2>1. Micro \in Nat
      BY SchemaAssumption
    <2>2. slot(q) = q.DurationMins * (n * Micro)
      BY <1>5 DEF slot
    <2>3. q.DurationMins * (n * Micro) = (q.DurationMins * n) * Micro
      BY <1>1, <2>1, MulAssociates
    <2> QED
      BY <1>1, <2>2, <2>3, MulMonotone
  <1>7. /\ PgTime(SliceStart(q, i, k) + slot(q)) =
              PgTime(SliceStart(q, i, k)) + q.DurationMins * n
        /\ slot(q) \div Micro = q.DurationMins * n
    BY <1>4, <1>6, PgTimeAdds DEF PgTime
  <1>8. PgTime(SliceStart(q, i, k)) \in Int
    BY <1>4, SchemaAssumption DEF PgTime
  <1> QED
    BY <1>6, <1>7, <1>8 DEF SliceRow, TimeslotRow

\* The INSERT of one slice, and the end of one window.
LEMMA SliceKeepsLaidOut ==
    ASSUME IndInv, LaidOut, NEW r \in Requests, CreateTimeslot(r)
    PROVE  LaidOut'
  <1>1. /\ pc[r] = "insert" /\ req[r].op = "CreateTimeslot"
        /\ SliceFits(req[r], next[r], slice[r])
        /\ created' = [created EXCEPT ![r] = @ \cup {<<r, next[r], slice[r]>>}]
        /\ slice' = [slice EXCEPT ![r] = @ + 1]
        /\ UNCHANGED <<req, pc, next>>
    BY DEF CreateTimeslot, tables
  <1>2. /\ req[r] \in Inputs[r] /\ req[r] \in Request /\ ValidCreateTimeslot(req[r])
        /\ next[r] \in Nat \ {0} /\ slice[r] \in Nat \ {0}
    BY <1>1, ValidByOperation DEF IndInv, TypeOK, Places
  <1>3. next[r] \in DOMAIN req[r].Availability
    BY <1>1, <1>2, RequestFields DEF IndInv, Offering
  <1>4. <<r, next[r], slice[r]>> \in NewSlots
    BY <1>1, <1>2, <1>3, SliceInBounds
  <1>5. created'[r] = created[r] \cup {<<r, next[r], slice[r]>>} /\ slice'[r] = slice[r] + 1
    BY <1>1 DEF IndInv, TypeOK
  <1>6. Reached(r)' = Reached(r) \cup {<<r, next[r], slice[r]>>}
    <2>1. ASSUME NEW x \in NewSlots
          PROVE  /\ x[2] \in Nat /\ x[3] \in Nat
                 /\ x = <<r, next[r], slice[r]>> <=>
                      x[1] = r /\ x[2] = next[r] /\ x[3] = slice[r]
      BY SchemaAssumption DEF NewSlots
    <2>2. Reached(r)' =
             {x \in NewSlots :
                /\ x[1] = r /\ x[2] \in DOMAIN req[r].Availability
                /\ SliceFits(req[r], x[2], x[3])
                /\ x[2] < next[r] \/ (x[2] = next[r] /\ x[3] < slice[r] + 1)}
      BY <1>1, <1>5 DEF Reached
    <2>3. ASSUME NEW x \in NewSlots
          PROVE  x \in Reached(r)' <=> x \in Reached(r) \/ x = <<r, next[r], slice[r]>>
      <3>1. x[2] \in Nat /\ x[3] \in Nat
        BY <2>1
      <3>2. x[3] < slice[r] + 1 <=> x[3] < slice[r] \/ x[3] = slice[r]
        BY <1>2, <3>1
      <3> QED
        BY <1>1, <1>3, <2>1, <2>2, <3>2 DEF Reached
    <2> QED
      BY <1>4, <2>2, <2>3 DEF Reached
  <1>7. created[r] = Reached(r)
    BY <1>1 DEF LaidOut
  <1>8. ASSUME NEW o \in Requests, o # r
        PROVE  /\ created'[o] = created[o] /\ slice'[o] = slice[o] /\ next'[o] = next[o]
               /\ Reached(o)' = Reached(o)
    BY <1>1, <1>8 DEF IndInv, TypeOK, Reached
  <1> QED
    BY <1>1, <1>5, <1>6, <1>7, <1>8 DEF LaidOut

LEMMA WindowKeepsLaidOut ==
    ASSUME IndInv, LaidOut, NEW r \in Requests, NextWindow(r)
    PROVE  LaidOut'
  <1>1. /\ pc[r] = "insert" /\ req[r].op = "CreateTimeslot"
        /\ ~SliceFits(req[r], next[r], slice[r])
        /\ next' = [next EXCEPT ![r] = @ + 1]
        /\ slice' = [slice EXCEPT ![r] = 1]
        /\ IF next[r] < Len(req[r].Availability) THEN UNCHANGED pc
                                                 ELSE pc' = [pc EXCEPT ![r] = "commit"]
        /\ UNCHANGED <<req, created>>
    BY DEF NextWindow, Goto
  <1>2. /\ req[r] \in Request /\ ValidCreateTimeslot(req[r])
        /\ next[r] \in Nat \ {0} /\ slice[r] \in Nat \ {0}
    BY <1>1, ValidByOperation DEF IndInv, TypeOK, Places
  <1>3. /\ next[r] \in DOMAIN req[r].Availability
        /\ next[r] <= Len(req[r].Availability) /\ Len(req[r].Availability) \in Nat
    BY <1>1, <1>2, RequestFields DEF IndInv, Offering
  <1>4. /\ next'[r] = next[r] + 1 /\ slice'[r] = 1
        /\ pc'[r] \in {"insert", "commit"}
        /\ pc'[r] = "commit" => next[r] = Len(req[r].Availability)
    BY <1>1, <1>2, <1>3 DEF IndInv, TypeOK
  <1>5. Reached(r)' = Reached(r)
    <2>1. Reached(r)' =
             {x \in NewSlots :
                /\ x[1] = r /\ x[2] \in DOMAIN req[r].Availability
                /\ SliceFits(req[r], x[2], x[3])
                /\ x[2] < next[r] + 1 \/ (x[2] = next[r] + 1 /\ x[3] < 1)}
      BY <1>1, <1>4 DEF Reached
    <2>2. ASSUME NEW x \in NewSlots, x[1] = r, x[2] \in DOMAIN req[r].Availability,
                 SliceFits(req[r], x[2], x[3])
          PROVE  (x[2] < next[r] + 1 \/ (x[2] = next[r] + 1 /\ x[3] < 1))
                   <=> (x[2] < next[r] \/ (x[2] = next[r] /\ x[3] < slice[r]))
      <3>1. x[2] \in Nat /\ x[3] \in Nat \ {0}
        BY SchemaAssumption DEF NewSlots
      <3>2. x[2] = next[r] => x[3] < slice[r]
        <4> SUFFICES ASSUME x[2] = next[r], slice[r] <= x[3] PROVE FALSE
          BY <1>2, <3>1
        <4>1. SliceFits(req[r], next[r], slice[r])
          BY <1>2, <1>3, <2>2, <3>1, EarlierFits
        <4> QED
          BY <1>1, <4>1
      <3> QED
        BY <1>2, <3>1, <3>2
    <2> QED
      BY <2>1, <2>2 DEF Reached
  <1>6. created'[r] = Reached(r)'
    BY <1>1, <1>5 DEF LaidOut
  <1>7. ASSUME NEW o \in Requests, o # r
        PROVE  /\ created'[o] = created[o] /\ slice'[o] = slice[o] /\ next'[o] = next[o]
               /\ pc'[o] = pc[o] /\ Reached(o)' = Reached(o)
    BY <1>1, <1>7 DEF IndInv, TypeOK, Reached
  <1> QED
    BY <1>1, <1>4, <1>6, <1>7 DEF LaidOut

\* A move of another operation, or one that leaves the loops where they are.
LEMMA QuietKeepsLaidOut ==
    ASSUME IndInv, LaidOut, NEW r \in Requests, UNCHANGED <<req, slice, created>>,
           \A o \in Requests \ {r} : pc'[o] = pc[o] /\ next'[o] = next[o],
           \/ req[r].op # "CreateTimeslot"
           \/ /\ next'[r] = next[r]
              /\ \/ pc'[r] \in {pc[r], "done"}
                 \/ pc[r] = "idle" /\ pc'[r] = "acquire"
    PROVE  LaidOut'
  <1>1. ASSUME NEW o \in Requests, next'[o] = next[o]
        PROVE  Reached(o)' = Reached(o)
    BY <1>1 DEF Reached
  <1> QED
    BY <1>1 DEF LaidOut

\* BEGIN: nothing is inserted yet.
LEMMA BeginKeepsLaidOut ==
    ASSUME IndInv, LaidOut, NEW r \in Requests, withTx(r)
    PROVE  LaidOut'
  <1>1. /\ pc[r] = "acquire" /\ pc' = [pc EXCEPT ![r] = "insert"]
        /\ UNCHANGED <<req, next, slice, created>>
    BY DEF withTx, Acquire, CanAcquire, Goto, loops
  <1>2. \A o \in Requests : Reached(o)' = Reached(o)
    BY <1>1 DEF Reached
  <1>3. req[r].op = "CreateTimeslot" => created[r] = Reached(r)
    <2> SUFFICES ASSUME req[r].op = "CreateTimeslot" PROVE created[r] = Reached(r)
      OBVIOUS
    <2>1. next[r] = 1 /\ slice[r] = 1 /\ created[r] = {}
      BY <1>1 DEF IndInv, Offering, LaidOut
    <2>2. \A x \in NewSlots : x[2] \in Nat \ {0} /\ x[3] \in Nat \ {0}
      BY SchemaAssumption DEF NewSlots
    <2>3. \A x \in NewSlots : ~(x[2] < 1 \/ (x[2] = 1 /\ x[3] < 1))
      BY <2>2
    <2> QED
      BY <2>1, <2>3 DEF Reached
  <1>4. pc'[r] = "insert" /\ \A o \in Requests \ {r} : pc'[o] = pc[o]
    BY <1>1 DEF IndInv, TypeOK
  <1> QED
    BY <1>1, <1>2, <1>3, <1>4 DEF LaidOut

LEMMA MoveKeepsLaidOut ==
    ASSUME IndInv, LaidOut, NEW r \in Requests, Moves(r)
    PROVE  LaidOut'
  <1>1. CASE \/ Accept(r) \/ Reject(r) \/ CreateTimeslotFails(r)
             \/ CommitAvailability(r) \/ Cancel(r) \/ CancelTooLate(r)
    <2>1. /\ UNCHANGED <<req, next, slice, created>>
          /\ \A o \in Requests \ {r} : pc'[o] = pc[o]
          /\ pc'[r] \in {pc[r], "done"} \/ (pc[r] = "idle" /\ pc'[r] = "acquire")
      BY <1>1 DEF Accept, Reject, CreateTimeslotFails, CommitAvailability, Cancel,
                  CancelTooLate, Finish, Goto, loops, IndInv, TypeOK
    <2> QED
      BY <2>1, QuietKeepsLaidOut
  <1>2. CASE \/ CreateUser(r) \/ CommitUser(r) \/ CreateMeeting(r) \/ SlotTaken(r)
             \/ LockTimeslotKey(r) \/ TimeslotMissing(r) \/ AddMeetingParticipant(r)
             \/ CommitMeeting(r)
    <2>1. req[r].op # "CreateTimeslot"
      BY <1>2 DEF CreateUser, CommitUser, CreateMeeting, SlotTaken, LockTimeslotKey,
                  TimeslotMissing, AddMeetingParticipant, CommitMeeting, IndInv, Places
    <2>2. /\ UNCHANGED <<req, slice, created>>
          /\ \A o \in Requests \ {r} : pc'[o] = pc[o] /\ next'[o] = next[o]
      BY <1>2 DEF CreateUser, CommitUser, CreateMeeting, SlotTaken, LockTimeslotKey,
                  TimeslotMissing, AddMeetingParticipant, CommitMeeting, Finish, Goto,
                  Acquire, loops, IndInv, TypeOK
    <2> QED
      BY <2>1, <2>2, QuietKeepsLaidOut
  <1>3. CASE \/ ScanFindsNone(r) \/ ScanFindsRow(r) \/ ScanFailsCheck(r) \/ LockRow(r)
             \/ RowGone(r) \/ CommitUpdate(r) \/ CommitDelete(r) \/ Query(r)
             \/ ReturnRows(r)
    <2>1. req[r].op # "CreateTimeslot"
      BY <1>3 DEF ScanFindsNone, ScanFindsRow, ScanFailsCheck, LockRow, RowGone,
                  CommitUpdate, CommitDelete, Query, ReturnRows, IndInv, Places
    <2>2. /\ UNCHANGED <<req, slice, created>>
          /\ \A o \in Requests \ {r} : pc'[o] = pc[o] /\ next'[o] = next[o]
      BY <1>3 DEF ScanFindsNone, ScanFindsRow, ScanFailsCheck, LockRow, RowGone,
                  CommitUpdate, CommitDelete, Query, ReturnRows, Finish, Goto, Acquire,
                  loops, IndInv, TypeOK
    <2> QED
      BY <2>1, <2>2, QuietKeepsLaidOut
  <1> QED
    BY <1>1, <1>2, <1>3, BeginKeepsLaidOut, SliceKeepsLaidOut, WindowKeepsLaidOut
       DEF Moves, Step

\* The slices the loops leave behind are those of the division.
LEMMA AllSlices ==
    ASSUME IndInv, LaidOut, NEW r \in Requests, pc[r] = "commit",
           req[r].op = "CreateTimeslot"
    PROVE  created[r] = Slices(r)
  <1>1. req[r] \in Request /\ ValidCreateTimeslot(req[r])
    BY ValidByOperation DEF IndInv, TypeOK, Places
  <1>2. /\ created[r] = Reached(r)
        /\ next[r] = Len(req[r].Availability) + 1
    BY DEF LaidOut
  <1>3. /\ DOMAIN req[r].Availability = 1 .. Len(req[r].Availability)
        /\ Len(req[r].Availability) \in Nat
    BY <1>1, RequestFields DEF ValidCreateTimeslot
  <1>4. ASSUME NEW x \in NewSlots, x[2] \in DOMAIN req[r].Availability
        PROVE  /\ x[2] < next[r]
               /\ SliceFits(req[r], x[2], x[3]) <=>
                    x[3] <= (req[r].Availability[x[2]].EndAt
                               - req[r].Availability[x[2]].StartAt) \div slot(req[r])
    <2>1. x[3] \in Nat \ {0}
      BY SchemaAssumption DEF NewSlots
    <2>2. x[2] < next[r]
      BY <1>2, <1>3, <1>4
    <2> QED
      BY <1>1, <1>4, <2>1, <2>2, FitsBySlices
  <1>5. Reached(r) = Slices(r)
    BY <1>4 DEF Reached, Slices
  <1> QED
    BY <1>2, <1>5

\* Only the COMMIT of r's own offer makes r's timeslots appear.
LEMMA BornByCommit ==
    ASSUME IndInv, IndInv', LaidOut, NEW o \in Requests, Moves(o),
           NEW r \in Requests, NEW s \in NewSlots, s[1] = r, ~Exists(s), Exists(s)'
    PROVE  o = r /\ CommitAvailability(r)
  <1>1. s \in Slots
    BY DEF Slots
  <1>2. CASE CommitAvailability(o)
    <2>1. s \in created[o]
      BY <1>1, <1>2, AvailabilityCommitted DEF IndInv, Exists
    <2> QED
      BY <1>2, <2>1, AvailabilityCommitted DEF IndInv
  <1>3. CASE CommitUpdate(o)
    BY <1>1, <1>3, UpdateCommitted DEF IndInv, Exists
  <1>4. CASE CommitDelete(o)
    BY <1>1, <1>4, DeleteCommitted DEF IndInv, Exists
  <1>5. CASE ~(CommitAvailability(o) \/ CommitUpdate(o) \/ CommitDelete(o))
    <2>1. UNCHANGED timeslots
      BY <1>5 DEF Moves, Step, Accept, Reject, withTx, CreateUser, CommitUser,
         CreateTimeslot, CreateTimeslotFails, NextWindow, CreateMeeting, SlotTaken,
         LockTimeslotKey, TimeslotMissing, AddMeetingParticipant, CommitMeeting,
         ScanFindsNone, ScanFindsRow, ScanFailsCheck, LockRow, RowGone, Query,
         ReturnRows, Cancel, CancelTooLate, tables
    <2> QED
      BY <2>1 DEF Exists
  <1> QED
    BY <1>2, <1>3, <1>4, <1>5

\* The timeslots of an offer appear in one step: every whole slice of its windows,
\* each as long as the duration asked for, and none besides.
THEOREM OffersAreWhole == Spec => AvailabilityAppearsWhole
  <1>1. Init => LaidOut
    BY DEF Init, LaidOut
  <1>2. IndInv /\ LaidOut /\ [Next]_vars => LaidOut'
    <2> SUFFICES ASSUME IndInv, LaidOut, [Next]_vars PROVE LaidOut'
      OBVIOUS
    <2>1. ASSUME NEW r \in Requests, Moves(r) PROVE LaidOut'
      BY <2>1, MoveKeepsLaidOut
    <2>2. CASE UNCHANGED vars
      <3>1. UNCHANGED <<req, pc, next, slice, created>>
        BY <2>2 DEF vars, loops
      <3> QED
        BY <3>1 DEF LaidOut, Reached
    <2> QED
      BY <2>1, <2>2 DEF Next, Quiescent, Moves
  <1> DEFINE Born(r) == {s \in NewSlots : s[1] = r /\ ~Exists(s) /\ Exists(s)'}
             Whole(r) == Born(r) # {} =>
                /\ Born(r) = Slices(r)
                /\ \A s \in Born(r) : timeslots'[s].end_at - timeslots'[s].start_at =
                                          slot(req[r]) \div Micro
  <1>3. ASSUME IndInv, IndInv', LaidOut, [Next]_vars, NEW r \in Requests
        PROVE  Whole(r)
    <2>1. SUFFICES ASSUME Born(r) # {}
                   PROVE  /\ Born(r) = Slices(r)
                          /\ \A s \in Born(r) :
                                timeslots'[s].end_at - timeslots'[s].start_at =
                                    slot(req[r]) \div Micro
      OBVIOUS
    <2>2. CommitAvailability(r)
      <3>1. CASE UNCHANGED vars
        BY <2>1, <3>1 DEF vars, tables, Exists
      <3>2. ASSUME NEW o \in Requests, Moves(o)
            PROVE  CommitAvailability(r)
        BY <1>3, <2>1, <3>2, BornByCommit
      <3> QED
        BY <1>3, <3>1, <3>2 DEF Next, Quiescent, Moves
    <2>3. /\ pc[r] = "commit" /\ req[r].op = "CreateTimeslot"
          /\ req[r] \in Request /\ ValidCreateTimeslot(req[r])
      BY <1>3, <2>2, ValidByOperation DEF CommitAvailability, IndInv, TypeOK, Places
    <2>4. created[r] = Slices(r)
      BY <1>3, <2>3, AllSlices
    <2>5. Born(r) = created[r]
      <3>1. ASSUME NEW s \in created[r]
            PROVE  s \in NewSlots /\ s[1] = r /\ ~Exists(s) /\ Exists(s)'
        <4>1. s \in NewSlots /\ s[1] = r /\ Exists(s)'
          BY <1>3, <2>2, AvailabilityCommitted DEF IndInv, Exists
        <4> QED
          BY <1>3, <2>3, <4>1 DEF IndInv, Settled
      <3>2. ASSUME NEW s \in Born(r) PROVE s \in created[r]
        BY <1>3, <2>2, AvailabilityCommitted DEF IndInv, Exists, Slots
      <3> QED
        BY <3>1, <3>2
    <2>6. ASSUME NEW s \in created[r]
          PROVE  timeslots'[s].end_at - timeslots'[s].start_at = slot(req[r]) \div Micro
      <3>1. /\ s \in NewSlots /\ s[3] \in Nat \ {0}
            /\ s[2] \in DOMAIN req[r].Availability
        BY <1>3, SchemaAssumption DEF IndInv, TypeOK, Inserted, NewSlots
      <3>2. timeslots'[s] = SliceRow(req[r], s[2], s[3])
        BY <2>2, <3>1 DEF CommitAvailability, Slots
      <3> QED
        BY <2>3, <3>1, <3>2, SliceLasts
    <2> QED
      BY <2>4, <2>5, <2>6
  <1>4. IndInv /\ IndInv' /\ LaidOut /\ [Next]_vars => \A r \in Requests : Whole(r)
    BY <1>3
  <1> QED
    BY <1>1, <1>2, <1>4, Invariance, PTL DEF Spec, AvailabilityAppearsWhole
=============================================================================
