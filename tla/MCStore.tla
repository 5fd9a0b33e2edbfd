------------------------------ MODULE MCStore ------------------------------
(***************************************************************************)
(* Instances of Store for TLC.  Time has two ticks to the microsecond and  *)
(* to the minute, and a slot lasts one or two minutes, so that times below *)
(* the resolution of a timestamptz are among the inputs.                   *)
(***************************************************************************)
EXTENDS Store, TLC

CONSTANTS Bookers, Deleters, Updaters, Creators, Joiners, Readers, e1, e2

MCRequests ==
    Bookers \cup Deleters \cup Updaters \cup Creators \cup Joiners \cup Readers

Row(u, from, to, mins) ==
    [user_id |-> u, start_at |-> from, end_at |-> to, duration_mins |-> mins]

\* Every stored slot is one tenant's, at the same time: nothing in the code
\* keeps a user from offering overlapping slots.
MCStored == [s \in StoredSlots |-> Row(CHOOSE t \in Tenants : TRUE, 0, 2, 1)]

Book(s, titled, people) ==
    [op |-> "CreateMeeting", TimeslotID |-> s, titled |-> titled, Attendees |-> people]
Delete(s) == [op |-> "DeleteTimeslot", TimeslotID |-> s]
Update(s, from, to, mins) ==
    [op |-> "UpdateTimeslot", TimeslotID |-> s, StartAt |-> from, EndAt |-> to,
     DurationMins |-> mins]
Offer(u, windows, mins) ==
    [op |-> "CreateTimeslot", UserID |-> u, Availability |-> windows,
     DurationMins |-> mins]
Win(from, to) == [StartAt |-> from, EndAt |-> to]
Join(good) == [op |-> "CreateUser", goodName |-> good]
List(u, from, to, now) ==
    [op |-> "GetAllotted", UserID |-> u, DateStart |-> from, DateEnd |-> to, Now |-> now]
See(u) == [op |-> "GetCalendar", UserID |-> u]

-----------------------------------------------------------------------------
\* Bookings, an update and a deletion race for stored slots.
RaceInputs ==
    [r \in MCRequests |->
        CASE r \in Bookers ->
               {Book(s, TRUE, p) : s \in StoredSlots, p \in {<< >>, <<e1, e2>>, <<e1, e1>>}}
                 \cup {Book(BadID, TRUE, << >>)}
          [] r \in Deleters -> {Delete(s) : s \in StoredSlots \cup {BadID}}
          [] OTHER ->
               {Update(s, 4, 8, 2) : s \in StoredSlots}
                 \cup {Update(s, 4, 5, 1) : s \in StoredSlots}
                 \cup {Update(BadID, 4, 8, 2)}]

\* A user registers, offers windows, and the new slots are booked, and deleted or
\* listed.
OfferInputs ==
    LET new == {<<c, i, k>> : c \in Creators, i \in 1..2, k \in 1..2} IN
    [r \in MCRequests |->
        CASE r \in Joiners -> {Join(TRUE), Join(FALSE)}
          [] r \in Creators ->
               {Offer(u, w, m) :
                   u \in Joiners \cup Tenants, m \in {1, 2},
                   w \in {<<Win(0, 4)>>, <<Win(1, 6), Win(3, 8)>>, <<Win(3, 4)>>}}
                 \cup {Offer(u, << >>, 1) : u \in Joiners}
                 \cup {Offer(u, <<Win(0, 6)>>, m) : u \in Joiners, m \in {0, 3}}
                 \cup {Offer(u, <<Win(0, 4), Win(4, 4)>>, 1) : u \in Joiners}
                 \cup {Offer(BadID, <<Win(0, 4)>>, 1)}
          [] r \in Bookers ->
               {Book(s, TRUE, <<e1>>) : s \in new}
                 \cup {Book(<<c, 1, 1>>, FALSE, <<e1>>) : c \in Creators}
          [] OTHER ->
               {Delete(s) : s \in new}
                 \cup {See(u) : u \in Tenants} \cup {List(u, 0, 8, 1) : u \in Joiners}
                 \cup {See(BadID)}]

\* The plainest valid requests for a stored slot.
PlainInputs ==
    [r \in MCRequests |->
        CASE r \in Bookers -> {Book(s, TRUE, <<e1>>) : s \in StoredSlots}
          [] r \in Deleters -> {Delete(s) : s \in StoredSlots}
          [] OTHER -> {Update(s, 4, 8, 2) : s \in StoredSlots}]
=============================================================================
