------------------------------ MODULE Calendar ------------------------------
(***************************************************************************)
(* What the scheduling service promises its users, with every operation a  *)
(* single step on the tables: users offer timeslots, a timeslot carries at *)
(* most one meeting, a meeting comes with all of its participants, and a   *)
(* timeslot is deleted together with what is booked on it.                 *)
(*                                                                         *)
(* It does not say that a booked timeslot is left alone, as the README     *)
(* does: two requests that race break that.  What holds of it is stated    *)
(* in module RealTime.                                                     *)
(***************************************************************************)
CONSTANTS Users, Slots, Meetings, Emails, Timeslot, NoRow

VARIABLES users, timeslots, meetings, participants

vars == <<users, timeslots, meetings, participants>>

Booked(s) == \E m \in Meetings : meetings[m] = s

Init ==
    /\ users \subseteq Users
    /\ timeslots \in [Slots -> Timeslot \cup {NoRow}]
    /\ meetings = [m \in Meetings |-> NoRow]
    /\ participants = [m \in Meetings |-> {}]

CreateUser ==
    /\ \E u \in Users : users' = users \cup {u}
    /\ UNCHANGED <<timeslots, meetings, participants>>

\* Any number of new slots of one user appear at once, and no other changes.
CreateAvailability ==
    /\ timeslots' \in [Slots -> Timeslot \cup {NoRow}]
    /\ \E u \in users : \A s \in Slots :
           timeslots'[s] # timeslots[s] =>
               timeslots[s] = NoRow /\ timeslots'[s].user_id = u
    /\ UNCHANGED <<users, meetings, participants>>

\* The slot keeps its owner; its times and duration are replaced.
UpdateTimeslot(s) ==
    /\ timeslots[s] # NoRow
    /\ timeslots' \in [Slots -> Timeslot \cup {NoRow}]
    /\ timeslots'[s] # NoRow /\ timeslots'[s].user_id = timeslots[s].user_id
    /\ \A x \in Slots \ {s} : timeslots'[x] = timeslots[x]
    /\ UNCHANGED <<users, meetings, participants>>

DeleteTimeslot(s) ==
    /\ timeslots[s] # NoRow
    /\ timeslots' = [timeslots EXCEPT ![s] = NoRow]
    /\ meetings' = [m \in Meetings |-> IF meetings[m] = s THEN NoRow ELSE meetings[m]]
    /\ participants' = [m \in Meetings |-> IF meetings[m] = s THEN {} ELSE participants[m]]
    /\ UNCHANGED users

BookMeeting(m, s) ==
    /\ timeslots[s] # NoRow /\ ~Booked(s)
    /\ meetings[m] = NoRow
    /\ meetings' = [meetings EXCEPT ![m] = s]
    /\ \E people \in SUBSET Emails : participants' = [participants EXCEPT ![m] = people]
    /\ UNCHANGED <<users, timeslots>>

Next ==
    \/ CreateUser
    \/ CreateAvailability
    \/ \E s \in Slots : UpdateTimeslot(s) \/ DeleteTimeslot(s)
    \/ \E s \in Slots, m \in Meetings : BookMeeting(m, s)

Spec == Init /\ [][Next]_vars
=============================================================================
