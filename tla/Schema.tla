------------------------------- MODULE Schema -------------------------------
(***************************************************************************)
(* The rows of the four tables of the doodle schema, the identities they   *)
(* are keyed by, and the two representations of time a request meets: the  *)
(* nanosecond time.Time of the handlers and the microsecond timestamptz of *)
(* the tables.                                                             *)
(*                                                                         *)
(* uuid.New() never repeats, so an identity is named by the call that      *)
(* draws it: request r creates the user r, the meeting r, and the timeslot *)
(* <<r, i, k>> for the k-th slice of the i-th window it offers.  Tenants   *)
(* and StoredSlots are the rows an earlier process left in the database.   *)
(***************************************************************************)
EXTENDS Integers, Sequences, FiniteSets

CONSTANTS
    Requests,        \* the HTTP requests of one run of the service
    Tenants,         \* users already in the database when it starts
    StoredSlots,     \* timeslots already in the database when it starts
    Emails,          \* attendee emails, plain text
    NoRow,           \* no row under this key
    MaxWindows,      \* bound: windows of one POST /timeslots
    MaxSlices,       \* bound: slots one window is cut into
    Micro,           \* ticks of a time.Time in one microsecond (1000)
    Minute,          \* ticks of a time.Time in one minute
    minDurationMins, \* 10
    maxDurationMins  \* 60

Users == Requests \cup Tenants

NewSlots == Requests \X (1..MaxWindows) \X (1..MaxSlices)

Slots == NewSlots \cup StoredSlots

\* A row of doodle.timeslots, under its timeslot_id.
Timeslot == [user_id : Users, start_at : Nat, end_at : Nat, duration_mins : Int]

\* What storing a time.Time in a timestamptz column keeps of it: whole
\* microseconds.
PgTime(t) == t \div Micro

\* The row INSERT and UPDATE build from the handler's time.Time values.
TimeslotRow(user, start, end, mins) ==
    [user_id |-> user, start_at |-> PgTime(start), end_at |-> PgTime(end),
     duration_mins |-> mins]

\* The CHECK constraints min_duration, max_duration and valid_timeslot_period.
SatisfiesChecks(row) ==
    /\ row.duration_mins >= minDurationMins
    /\ row.duration_mins <= maxDurationMins
    /\ row.end_at > row.start_at

\* A minute is a whole number of microseconds, a slot lasts at least one
\* minute, and the sentinel is neither a key nor a row.
ASSUME SchemaAssumption ==
    /\ IsFiniteSet(Requests)
    /\ MaxWindows \in Nat /\ MaxSlices \in Nat
    /\ Micro \in Nat \ {0}
    /\ Minute \in Nat \ {0} /\ Minute % Micro = 0
    /\ minDurationMins \in Nat \ {0}
    /\ maxDurationMins \in Nat
    /\ NoRow \notin Slots
    /\ NoRow \notin Timeslot
    /\ NewSlots \cap StoredSlots = {}
=============================================================================
