------------------------------- MODULE Store -------------------------------
(***************************************************************************)
(* The storage layer (internal/storage) under concurrent requests: every   *)
(* handler, from the connection it takes from the pool to the end of its   *)
(* transaction or query, against PostgreSQL at READ COMMITTED.             *)
(*                                                                         *)
(* users, timeslots, meetings and participants are the committed tables.   *)
(* What a transaction has written and not committed is given by its        *)
(* request, its program counter and its loop variables; so are the locks   *)
(* it holds (the lock section below).  A statement is not one step: it     *)
(* reads in the snapshot taken when it starts and writes later, when no    *)
(* conflicting lock is held.                                               *)
(*                                                                         *)
(* An operator A_Bug, before the operator A, is A with a plausible mistake *)
(* in it.  No specification uses it: put in the place of A, it makes a     *)
(* property below fail, which shows that the property watches A.           *)
(***************************************************************************)
EXTENDS Handlers

CONSTANTS
    Inputs,          \* Inputs[r]: what the client of r may send
    StoredTimeslots, \* the rows of StoredSlots
    MaxConns,        \* pool_max_conns
    Cancellable      \* requests whose context or connection may be lost

ASSUME StoreAssumption ==
    /\ MaxConns \in Nat \ {0}
    /\ Cancellable \subseteq Requests
    /\ StoredTimeslots \in [StoredSlots -> Timeslot]
    /\ \A s \in StoredSlots : /\ StoredTimeslots[s].user_id \in Tenants
                              /\ SatisfiesChecks(StoredTimeslots[s])
    /\ DOMAIN Inputs = Requests
    /\ \A r \in Requests : Inputs[r] \subseteq Request

\* The bounds leave room for every slice of every window a client offers.
ASSUME BoundsAssumption ==
    \A r \in Requests : \A q \in Inputs[r] :
        ValidCreateTimeslot(q) =>
            /\ Len(q.Availability) <= MaxWindows
            /\ \A i \in DOMAIN q.Availability : ~SliceFits(q, i, MaxSlices + 1)

VARIABLES
    users,        \* set of user_id
    timeslots,    \* [Slots -> Timeslot or NoRow]
    meetings,     \* [meeting_id -> timeslot_id or NoRow]
    participants, \* [meeting_id -> set of attendee_email]
    req,          \* the request each client sends
    pc,           \* where its handler, or its backend, is
    next,         \* the next attendee, or the current window
    slice,        \* the next slice of the current window
    created,      \* timeslots inserted by the open transaction
    rows,         \* what a listing has read
    conn,         \* requests holding a pooled connection
    status        \* the HTTP status answered, 0 before

tables == <<users, timeslots, meetings, participants>>
loops == <<next, slice, created, rows>>
vars == <<tables, req, pc, loops, conn, status>>

PCs == {"idle", "acquire", "insert", "fkey", "people", "write", "read", "commit",
        "done"}
Statuses == {0, 200, 201, 204, 400, 409, 500}

Init ==
    /\ users = Tenants
    /\ timeslots = [s \in Slots |-> IF s \in StoredSlots THEN StoredTimeslots[s]
                                                         ELSE NoRow]
    /\ meetings = [m \in Requests |-> NoRow]
    /\ participants = [m \in Requests |-> {}]
    /\ req \in {f \in [Requests -> UNION {Inputs[r] : r \in Requests}] :
                    \A r \in Requests : f[r] \in Inputs[r]}
    /\ pc = [r \in Requests |-> "idle"]
    /\ next = [r \in Requests |-> 1]
    /\ slice = [r \in Requests |-> 1]
    /\ created = [r \in Requests |-> {}]
    /\ rows = [r \in Requests |-> {}]
    /\ conn = {}
    /\ status = [r \in Requests |-> 0]

-----------------------------------------------------------------------------
(* Locks and visibility, as PostgreSQL gives them to these statements.     *)

Exists(s) == timeslots[s] # NoRow

\* A committed meeting row references s: EXISTS (SELECT 1 FROM meetings ...).
Booked(s) == \E m \in Requests : meetings[m] = s

On(o, op, s) == req[o].op = op /\ req[o].TimeslotID = s

\* o's open transaction has entered s in the UNIQUE (timeslot_id) index.
HasEntered(o, s) ==
    pc[o] \in {"fkey", "people", "commit"} /\ On(o, "CreateMeeting", s)

\* o holds FOR KEY SHARE on the row of s: its foreign key check has passed.
HoldsKeyShare(o, s) ==
    pc[o] \in {"people", "commit"} /\ On(o, "CreateMeeting", s)

\* o has written a new version of the row of s (FOR NO KEY UPDATE), or its
\* deletion (FOR UPDATE), and has not committed.
HasUpdated(o, s) == pc[o] = "commit" /\ On(o, "UpdateTimeslot", s)
HasDeleted(o, s) == pc[o] = "commit" /\ On(o, "DeleteTimeslot", s)
HasWritten(o, s) == HasUpdated(o, s) \/ HasDeleted(o, s)

\* DELETE conflicts with every lock on the row.  UPDATE, which changes no key
\* column, does not conflict with a foreign key check's KEY SHARE.
UpdateMustWait(r, s) == \E o \in Requests \ {r} : HasWritten(o, s)

DeleteMustWait(r, s) ==
    UpdateMustWait(r, s) \/ \E o \in Requests \ {r} : HoldsKeyShare(o, s)

\* A key already entered by an open transaction, or being deleted by one,
\* makes the unique check wait for that transaction.
UniqueMustWait(r, s) ==
    \E o \in Requests \ {r} : HasEntered(o, s) \/ (HasDeleted(o, s) /\ Booked(s))

KeyShareMustWait(r, s) == \E o \in Requests \ {r} : HasDeleted(o, s)

-----------------------------------------------------------------------------
(* How a request moves on, ends, and takes and returns its connection.     *)

Goto(r, l) == pc' = [pc EXCEPT ![r] = l]

\* A connection is idle in the pool.
CanAcquire(r) == pc[r] = "acquire" /\ Cardinality(conn) < MaxConns

\* r takes it, for a transaction or for one statement.
Acquire(r) ==
    /\ CanAcquire(r)
    /\ conn' = conn \cup {r}

\* r's transaction has ended: its connection goes back and, unless the client
\* has been answered already, the handler answers code.
Finish(r, code) ==
    /\ Goto(r, "done")
    /\ conn' = conn \ {r}
    /\ status' = [status EXCEPT ![r] = IF @ = 0 THEN code ELSE @]

\* The handler has been called, and its checks pass or fail.
Accept(r) ==
    /\ pc[r] = "idle"
    /\ Valid(req[r])
    /\ Goto(r, "acquire")
    /\ UNCHANGED <<tables, req, loops, conn, status>>

Reject(r) ==
    /\ pc[r] = "idle"
    /\ ~Valid(req[r])
    /\ Finish(r, 400)
    /\ UNCHANGED <<tables, req, loops>>

\* withTx opens the transaction in which fn will run.
withTx(r) ==
    /\ req[r].op \in {"CreateTimeslot", "CreateMeeting"}
    /\ Acquire(r)
    /\ Goto(r, "insert")
    /\ UNCHANGED <<tables, req, loops, status>>

-----------------------------------------------------------------------------
(* CreateUser: one autocommitted INSERT that nothing can conflict with.    *)

CreateUser(r) ==
    /\ req[r].op = "CreateUser"
    /\ Acquire(r)
    /\ Goto(r, "commit")
    /\ UNCHANGED <<tables, req, loops, status>>

CommitUser(r) ==
    /\ pc[r] = "commit" /\ req[r].op = "CreateUser"
    /\ users' = users \cup {r}
    /\ Finish(r, 201)
    /\ UNCHANGED <<timeslots, meetings, participants, req, loops>>

-----------------------------------------------------------------------------
(* CreateAvailability: a loop over the windows, and in it one over slices. *)

\* The loop asks whether the slice starts inside the window, not ends there.
CreateTimeslot_StartFits(r) ==
    /\ pc[r] = "insert" /\ req[r].op = "CreateTimeslot"
    /\ SliceStart(req[r], next[r], slice[r]) <= req[r].Availability[next[r]].EndAt
    /\ req[r].UserID \in users
    /\ created' = [created EXCEPT ![r] = @ \cup {<<r, next[r], slice[r]>>}]
    /\ slice' = [slice EXCEPT ![r] = @ + 1]
    /\ UNCHANGED <<tables, req, pc, next, rows, conn, status>>

\* One INSERT INTO timeslots.  The user row must be committed (foreign key).
CreateTimeslot(r) ==
    /\ pc[r] = "insert" /\ req[r].op = "CreateTimeslot"
    /\ SliceFits(req[r], next[r], slice[r])
    /\ req[r].UserID \in users
    /\ created' = [created EXCEPT ![r] = @ \cup {<<r, next[r], slice[r]>>}]
    /\ slice' = [slice EXCEPT ![r] = @ + 1]
    /\ UNCHANGED <<tables, req, pc, next, rows, conn, status>>

\* The user may be on the way: rollback, and the transaction is begun again.
CreateTimeslotFails_Retried(r) ==
    /\ pc[r] = "insert" /\ req[r].op = "CreateTimeslot"
    /\ SliceFits(req[r], next[r], slice[r])
    /\ req[r].UserID \notin users
    /\ Goto(r, "acquire")
    /\ conn' = conn \ {r}
    /\ UNCHANGED <<tables, req, loops, status>>

\* ErrForeignKeyConstraintViolation: rollback, and a 500.
CreateTimeslotFails(r) ==
    /\ pc[r] = "insert" /\ req[r].op = "CreateTimeslot"
    /\ SliceFits(req[r], next[r], slice[r])
    /\ req[r].UserID \notin users
    /\ Finish(r, 500)
    /\ UNCHANGED <<tables, req, loops>>

\* fn returns at the end of the first window.
NextWindow_OnlyFirst(r) ==
    /\ pc[r] = "insert" /\ req[r].op = "CreateTimeslot"
    /\ ~SliceFits(req[r], next[r], slice[r])
    /\ Goto(r, "commit")
    /\ next' = [next EXCEPT ![r] = @ + 1]
    /\ slice' = [slice EXCEPT ![r] = 1]
    /\ UNCHANGED <<tables, req, created, rows, conn, status>>

\* The window is used up: on to the next one, or to COMMIT.
NextWindow(r) ==
    /\ pc[r] = "insert" /\ req[r].op = "CreateTimeslot"
    /\ ~SliceFits(req[r], next[r], slice[r])
    /\ IF next[r] < Len(req[r].Availability)
         THEN UNCHANGED pc
         ELSE Goto(r, "commit")
    /\ next' = [next EXCEPT ![r] = @ + 1]
    /\ slice' = [slice EXCEPT ![r] = 1]
    /\ UNCHANGED <<tables, req, created, rows, conn, status>>

CommitAvailability(r) ==
    /\ pc[r] = "commit" /\ req[r].op = "CreateTimeslot"
    /\ timeslots' = [s \in Slots |->
                        IF s \in created[r] THEN SliceRow(req[r], s[2], s[3])
                                            ELSE timeslots[s]]
    /\ Finish(r, 201)
    /\ UNCHANGED <<users, meetings, participants, req, loops>>

-----------------------------------------------------------------------------
(* BookMeeting: the meeting row, its foreign key, then the attendees.      *)

\* meetings.timeslot_id without UNIQUE.
CreateMeeting_NotUnique(r) ==
    /\ pc[r] = "insert" /\ req[r].op = "CreateMeeting"
    /\ Goto(r, "fkey")
    /\ UNCHANGED <<tables, req, loops, conn, status>>

\* INSERT INTO meetings, up to its entry in the unique index.
CreateMeeting(r) ==
    /\ pc[r] = "insert" /\ req[r].op = "CreateMeeting"
    /\ ~UniqueMustWait(r, req[r].TimeslotID)
    /\ ~Booked(req[r].TimeslotID)
    /\ Goto(r, "fkey")
    /\ UNCHANGED <<tables, req, loops, conn, status>>

\* The unique violation is taken for a booking that was already made.
SlotTaken_Swallowed(r) ==
    /\ pc[r] = "insert" /\ req[r].op = "CreateMeeting"
    /\ ~UniqueMustWait(r, req[r].TimeslotID)
    /\ Booked(req[r].TimeslotID)
    /\ Finish(r, 201)
    /\ UNCHANGED <<tables, req, loops>>

\* IsUniqueConstraintErr: ErrSlotTaken, mapped to 409.
SlotTaken(r) ==
    /\ pc[r] = "insert" /\ req[r].op = "CreateMeeting"
    /\ ~UniqueMustWait(r, req[r].TimeslotID)
    /\ Booked(req[r].TimeslotID)
    /\ Finish(r, 409)
    /\ UNCHANGED <<tables, req, loops>>

\* meetings.timeslot_id without REFERENCES.
LockTimeslotKey_NoForeignKey(r) ==
    /\ pc[r] = "fkey"
    /\ Goto(r, IF req[r].Attendees = << >> THEN "commit" ELSE "people")
    /\ UNCHANGED <<tables, req, loops, conn, status>>

\* The same INSERT's foreign key check: SELECT 1 ... FOR KEY SHARE.
LockTimeslotKey(r) ==
    /\ pc[r] = "fkey"
    /\ ~KeyShareMustWait(r, req[r].TimeslotID)
    /\ Exists(req[r].TimeslotID)
    /\ Goto(r, IF req[r].Attendees = << >> THEN "commit" ELSE "people")
    /\ UNCHANGED <<tables, req, loops, conn, status>>

\* There is no such timeslot: ErrForeignKeyConstraintViolation, and a 500.
TimeslotMissing(r) ==
    /\ pc[r] = "fkey"
    /\ ~KeyShareMustWait(r, req[r].TimeslotID)
    /\ ~Exists(req[r].TimeslotID)
    /\ Finish(r, 500)
    /\ UNCHANGED <<tables, req, loops>>

\* The loop stops one attendee early.
AddMeetingParticipant_OffByOne(r) ==
    /\ pc[r] = "people"
    /\ next' = [next EXCEPT ![r] = @ + 1]
    /\ IF next[r] < Len(req[r].Attendees) - 1 THEN UNCHANGED pc ELSE Goto(r, "commit")
    /\ UNCHANGED <<tables, req, slice, created, rows, conn, status>>

\* fn calls s.AddMeetingParticipant, on the pool, instead of q's.
AddMeetingParticipant_OnPool(r) ==
    /\ pc[r] = "people"
    /\ Cardinality(conn) < MaxConns
    /\ next' = [next EXCEPT ![r] = @ + 1]
    /\ IF next[r] < Len(req[r].Attendees) THEN UNCHANGED pc ELSE Goto(r, "commit")
    /\ UNCHANGED <<tables, req, slice, created, rows, conn, status>>

\* One INSERT INTO meeting_participants on the transaction's own connection.
AddMeetingParticipant(r) ==
    /\ pc[r] = "people"
    /\ next' = [next EXCEPT ![r] = @ + 1]
    /\ IF next[r] < Len(req[r].Attendees) THEN UNCHANGED pc ELSE Goto(r, "commit")
    /\ UNCHANGED <<tables, req, slice, created, rows, conn, status>>

\* ON CONFLICT DO NOTHING: an email named twice is one row.
CommitMeeting(r) ==
    /\ pc[r] = "commit" /\ req[r].op = "CreateMeeting"
    /\ meetings' = [meetings EXCEPT ![r] = req[r].TimeslotID]
    /\ participants' = [participants EXCEPT
                            ![r] = {req[r].Attendees[j] : j \in 1 .. (next[r] - 1)}]
    /\ Finish(r, 201)
    /\ UNCHANGED <<users, timeslots, req, loops>>

-----------------------------------------------------------------------------
(* UpdateTimeslot and DeleteTimeslot: one autocommitted statement each.    *)

\* The row an UPDATE makes of s.
NewVersion(r, s) ==
    TimeslotRow(timeslots[s].user_id, req[r].StartAt, req[r].EndAt,
                req[r].DurationMins)

\* The handler does not ask how many rows the statement has changed.
ScanFindsNone_Unasked(r) ==
    /\ CanAcquire(r) /\ req[r].op \in {"UpdateTimeslot", "DeleteTimeslot"}
    /\ ~(Exists(req[r].TimeslotID) /\ ~Booked(req[r].TimeslotID))
    /\ Finish(r, 204)
    /\ UNCHANGED <<tables, req, loops>>

\* The WHERE clause finds no row in the statement's snapshot: 0 rows, a 409.
ScanFindsNone(r) ==
    /\ CanAcquire(r) /\ req[r].op \in {"UpdateTimeslot", "DeleteTimeslot"}
    /\ ~(Exists(req[r].TimeslotID) /\ ~Booked(req[r].TimeslotID))
    /\ Finish(r, 409)
    /\ UNCHANGED <<tables, req, loops>>

\* The WHERE clause without NOT EXISTS.
ScanFindsRow_AlsoBooked(r) ==
    /\ Acquire(r) /\ req[r].op \in {"UpdateTimeslot", "DeleteTimeslot"}
    /\ Exists(req[r].TimeslotID)
    /\ req[r].op = "UpdateTimeslot" =>
           SatisfiesChecks(NewVersion(r, req[r].TimeslotID))
    /\ Goto(r, "write")
    /\ UNCHANGED <<tables, req, loops, status>>

\* It finds an unbooked row there, and the statement goes on to write it.
ScanFindsRow(r) ==
    /\ Acquire(r) /\ req[r].op \in {"UpdateTimeslot", "DeleteTimeslot"}
    /\ Exists(req[r].TimeslotID) /\ ~Booked(req[r].TimeslotID)
    /\ req[r].op = "UpdateTimeslot" =>
           SatisfiesChecks(NewVersion(r, req[r].TimeslotID))
    /\ Goto(r, "write")
    /\ UNCHANGED <<tables, req, loops, status>>

\* The new version fails a CHECK constraint, before any lock: a 500.
ScanFailsCheck(r) ==
    /\ CanAcquire(r) /\ req[r].op = "UpdateTimeslot"
    /\ Exists(req[r].TimeslotID) /\ ~Booked(req[r].TimeslotID)
    /\ ~SatisfiesChecks(NewVersion(r, req[r].TimeslotID))
    /\ Finish(r, 500)
    /\ UNCHANGED <<tables, req, loops>>

MustWait(r) ==
    \/ req[r].op = "UpdateTimeslot" /\ UpdateMustWait(r, req[r].TimeslotID)
    \/ req[r].op = "DeleteTimeslot" /\ DeleteMustWait(r, req[r].TimeslotID)

\* The row is locked and written.  The WHERE clause is evaluated again only if
\* the row itself has a newer version, and its NOT EXISTS then still reads
\* meetings in the snapshot the statement started with.
LockRow(r) ==
    /\ pc[r] = "write"
    /\ ~MustWait(r)
    /\ Exists(req[r].TimeslotID)
    /\ Goto(r, "commit")
    /\ UNCHANGED <<tables, req, loops, conn, status>>

\* The row has been deleted meanwhile: 0 rows, a 409.
RowGone(r) ==
    /\ pc[r] = "write"
    /\ ~MustWait(r)
    /\ ~Exists(req[r].TimeslotID)
    /\ Finish(r, 409)
    /\ UNCHANGED <<tables, req, loops>>

\* The new version is a deletion and an insertion, which takes the meeting along.
CommitUpdate_DeleteInsert(r) ==
    /\ pc[r] = "commit" /\ req[r].op = "UpdateTimeslot"
    /\ timeslots' = [timeslots EXCEPT
                         ![req[r].TimeslotID] = NewVersion(r, req[r].TimeslotID)]
    /\ meetings' = [m \in Requests |->
                       IF meetings[m] = req[r].TimeslotID THEN NoRow ELSE meetings[m]]
    /\ participants' = [m \in Requests |->
                       IF meetings[m] = req[r].TimeslotID THEN {} ELSE participants[m]]
    /\ Finish(r, 204)
    /\ UNCHANGED <<users, req, loops>>

CommitUpdate(r) ==
    /\ pc[r] = "commit" /\ req[r].op = "UpdateTimeslot"
    /\ timeslots' = [timeslots EXCEPT
                         ![req[r].TimeslotID] = NewVersion(r, req[r].TimeslotID)]
    /\ Finish(r, 204)
    /\ UNCHANGED <<users, meetings, participants, req, loops>>

\* The deletion leaves the meeting behind.
CommitDelete_NoCascade(r) ==
    /\ pc[r] = "commit" /\ req[r].op = "DeleteTimeslot"
    /\ timeslots' = [timeslots EXCEPT ![req[r].TimeslotID] = NoRow]
    /\ Finish(r, 204)
    /\ UNCHANGED <<users, meetings, participants, req, loops>>

\* ON DELETE CASCADE takes the meeting of the slot, and its participants.
CommitDelete(r) ==
    /\ pc[r] = "commit" /\ req[r].op = "DeleteTimeslot"
    /\ timeslots' = [timeslots EXCEPT ![req[r].TimeslotID] = NoRow]
    /\ meetings' = [m \in Requests |->
                       IF meetings[m] = req[r].TimeslotID THEN NoRow ELSE meetings[m]]
    /\ participants' = [m \in Requests |->
                       IF meetings[m] = req[r].TimeslotID THEN {} ELSE participants[m]]
    /\ Finish(r, 204)
    /\ UNCHANGED <<users, req, loops>>

-----------------------------------------------------------------------------
(* The two listings: one query each, in one snapshot.                      *)

\* A slot that starts now is taken for one that has started already.
ListAllottedTimeslots_AfterNow(u, dateStart, dateEnd, now) ==
    {[timeslot_id |-> s, timeslot |-> timeslots[s], is_booked |-> Booked(s)] :
        s \in {x \in Slots : /\ Exists(x)
                             /\ timeslots[x].user_id = u
                             /\ timeslots[x].start_at >= PgTime(dateStart)
                             /\ timeslots[x].start_at < PgTime(dateEnd)
                             /\ timeslots[x].start_at > PgTime(now)}}

\* The end of the window asked for is compared with the end of the slot.
ListAllottedTimeslots_EndInside(u, dateStart, dateEnd, now) ==
    {[timeslot_id |-> s, timeslot |-> timeslots[s], is_booked |-> Booked(s)] :
        s \in {x \in Slots : /\ Exists(x)
                             /\ timeslots[x].user_id = u
                             /\ timeslots[x].start_at >= PgTime(dateStart)
                             /\ timeslots[x].end_at < PgTime(dateEnd)
                             /\ timeslots[x].start_at >= PgTime(now)}}

ListAllottedTimeslots(u, dateStart, dateEnd, now) ==
    {[timeslot_id |-> s, timeslot |-> timeslots[s], is_booked |-> Booked(s)] :
        s \in {x \in Slots : /\ Exists(x)
                             /\ timeslots[x].user_id = u
                             /\ timeslots[x].start_at >= PgTime(dateStart)
                             /\ timeslots[x].start_at < PgTime(dateEnd)
                             /\ timeslots[x].start_at >= PgTime(now)}}

\* meeting_participants by INNER JOIN: a meeting without attendees is dropped.
ListCalendarMeetings_InnerJoin(u) ==
    {[meeting_id |-> m, start_at |-> timeslots[meetings[m]].start_at,
      end_at |-> timeslots[meetings[m]].end_at, attendees |-> participants[m]] :
        m \in {x \in Requests : /\ meetings[x] # NoRow
                                /\ Exists(meetings[x])
                                /\ timeslots[meetings[x]].user_id = u
                                /\ participants[x] # {}}}

\* The INNER JOIN drops a meeting whose timeslot has no row.
ListCalendarMeetings(u) ==
    {[meeting_id |-> m, start_at |-> timeslots[meetings[m]].start_at,
      end_at |-> timeslots[meetings[m]].end_at, attendees |-> participants[m]] :
        m \in {x \in Requests : /\ meetings[x] # NoRow
                                /\ Exists(meetings[x])
                                /\ timeslots[meetings[x]].user_id = u}}

\* What the query of the request q reads.
Listing(q) ==
    IF q.op = "GetAllotted"
      THEN ListAllottedTimeslots(q.UserID, q.DateStart, q.DateEnd, q.Now)
      ELSE ListCalendarMeetings(q.UserID)

\* The query takes its snapshot.
Query(r) ==
    /\ req[r].op \in {"GetAllotted", "GetCalendar"}
    /\ Acquire(r)
    /\ rows' = [rows EXCEPT ![r] = Listing(req[r])]
    /\ Goto(r, "read")
    /\ UNCHANGED <<tables, req, next, slice, created, status>>

\* The rows have been read, and the handler answers with them.
ReturnRows(r) ==
    /\ pc[r] = "read"
    /\ Finish(r, 200)
    /\ UNCHANGED <<tables, req, loops>>

-----------------------------------------------------------------------------
(* Lost requests: the client goes away, or the connection fails.           *)

\* withTx does not return what Commit returns.
Cancel_CommitErrorLost(r) ==
    /\ r \in Cancellable
    /\ pc[r] \notin {"idle", "done"} /\ status[r] = 0
    /\ Finish(r, IF pc[r] = "commit" THEN 201 ELSE 500)
    /\ UNCHANGED <<tables, req, loops>>

\* withTx does not defer Rollback: the connection stays with a dead request.
Cancel_NoRollback(r) ==
    /\ r \in Cancellable
    /\ pc[r] \notin {"idle", "done"} /\ status[r] = 0
    /\ Goto(r, "done")
    /\ status' = [status EXCEPT ![r] = 500]
    /\ UNCHANGED <<tables, req, loops, conn>>

\* The store returns an error, withTx's deferred Rollback ends the
\* transaction, and the handler answers 500.
Cancel(r) ==
    /\ r \in Cancellable
    /\ pc[r] \notin {"idle", "done"} /\ status[r] = 0
    /\ Finish(r, 500)
    /\ UNCHANGED <<tables, req, loops>>

\* The same, but PostgreSQL already has the COMMIT, or the one statement of an
\* autocommitted request, and carries it out for nobody.  The pool gives up the
\* connection; what is still at work at its other end only pc[r] shows.
CancelTooLate(r) ==
    /\ r \in Cancellable
    /\ pc[r] \in {"write", "commit"} /\ status[r] = 0
    /\ conn' = conn \ {r}
    /\ status' = [status EXCEPT ![r] = 500]
    /\ UNCHANGED <<tables, req, pc, loops>>

-----------------------------------------------------------------------------

Step(r) ==
    \/ withTx(r)
    \/ CreateUser(r) \/ CommitUser(r)
    \/ CreateTimeslot(r) \/ CreateTimeslotFails(r) \/ NextWindow(r)
    \/ CommitAvailability(r)
    \/ CreateMeeting(r) \/ SlotTaken(r) \/ LockTimeslotKey(r) \/ TimeslotMissing(r)
    \/ AddMeetingParticipant(r) \/ CommitMeeting(r)
    \/ ScanFindsNone(r) \/ ScanFindsRow(r) \/ ScanFailsCheck(r)
    \/ LockRow(r) \/ RowGone(r) \/ CommitUpdate(r) \/ CommitDelete(r)
    \/ Query(r) \/ ReturnRows(r)

\* Every request has ended; the service waits for more.
Quiescent == (\A r \in Requests : pc[r] = "done") /\ UNCHANGED vars

Next ==
    \/ \E r \in Requests : Accept(r) \/ Reject(r) \/ Step(r)
                             \/ Cancel(r) \/ CancelTooLate(r)
    \/ Quiescent

Spec == Init /\ [][Next]_vars

\* Goroutines are scheduled, statements return, and lock waits are granted
\* when the lock is free; nobody has to send a request or to cancel one.
FairSpec == Spec /\ \A r \in Requests : WF_vars(Step(r))

-----------------------------------------------------------------------------
(* Properties.                                                             *)

ListedTimeslot == [timeslot_id : Slots, timeslot : Timeslot, is_booked : BOOLEAN]

ListedMeeting ==
    [meeting_id : Requests, start_at : Nat, end_at : Nat, attendees : SUBSET Emails]

\* Every variable has its type.
TypeOK ==
    /\ users \subseteq Users
    /\ timeslots \in [Slots -> Timeslot \cup {NoRow}]
    /\ meetings \in [Requests -> Slots \cup {NoRow}]
    /\ participants \in [Requests -> SUBSET Emails]
    /\ req \in [Requests -> Request]
    /\ \A r \in Requests : req[r] \in Inputs[r]
    /\ pc \in [Requests -> PCs]
    /\ next \in [Requests -> Nat \ {0}]
    /\ slice \in [Requests -> Nat \ {0}]
    /\ created \in [Requests -> SUBSET NewSlots]
    /\ rows \in [Requests -> SUBSET (ListedTimeslot \cup ListedMeeting)]
    /\ conn \subseteq Requests
    /\ status \in [Requests -> Statuses]

\* The open transactions keep out of each other's way on every timeslot: one at
\* most has entered it in the unique index, and none once a meeting is there;
\* the row a foreign key check has locked stays, undeleted; one at most has
\* written the row, and it is there to be written.
LocksExclude ==
    \A s \in Slots : \A o, p \in Requests :
        /\ HasEntered(o, s) /\ HasEntered(p, s) => o = p
        /\ HasEntered(o, s) => ~Booked(s)
        /\ HoldsKeyShare(o, s) => Exists(s) /\ ~HasDeleted(p, s)
        /\ HasWritten(o, s) => Exists(s)
        /\ HasWritten(o, s) /\ HasWritten(p, s) => o = p

\* A timeslot carries at most one meeting, whatever the bookings racing for it
\* and whichever of them roll back (the UNIQUE constraint on meetings).
OneMeetingPerSlot ==
    \A m, n \in Requests : meetings[m] # NoRow /\ meetings[m] = meetings[n] => m = n

\* Of all the bookings of one timeslot that ever run, at most one is answered
\* 201: also when the meeting booked first has been deleted with its slot.
OnlyOneBookingWins ==
    \A m, n \in Requests :
        /\ m # n
        /\ req[m].op = "CreateMeeting" /\ req[n].op = "CreateMeeting"
        /\ req[m].TimeslotID = req[n].TimeslotID
        => ~(status[m] = 201 /\ status[n] = 201)

\* No row dangles: meetings sit on a timeslot, participants on a meeting,
\* timeslots belong to a user (foreign keys against concurrent deletions).
ReferentialIntegrity ==
    /\ \A m \in Requests : meetings[m] # NoRow => Exists(meetings[m])
    /\ \A m \in Requests : meetings[m] = NoRow => participants[m] = {}
    /\ \A s \in Slots : Exists(s) => timeslots[s].user_id \in users

\* A meeting is never seen without some of its attendees: BookMeeting's
\* transaction commits the meeting and every email of the request, or nothing.
MeetingsAreWhole ==
    \A m \in Requests : meetings[m] # NoRow =>
        participants[m] = {req[m].Attendees[j] : j \in DOMAIN req[m].Attendees}

\* Every stored timeslot satisfies the schema's CHECK constraints: what the handler
\* lets through of an offer gives no slice, rounded to microseconds, that would fail
\* one, though nothing looks at the slices again before they are written.
RowsSatisfyChecks ==
    \A s \in Slots : Exists(s) => SatisfiesChecks(timeslots[s])

\* What a booking is told stays true: after 201 its meeting is on the slot, and
\* after 409 some meeting is, until the slot itself is deleted.
AnswersStayTrue ==
    \A r \in Requests : req[r].op = "CreateMeeting" =>
        /\ status[r] = 201 => \/ meetings[r] = req[r].TimeslotID
                              \/ ~Exists(req[r].TimeslotID)
        /\ status[r] = 409 => \/ Booked(req[r].TimeslotID)
                              \/ ~Exists(req[r].TimeslotID)

\* A deletion that was answered 204 stands: no update that was on its way brings
\* the timeslot back, and no other deletion of it is answered 204.
DeletionsStand ==
    \A r \in Requests : req[r].op = "DeleteTimeslot" /\ status[r] = 204 =>
        /\ ~Exists(req[r].TimeslotID)
        /\ \A o \in Requests \ {r} :
              On(o, "DeleteTimeslot", req[r].TimeslotID) => status[o] # 204

\* The pool never lends more than MaxConns connections, and a request that has
\* been answered has given its own back, on every error path.
ConnectionsReturned ==
    /\ Cardinality(conn) <= MaxConns
    /\ \A r \in conn : status[r] = 0

\* The slices of a window, by division instead of by the loop.
Slices(r) ==
    {s \in NewSlots :
        /\ s[1] = r
        /\ s[2] \in DOMAIN req[r].Availability
        /\ s[3] <= (req[r].Availability[s[2]].EndAt - req[r].Availability[s[2]].StartAt)
                       \div slot(req[r])}

\* The timeslots a request creates appear in one step, and they are exactly the
\* whole slices of its windows, each row laid out from its window's start.
AvailabilityAppearsWhole ==
    [][\A r \in Requests :
          LET born == {s \in NewSlots : s[1] = r /\ ~Exists(s) /\ Exists(s)'}
          IN  born # {} =>
                /\ born = Slices(r)
                /\ \A s \in born : timeslots'[s].end_at - timeslots'[s].start_at =
                                       slot(req[r]) \div Micro]_vars

\* A meeting is on the calendar of one user and of no other, and the same user's
\* timeslots, listed from the moment it starts, flag its slot as booked.
EveryMeetingIsListed ==
    \A m \in Requests : meetings[m] # NoRow =>
        /\ \E u \in users : \E row \in ListCalendarMeetings(u) :
              /\ row.meeting_id = m
              /\ [timeslot_id |-> meetings[m], timeslot |-> timeslots[meetings[m]],
                  is_booked |-> TRUE] \in
                    ListAllottedTimeslots(u, row.start_at * Micro,
                                          row.end_at * Micro, row.start_at * Micro)
        /\ \A u, v \in users : u # v =>
              \A x \in ListCalendarMeetings(u), y \in ListCalendarMeetings(v) :
                  x.meeting_id # y.meeting_id

\* README, DELETE /timeslots/{id}: "Cant be done if there's a meeting booked at
\* the time".  No step removes a timeslot that carries a committed meeting.
BookedSlotNotDeleted ==
    [][\A s \in Slots : Booked(s) => Exists(s)']_vars

\* README, PATCH /timeslots/{id}, says the same: no step changes the row of a
\* timeslot that carries a committed meeting.
BookedSlotNotUpdated ==
    [][\A s \in Slots : Booked(s) /\ Exists(s)' => timeslots'[s] = timeslots[s]]_vars

\* README: "Avoid clashing meetings".  One user is never booked twice at a time.
NoClashingMeetings ==
    \A m, n \in Requests :
        m # n /\ meetings[m] # NoRow /\ meetings[n] # NoRow =>
            LET a == timeslots[meetings[m]]
                b == timeslots[meetings[n]]
            IN  a.user_id = b.user_id =>
                    a.end_at <= b.start_at \/ b.end_at <= a.start_at

\* Every accepted request comes to its end: no wait for a connection or for a
\* lock is for ever, and no two transactions wait for each other.
EveryRequestEnds ==
    \A r \in Requests : pc[r] = "acquire" ~> pc[r] = "done"

\* A request that its client has sent and that has not come to its end.
AtWork(r) == pc[r] \notin {"idle", "done"}

\* r cannot go on before o has: o has one of the connections of an empty pool,
\* or a lock or an index entry that r's statement conflicts with.
WaitsFor(r, o) ==
    \/ pc[r] = "acquire" /\ Cardinality(conn) >= MaxConns /\ o \in conn
    \/ /\ o # r
       /\ LET s == req[r].TimeslotID
              op == req[r].op IN
          \/ /\ pc[r] = "insert" /\ op = "CreateMeeting"
             /\ HasEntered(o, s) \/ (HasDeleted(o, s) /\ Booked(s))
          \/ pc[r] = "fkey" /\ HasDeleted(o, s)
          \/ pc[r] = "write" /\ HasWritten(o, s)
          \/ pc[r] = "write" /\ op = "DeleteTimeslot" /\ HoldsKeyShare(o, s)

\* Nobody is stuck, first half: a request that is at work goes on exactly if it
\* waits for no other one, and there is nothing else to wait for (the statements of
\* withTx against the locks and the pool).
OnlyWaitsForOthers ==
    \A r \in Requests :
        AtWork(r) => (ENABLED Step(r) <=> \A o \in Requests : ~WaitsFor(r, o))

\* Second half: whoever waits, waits for requests that are at work with what they
\* have, and of any requests at work one waits for none of them.  So there is no
\* deadlock among transactions, and none between them and the pool.
NoCircularWait ==
    /\ \A r, o \in Requests : WaitsFor(r, o) => AtWork(o) /\ pc[o] # "acquire"
    /\ \A S \in SUBSET {r \in Requests : AtWork(r)} :
          S # {} => \E r \in S : \A o \in S : ~WaitsFor(r, o)

\* The loops of CreateAvailability and BookMeeting end where their input does.
InLoops(r) ==
    /\ next[r] <= CASE req[r].op = "CreateTimeslot" -> Len(req[r].Availability) + 1
                    [] req[r].op = "CreateMeeting" -> Len(req[r].Attendees) + 1
                    [] OTHER -> 1
    /\ slice[r] <= MaxSlices + 1

\* The places of a handler, in the order it comes by them.
Stage(l) ==
    CASE l = "idle" -> 0
      [] l = "acquire" -> 1
      [] l \in {"insert", "write", "read"} -> 2
      [] l = "fkey" -> 3
      [] l = "people" -> 4
      [] l = "commit" -> 5
      [] OTHER -> 6

\* r comes to a later place, or goes on in a loop, or is answered where it is.
GoesOn(r) ==
    \/ Stage(pc'[r]) > Stage(pc[r])
    \/ pc'[r] = pc[r] /\ next'[r] > next[r]
    \/ pc'[r] = pc[r] /\ next'[r] = next[r] /\ slice'[r] > slice[r]
    \/ /\ pc'[r] = pc[r] /\ next'[r] = next[r] /\ slice'[r] = slice[r]
       /\ status[r] = 0 /\ status'[r] # 0

\* Nobody goes round: each step takes one request further, within its loops, and
\* none back, whatever fails or is lost.  So requests that can go on come to an end.
OnlyForward ==
    [][\E r \in Requests :
          /\ GoesOn(r) /\ InLoops(r)'
          /\ \A o \in Requests \ {r} :
                UNCHANGED <<pc[o], next[o], slice[o], status[o]>>]_vars

AsBuilt == INSTANCE Calendar WITH Meetings <- Requests

\* The tables behave as the abstract calendar under every interleaving: each
\* commit is one whole operation of it, and nothing else changes them.
ImplementsCalendar == AsBuilt!Spec
=============================================================================
