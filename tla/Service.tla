------------------------------ MODULE Service ------------------------------
(***************************************************************************)
(* The whole service: the process of Lifecycle, the requests of Store in   *)
(* its handlers, PostgreSQL beside it, and whoever starts the process again*)
(* when it has ended.  The tables outlive the process, and so does, for a  *)
(* while, what PostgreSQL was doing for it.                                *)
(*                                                                         *)
(* Client r sends one request.  conn, Store's connections, are those the   *)
(* pool of the running process has lent, and those that ended processes    *)
(* had lent and PostgreSQL has not found closed yet.  A statement that     *)
(* outlives its request has lost its connection: only pc shows it at work. *)
(***************************************************************************)
EXTENDS Store

CONSTANTS
    PoolSize,  \* pool_max_conns
    MaxStarts  \* how often the process is started

VARIABLES main, server, pool, quit, exit, database, place, \* those of Lifecycle
          starts                                           \* processes so far

\* A process may end under any request.
ASSUME ServiceAssumption ==
    PoolSize \in Nat /\ MaxStarts \in Nat /\ Cancellable = Requests

L == INSTANCE Lifecycle WITH Clients <- Requests

lifevars == <<main, server, pool, quit, exit, database, place>>
servicevars == <<vars, lifevars, starts>>

ServiceInit == Init /\ L!Init /\ database = TRUE /\ starts = 1

-----------------------------------------------------------------------------
(* The process, without its requests.                                      *)

Process ==
    /\ L!Main \/ L!Server \/ L!AcceptFails \/ L!Signal
    /\ UNCHANGED <<vars, starts>>

\* It is started again: nothing is left of its memory, and everything of the tables.
Restart ==
    /\ ~L!Running /\ starts < MaxStarts
    /\ starts' = starts + 1
    /\ main' = "config" /\ server' = "off" /\ pool' = "none"
    /\ quit' = FALSE /\ exit' = "running"
    /\ place' = [r \in Requests |-> "away"]
    /\ UNCHANGED database
    /\ UNCHANGED vars

-----------------------------------------------------------------------------
(* A request in the process.                                               *)

Connect(r) ==
    /\ \/ L!Dial(r) /\ pc[r] = "idle"
       \/ L!HangUp(r)
    /\ UNCHANGED <<vars, starts>>

\* The server reads the request, and the handler checks it.
Handle(r) ==
    /\ L!Ask(r)
    /\ Accept(r) \/ Reject(r)
    /\ UNCHANGED starts

\* The pool has a connection to lend.
Room == Cardinality({o \in conn : place[o] # "away"}) < PoolSize

Take(r) ==
    /\ L!Begin(r) /\ Room
    /\ withTx(r) \/ CreateUser(r) \/ ScanFindsRow(r) \/ Query(r)
    /\ UNCHANGED starts

\* A request that was refused by its checks, or that one statement has ended.
Refuse(r) ==
    /\ L!Reply(r)
    /\ \/ pc[r] = "done" /\ UNCHANGED vars
       \/ Room /\ (ScanFindsNone(r) \/ ScanFailsCheck(r))
    /\ UNCHANGED starts

\* The statements of a transaction; r is still waiting for its end.
Work(r) ==
    /\ L!Running /\ place[r] = "tx" /\ status[r] = 0
    /\ CreateTimeslot(r) \/ NextWindow(r) \/ CreateMeeting(r) \/ LockTimeslotKey(r)
         \/ AddMeetingParticipant(r) \/ LockRow(r)
    /\ UNCHANGED <<lifevars, starts>>

\* The handler answers before its transaction has committed.
Succeed_BeforeCommit(r) ==
    /\ L!Commit(r) /\ pc[r] = "commit"
    /\ status' = [status EXCEPT ![r] = 201]
    /\ UNCHANGED <<tables, req, pc, loops, conn, starts>>

Succeed(r) ==
    /\ L!Commit(r)
    /\ CommitUser(r) \/ CommitAvailability(r) \/ CommitMeeting(r) \/ CommitUpdate(r)
         \/ CommitDelete(r) \/ ReturnRows(r)
    /\ UNCHANGED starts

Fail(r) ==
    /\ L!Abort(r)
    /\ CreateTimeslotFails(r) \/ SlotTaken(r) \/ TimeslotMissing(r) \/ RowGone(r)
    /\ UNCHANGED starts

\* The client leaves, or the connection to PostgreSQL fails.
Leave(r) ==
    /\ \/ L!Reply(r) /\ Cancel(r)
       \/ L!Abort(r) /\ (Cancel(r) \/ CancelTooLate(r))
    /\ UNCHANGED starts

Answer(r) == L!Answer(r) /\ UNCHANGED <<vars, starts>>

-----------------------------------------------------------------------------
(* What PostgreSQL does for nobody.                                        *)

\* r was at work in a process that has ended.
Orphan(r) == pc[r] \notin {"idle", "done"} /\ (~L!Running \/ place[r] = "away")

\* BookMeeting without withTx: what it has inserted when its process ends stays.
Lost_Autocommitted(r) ==
    /\ Orphan(r)
    /\ \/ /\ pc[r] = "people"
          /\ meetings' = [meetings EXCEPT ![r] = req[r].TimeslotID]
          /\ participants' = [participants EXCEPT
                                 ![r] = {req[r].Attendees[j] : j \in 1 .. (next[r] - 1)}]
          /\ Finish(r, 500)
          /\ UNCHANGED <<users, timeslots, req, loops>>
       \/ Cancel(r) \/ CancelTooLate(r)
    /\ UNCHANGED <<lifevars, starts>>

\* PostgreSQL finds the connection closed and rolls back, or has everything it
\* needs to carry on.
Lost(r) ==
    /\ Orphan(r)
    /\ Cancel(r) \/ CancelTooLate(r)
    /\ UNCHANGED <<lifevars, starts>>

\* It carries on.
Late(r) ==
    /\ status[r] # 0
    /\ LockRow(r) \/ RowGone(r) \/ CommitUser(r) \/ CommitAvailability(r)
         \/ CommitMeeting(r) \/ CommitUpdate(r) \/ CommitDelete(r)
    /\ UNCHANGED <<lifevars, starts>>

-----------------------------------------------------------------------------

Progress(r) ==
    Take(r) \/ Refuse(r) \/ Work(r) \/ Succeed(r) \/ Fail(r) \/ Answer(r)
      \/ Lost(r) \/ Late(r)

\* The last process has ended, and PostgreSQL has finished with all of them.
AtRest ==
    /\ ~L!Running /\ starts = MaxStarts
    /\ \A r \in Requests : pc[r] \in {"idle", "done"}
    /\ UNCHANGED servicevars

ServiceNext ==
    \/ Process \/ Restart \/ AtRest
    \/ \E r \in Requests : Connect(r) \/ Handle(r) \/ Leave(r) \/ Progress(r)

ServiceSpec == ServiceInit /\ [][ServiceNext]_servicevars

\* Handlers are scheduled, statements return, and PostgreSQL notices that the
\* other end of a connection is gone.  Nobody has to send a request or to leave,
\* no signal has to come, and nobody has to start the process again.
FairService == ServiceSpec /\ \A r \in Requests : WF_servicevars(Progress(r))

-----------------------------------------------------------------------------
(* Properties.                                                             *)

\* A process that ends with success has answered every request that it has read,
\* with its transaction over and its connection back: the order of Shutdown, of the
\* deferred Close and of withTx's Commit or Rollback.  If PostgreSQL is still at
\* work for one of them, its client was told 500 and left nothing to do but the
\* COMMIT or the one statement already sent.
GracefulAnswersAll ==
    exit = "success" =>
        \A r \in Requests : place[r] # "away" =>
            /\ place[r] = "closed"
            /\ r \notin conn
            /\ pc[r] # "idle" => status[r] # 0
            /\ AtWork(r) => status[r] = 500 /\ pc[r] \in {"write", "commit"}
=============================================================================
