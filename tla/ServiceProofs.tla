--------------------------- MODULE ServiceProofs ---------------------------
(***************************************************************************)
(* Across any number of processes and restarts: the service does nothing   *)
(* that Store does not, so that what StoreProofs proves outlives a crash;  *)
(* and a process that ends with success has answered what it has read.     *)
(***************************************************************************)
EXTENDS Service, StoreProofs

-----------------------------------------------------------------------------
(* The service implements the store.                                       *)

\* What a step does to a request is a move of Store, or nothing.
LEMMA ServiceMoves ==
    ASSUME ServiceNext
    PROVE  UNCHANGED vars \/ \E r \in Requests : Moves(r)
  <1>1. CASE Process \/ Restart \/ AtRest
    BY <1>1 DEF Process, Restart, AtRest, servicevars
  <1>2. ASSUME NEW r \in Requests, Connect(r) \/ Handle(r) \/ Leave(r) \/ Progress(r)
        PROVE  UNCHANGED vars \/ Moves(r)
    BY <1>2 DEF Connect, Handle, Leave, Progress, Take, Refuse, Work, Succeed, Fail,
       Answer, Lost, Late, Moves, Step
  <1> QED
    BY <1>1, <1>2 DEF ServiceNext

LEMMA ServiceSteps == [ServiceNext]_servicevars => [Next]_vars
  BY ServiceMoves DEF Next, Moves, servicevars

\* Whatever ends and starts again, the tables and the requests behave as Store.
LEMMA ServiceIsStore == ServiceSpec => Spec
  <1>1. ServiceInit => Init
    BY DEF ServiceInit
  <1> QED
    BY <1>1, ServiceSteps, PTL DEF ServiceSpec, Spec

\* So the safety properties of Store hold across crashes and restarts.
THEOREM SafeAcrossRestarts ==
    ServiceSpec => [](/\ OneMeetingPerSlot
                      /\ OnlyOneBookingWins
                      /\ ReferentialIntegrity
                      /\ MeetingsAreWhole
                      /\ AnswersStayTrue
                      /\ DeletionsStand)
  BY ServiceIsStore, NoDoubleBooking, OneWinner, NothingDangles, WholeMeetings,
     TrueAnswers, DeletionsAreFinal, PTL

\* The end of its process sends no request back to where it has been.
THEOREM ForwardAcrossRestarts == ServiceSpec => OnlyForward
  BY ServiceIsStore, AlwaysForward, PTL

-----------------------------------------------------------------------------
(* Nobody waits in a circle, in or between processes.                      *)

\* r waits in PostgreSQL, which knows the connections of all processes, or for
\* one of those that its own process has lent.
WaitsInService(r, o) ==
    \/ WaitsFor(r, o)
    \/ pc[r] = "acquire" /\ ~Room /\ o \in conn /\ place[o] # "away"

\* A process and what its predecessors left at work in PostgreSQL never hold each
\* other up: of any requests one waits for none, whichever processes they are of.
THEOREM NoDeadlockAcrossRestarts ==
    ServiceSpec => [](\A S \in SUBSET {r \in Requests : AtWork(r)} :
                         S # {} => \E r \in S : \A o \in S : ~WaitsInService(r, o))
  <1>1. IndInv => \A S \in SUBSET {r \in Requests : AtWork(r)} :
                     S # {} => \E r \in S : \A o \in S : ~WaitsInService(r, o)
    <2> SUFFICES ASSUME IndInv, NEW S \in SUBSET {r \in Requests : AtWork(r)}, S # {}
                 PROVE  \E r \in S : \A o \in S : ~WaitsInService(r, o)
      OBVIOUS
    <2>1. TypeOK /\ Lent
      BY DEF IndInv
    <2>2. PICK r \in S : \A o \in S : ~(Grip(o) > Grip(r))
      BY OneIsFurthest
    <2>3. ASSUME NEW o \in S, WaitsInService(r, o)
          PROVE  Grip(o) > Grip(r)
      <3>1. CASE WaitsFor(r, o)
        BY <2>1, <3>1, WaitsForFurther
      <3>2. CASE pc[r] = "acquire" /\ o \in conn
        BY <2>1, <3>2 DEF Lent, Grip, TypeOK, PCs
      <3> QED
        BY <2>3, <3>1, <3>2 DEF WaitsInService
    <2> QED
      BY <2>2, <2>3
  <1> QED
    BY <1>1, ServiceIsStore, Invariance, PTL

-----------------------------------------------------------------------------
(* A graceful end has answered every request.                              *)

\* After the signal nothing listens, and once Shutdown has returned nothing is
\* open; a connection that has not brought a request belongs to one that was not
\* sent, and one whose request is over to one that was answered.
Linked ==
    /\ place \in [Requests -> {"away", "new", "handling", "tx", "answering", "idle",
                               "closed"}]
    /\ L!ShuttingDown => server # "listening"
    /\ main \in {"close", "returned"} => \A r \in Requests : ~L!Open(r)
    /\ exit = "success" => main = "returned"
    /\ \A r \in Requests :
          /\ pc[r] = "idle" => r \notin conn
          /\ pc[r] = "done" => status[r] # 0
          /\ place[r] = "new" => pc[r] = "idle"
          /\ place[r] \in {"answering", "idle", "closed"} =>
                pc[r] = "idle" \/ status[r] # 0

\* A move begins or goes on with one request, and ends only with an answer.
LEMMA MoveAnswers ==
    ASSUME IndInv, NEW r \in Requests, Moves(r)
    PROVE  /\ \A o \in Requests \ {r} : /\ pc'[o] = pc[o] /\ status'[o] = status[o]
                                        /\ o \in conn' <=> o \in conn
           /\ pc'[r] # "idle"
           /\ status[r] # 0 => status'[r] # 0
           /\ pc'[r] = "done" => status'[r] # 0
  <1> USE DEF IndInv, TypeOK, Places, Answers, PCs, Goto, Finish, Acquire, CanAcquire,
      loops
  <1>1. CASE Accept(r) \/ Reject(r) \/ withTx(r) \/ CreateUser(r)
    BY <1>1 DEF Accept, Reject, withTx, CreateUser
  <1>2. CASE CreateTimeslot(r) \/ CreateTimeslotFails(r) \/ NextWindow(r)
    BY <1>2 DEF CreateTimeslot, CreateTimeslotFails, NextWindow
  <1>3. CASE CreateMeeting(r) \/ SlotTaken(r) \/ LockTimeslotKey(r)
    BY <1>3 DEF CreateMeeting, SlotTaken, LockTimeslotKey
  <1>4. CASE TimeslotMissing(r) \/ AddMeetingParticipant(r)
    BY <1>4 DEF TimeslotMissing, AddMeetingParticipant
  <1>5. CASE ScanFindsNone(r) \/ ScanFindsRow(r) \/ ScanFailsCheck(r)
    BY <1>5 DEF ScanFindsNone, ScanFindsRow, ScanFailsCheck
  <1>6. CASE LockRow(r) \/ RowGone(r)
    BY <1>6 DEF LockRow, RowGone
  <1>7. CASE Query(r) \/ ReturnRows(r) \/ Cancel(r) \/ CancelTooLate(r)
    BY <1>7 DEF Query, ReturnRows, Cancel, CancelTooLate
  <1>8. CASE CommitUser(r) \/ CommitAvailability(r) \/ CommitMeeting(r)
    BY <1>8 DEF CommitUser, CommitAvailability, CommitMeeting
  <1>9. CASE CommitUpdate(r) \/ CommitDelete(r)
    BY <1>9 DEF CommitUpdate, CommitDelete
  <1> QED
    BY <1>1, <1>2, <1>3, <1>4, <1>5, <1>6, <1>7, <1>8, <1>9 DEF Moves, Step

\* main() and its goroutine: only Receive and Poll take it past the signal, and
\* Poll goes on to "close" when it finds nothing open.
LEMMA ProcessKeeps ==
    ASSUME Linked, Process
    PROVE  Linked'
  <1> USE DEF Linked, L!ShuttingDown, L!Open, L!Busy, L!Fatal, L!Running
  <1>1. UNCHANGED <<pc, conn, status>>
    BY DEF Process, vars
  <1> USE <1>1
  <1>2. CASE L!LoadConfig BY <1>2 DEF L!LoadConfig
  <1>3. CASE L!OpenPool BY <1>3 DEF L!OpenPool
  <1>4. CASE L!Ping BY <1>4 DEF L!Ping
  <1>5. CASE L!Register BY <1>5 DEF L!Register
  <1>6. CASE L!Notify BY <1>6 DEF L!Notify
  <1>7. CASE L!Receive BY <1>7 DEF L!Receive
  <1>8. CASE L!Poll BY <1>8 DEF L!Poll
  <1>9. CASE L!Tick BY <1>9 DEF L!Tick
  <1>10. CASE L!GraceOver BY <1>10 DEF L!GraceOver
  <1>11. CASE L!ClosePool BY <1>11 DEF L!ClosePool
  <1>12. CASE L!Return BY <1>12 DEF L!Return
  <1>13. CASE L!Listen BY <1>13 DEF L!Listen
  <1>14. CASE L!ServerClosed BY <1>14 DEF L!ServerClosed
  <1>15. CASE L!ListenFatal BY <1>15 DEF L!ListenFatal
  <1>16. CASE L!AcceptFails BY <1>16 DEF L!AcceptFails
  <1>17. CASE L!Signal BY <1>17 DEF L!Signal
  <1> QED
    BY <1>2, <1>3, <1>4, <1>5, <1>6, <1>7, <1>8, <1>9, <1>10, <1>11, <1>12, <1>13,
       <1>14, <1>15, <1>16, <1>17 DEF Process, L!Main, L!Server

\* A connection that moves on was open, or was being dialled at a listener: no
\* drained process does it.
LEMMA RequestKeeps ==
    ASSUME IndInv, Linked, NEW r \in Requests,
           Connect(r) \/ Handle(r) \/ Leave(r) \/ Progress(r)
    PROVE  Linked'
  <1> USE DEF Linked, L!ShuttingDown, L!Open, L!Busy, L!Running, L!To, L!process
  <1>1. CASE Connect(r)
    BY <1>1 DEF Connect, L!Dial, L!HangUp, vars
  <1>2. CASE Answer(r)
    BY <1>2 DEF Answer, L!Answer, vars
  <1>3. CASE Handle(r)
    <2>1. Moves(r)
      BY <1>3 DEF Handle, Moves
    <2> QED
      BY <1>3, <2>1, MoveAnswers DEF Handle, L!Ask
  <1>4. CASE Take(r)
    <2>1. Moves(r)
      BY <1>4 DEF Take, Moves, Step
    <2> QED
      BY <1>4, <2>1, MoveAnswers DEF Take, L!Begin
  <1>5. CASE Refuse(r)
    <2>1. CASE pc[r] = "done" /\ UNCHANGED vars
      BY <1>5, <2>1 DEF Refuse, L!Reply, vars
    <2>2. CASE ScanFindsNone(r) \/ ScanFailsCheck(r)
      <3>1. Moves(r)
        BY <2>2 DEF Moves, Step
      <3>2. pc'[r] = "done"
        BY <2>2 DEF ScanFindsNone, ScanFailsCheck, Finish, Goto, IndInv, TypeOK
      <3> QED
        BY <1>5, <3>1, <3>2, MoveAnswers DEF Refuse, L!Reply
    <2> QED
      BY <1>5, <2>1, <2>2 DEF Refuse
  <1>6. CASE Work(r) \/ Lost(r) \/ Late(r)
    <2>1. Moves(r) /\ UNCHANGED lifevars /\ pc[r] # "idle"
      BY <1>6 DEF Work, Lost, Late, Orphan, Moves, Step, CreateTimeslot, NextWindow,
         CreateMeeting, LockTimeslotKey, AddMeetingParticipant, LockRow, RowGone,
         CommitUser, CommitAvailability, CommitMeeting, CommitUpdate, CommitDelete
    <2> QED
      BY <2>1, MoveAnswers DEF lifevars
  <1>7. CASE Succeed(r) \/ Fail(r) \/ Leave(r)
    <2>1. Moves(r)
      BY <1>7 DEF Succeed, Fail, Leave, Moves, Step
    <2>2. pc'[r] = "done" \/ status'[r] # 0
      BY <1>7 DEF Succeed, Fail, Leave, CommitUser, CommitAvailability, CommitMeeting,
         CommitUpdate, CommitDelete, ReturnRows, CreateTimeslotFails, SlotTaken,
         TimeslotMissing, RowGone, Cancel, CancelTooLate, Finish, Goto, IndInv, TypeOK
    <2>3. L!Commit(r) \/ L!Abort(r) \/ L!Reply(r)
      BY <1>7 DEF Succeed, Fail, Leave
    <2> QED
      BY <2>1, <2>2, <2>3, MoveAnswers DEF L!Commit, L!Abort, L!Reply
  <1> QED
    BY <1>1, <1>2, <1>3, <1>4, <1>5, <1>6, <1>7 DEF Progress

\* A process that ends with success leaves no request unanswered, no connection
\* lent, and PostgreSQL at work only on what was sent for an answer of 500: Shutdown
\* returns after the last handler, and withTx before its handler.
THEOREM AllAnswered == ServiceSpec => []GracefulAnswersAll
  <1>1. ServiceInit => IndInv /\ Linked
    <2>1. ServiceInit => IndInv
      BY InitInd DEF ServiceInit
    <2>2. ServiceInit => Linked
      BY DEF ServiceInit, Init, L!Init, Linked, L!ShuttingDown
    <2> QED
      BY <2>1, <2>2
  <1>2. IndInv /\ Linked /\ [ServiceNext]_servicevars => IndInv' /\ Linked'
    <2> SUFFICES ASSUME IndInv, Linked, [ServiceNext]_servicevars
                 PROVE  IndInv' /\ Linked'
      OBVIOUS
    <2>1. IndInv'
      BY ServiceSteps, StepInd
    <2>2. UNCHANGED servicevars => Linked'
      BY DEF servicevars, vars, lifevars, Linked, L!ShuttingDown, L!Open, L!Busy
    <2>3. Process => Linked'
      BY ProcessKeeps
    <2>4. Restart => Linked'
      BY DEF Restart, vars, Linked, L!ShuttingDown, L!Open, L!Busy
    <2>5. ASSUME NEW r \in Requests, Connect(r) \/ Handle(r) \/ Leave(r) \/ Progress(r)
          PROVE  Linked'
      BY <2>5, RequestKeeps
    <2> QED
      BY <2>1, <2>2, <2>3, <2>4, <2>5 DEF ServiceNext, AtRest
  <1>3. IndInv /\ Linked => GracefulAnswersAll
    BY DEF IndInv, Answers, Linked, L!Open, L!Busy, AtWork,
       GracefulAnswersAll
  <1> QED
    BY <1>1, <1>2, <1>3, PTL DEF ServiceSpec

-----------------------------------------------------------------------------
(* The service runs the processes of Lifecycle.                            *)

LP == INSTANCE LifecycleProofs WITH Clients <- Requests

\* To the process, what a request does is a client's move, or nothing.
LEMMA ServiceRuns ==
    ASSUME ServiceNext
    PROVE  L!Next \/ Restart \/ UNCHANGED lifevars
  <1>1. CASE Process
    BY <1>1 DEF Process, L!Next
  <1>2. CASE Restart \/ AtRest
    BY <1>2 DEF AtRest, servicevars
  <1>3. ASSUME NEW r \in Requests, Connect(r) \/ Handle(r) \/ Leave(r) \/ Progress(r)
        PROVE  L!Client(r) \/ UNCHANGED lifevars
    BY <1>3 DEF Connect, Handle, Leave, Progress, Take, Refuse, Work, Succeed, Fail,
       Answer, Lost, Late, L!Client
  <1> QED
    BY <1>1, <1>2, <1>3 DEF ServiceNext, L!Next

\* Each process of the service is one of Lifecycle's, started anew after each end.
LEMMA ServiceRunsLifecycle ==
    ServiceSpec => L!Init /\ [][L!Next \/ Restart]_lifevars
  <1>1. ServiceInit => L!Init
    BY DEF ServiceInit
  <1>2. [ServiceNext]_servicevars => [L!Next \/ Restart]_lifevars
    BY ServiceRuns DEF servicevars
  <1> QED
    BY <1>1, <1>2, PTL DEF ServiceSpec

\* The two instances of Lifecycle, this one and that of its proofs, agree.
LEMMA OneLifecycle ==
    /\ L!Init => LP!Init
    /\ L!Next => LP!Next
    /\ LP!PoolOutlivesHandlers => L!PoolOutlivesHandlers
    /\ LP!OnlyTheseCutWork => L!OnlyTheseCutWork
  <1>1. L!Main => LP!Main
    BY DEF L!Main, LP!Main, L!LoadConfig, LP!LoadConfig, L!OpenPool,
           LP!OpenPool, L!Ping, LP!Ping, L!Register, LP!Register, L!Notify,
           LP!Notify, L!Receive, LP!Receive, L!Poll, LP!Poll, L!Tick, LP!Tick,
           L!GraceOver, LP!GraceOver, L!ClosePool, LP!ClosePool, L!Return,
           LP!Return, L!Fatal, LP!Fatal, L!Running, LP!Running, L!Open,
           LP!Open, L!Busy, LP!Busy
  <1>2. L!Server \/ L!AcceptFails \/ L!Signal \/ L!Outage => \/ LP!Server \/ LP!AcceptFails
                                                          \/ LP!Signal \/ LP!Outage
    BY DEF L!Server, LP!Server, L!AcceptFails, LP!AcceptFails, L!Signal,
           LP!Signal, L!Outage, LP!Outage, L!Listen, LP!Listen,
           L!ServerClosed, LP!ServerClosed, L!ListenFatal, LP!ListenFatal,
           L!Fatal, LP!Fatal, L!Running, LP!Running, L!Starting, LP!Starting,
           L!ShuttingDown, LP!ShuttingDown, L!process, LP!process
  <1>3. ASSUME NEW r \in Requests, L!Client(r)
        PROVE  LP!Client(r)
    BY <1>3 DEF L!Client, LP!Client, L!Dial, LP!Dial, L!Ask, LP!Ask, L!Reply,
           LP!Reply, L!Begin, LP!Begin, L!Commit, LP!Commit, L!Abort,
           LP!Abort, L!Answer, LP!Answer, L!HangUp, LP!HangUp, L!To, LP!To,
           L!Running, LP!Running, L!ShuttingDown, LP!ShuttingDown, L!process,
           LP!process
  <1>4. L!Gone => LP!Gone
    BY DEF L!Gone, LP!Gone, L!Running, LP!Running, L!vars, LP!vars, L!process,
           LP!process
  <1>5. L!Next => LP!Next
    BY <1>1, <1>2, <1>3, <1>4 DEF L!Next, LP!Next
  <1> QED
    BY <1>5 DEF L!Init, LP!Init, L!PoolOutlivesHandlers, LP!PoolOutlivesHandlers,
           L!OnlyTheseCutWork, LP!OnlyTheseCutWork, L!Open, LP!Open, L!Busy,
           LP!Busy, L!Running, LP!Running

\* A new process starts with nothing open and has not ended.
LEMMA RestartKeeps ==
    ASSUME Restart
    PROVE  LP!Drained' /\ LP!Ended'
  BY DEF Restart, LP!Drained, LP!Ended, LP!ShuttingDown, LP!Starting, LP!Open, LP!Busy

\* What LifecycleProofs proves of one process is true of each, however often the
\* service is started again: its pool outlives its handlers, and only the ends that
\* OnlyTheseCutWork names cut a request off.
THEOREM EndsAreSafe ==
    ServiceSpec => [](L!PoolOutlivesHandlers /\ L!OnlyTheseCutWork)
  <1>1. L!Init => LP!Drained /\ LP!Ended
    BY OneLifecycle, LP!DrainedInit DEF LP!Init, LP!Ended
  <1>2. /\ LP!Drained /\ LP!Ended
        /\ [L!Next \/ Restart]_lifevars
        => LP!Drained' /\ LP!Ended'
    <2>1. UNCHANGED lifevars => UNCHANGED LP!vars
      BY DEF lifevars, LP!vars, LP!process
    <2> QED
      BY <2>1, OneLifecycle, LP!DrainedInd, LP!EndedInd, RestartKeeps
  <1>3. LP!Drained /\ LP!Ended => L!PoolOutlivesHandlers /\ L!OnlyTheseCutWork
    BY OneLifecycle, LP!CutsExplained DEF LP!Drained, LP!PoolOutlivesHandlers
  <1> QED
    BY <1>1, <1>2, <1>3, ServiceRunsLifecycle, PTL
=============================================================================
