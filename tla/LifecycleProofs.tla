-------------------------- MODULE LifecycleProofs --------------------------
(***************************************************************************)
(* Whatever the number of clients, main() closes the pool only when no     *)
(* handler is at work, and only the ends named in OnlyTheseCutWork cut a   *)
(* handler off.                                                            *)
(***************************************************************************)
EXTENDS Lifecycle, TLAPS

\* After the signal nothing listens, and once Shutdown has returned no
\* connection is open: the two facts that keep requests out from then on.
Drained ==
    /\ place \in [Clients -> {"away", "new", "handling", "tx", "answering", "idle", "closed"}]
    /\ ShuttingDown => server # "listening"
    /\ main \in {"close", "returned"} => \A c \in Clients : ~Open(c)
    /\ pool = "closed" => main = "returned"

\* A connection that is moved on was open, or was being dialled at a listener,
\* so that no drained process ever does it.
LEMMA ClientKeeps ==
    ASSUME Drained, NEW c \in Clients, Client(c)
    PROVE  Drained'
<1> USE DEF Drained, ShuttingDown, Open, Busy, To, process
<1>1. CASE Dial(c) BY <1>1 DEF Dial
<1>2. CASE Ask(c) BY <1>2 DEF Ask
<1>3. CASE Reply(c) BY <1>3 DEF Reply
<1>4. CASE Begin(c) BY <1>4 DEF Begin
<1>5. CASE Commit(c) BY <1>5 DEF Commit
<1>6. CASE Abort(c) BY <1>6 DEF Abort
<1>7. CASE Answer(c) BY <1>7 DEF Answer
<1>8. CASE HangUp(c) BY <1>8 DEF HangUp
<1> QED BY <1>1, <1>2, <1>3, <1>4, <1>5, <1>6, <1>7, <1>8 DEF Client

\* Only Receive and Poll take main() past the signal, and Poll goes on to
\* "close" when it finds no connection open.
LEMMA MainKeeps ==
    ASSUME Drained, Main
    PROVE  Drained'
<1> USE DEF Drained, ShuttingDown, Open, Busy, Fatal
<1>1. CASE LoadConfig BY <1>1 DEF LoadConfig
<1>2. CASE OpenPool BY <1>2 DEF OpenPool
<1>3. CASE Ping BY <1>3 DEF Ping
<1>4. CASE Register BY <1>4 DEF Register
<1>5. CASE Notify BY <1>5 DEF Notify
<1>6. CASE Receive BY <1>6 DEF Receive
<1>7. CASE Poll BY <1>7 DEF Poll
<1>8. CASE Tick BY <1>8 DEF Tick
<1>9. CASE GraceOver BY <1>9 DEF GraceOver
<1>10. CASE ClosePool BY <1>10 DEF ClosePool
<1>11. CASE Return BY <1>11 DEF Return
<1> QED BY <1>1, <1>2, <1>3, <1>4, <1>5, <1>6, <1>7, <1>8, <1>9, <1>10, <1>11 DEF Main

\* The goroutine does not come to listen after Shutdown has been called.
LEMMA ServerKeeps ==
    ASSUME Drained, Server \/ AcceptFails
    PROVE  Drained'
<1> USE DEF Drained, ShuttingDown, Open, Busy, Fatal
<1>1. CASE Listen BY <1>1 DEF Listen
<1>2. CASE ServerClosed BY <1>2 DEF ServerClosed
<1>3. CASE ListenFatal BY <1>3 DEF ListenFatal
<1>4. CASE AcceptFails BY <1>4 DEF AcceptFails
<1> QED BY <1>1, <1>2, <1>3, <1>4 DEF Server

LEMMA DrainedInit == Init => Drained
BY DEF Init, Drained, ShuttingDown

\* No step of a process opens a connection behind the last look of Shutdown.
LEMMA DrainedInd == Drained /\ [Next]_vars => Drained'
<1> SUFFICES ASSUME Drained, [Next]_vars PROVE Drained'
  OBVIOUS
<1>1. CASE Main BY <1>1, MainKeeps
<1>2. CASE Server \/ AcceptFails BY <1>2, ServerKeeps
<1>3. CASE Signal
  BY <1>3 DEF Signal, Drained, ShuttingDown, Open, Busy
<1>4. CASE Outage
  BY <1>4 DEF Outage, Drained, ShuttingDown, Open, Busy, process
<1>5. CASE Gone \/ UNCHANGED vars
  BY <1>5 DEF Gone, vars, Drained, ShuttingDown, Open, Busy, process
<1>6. ASSUME NEW c \in Clients, Client(c) PROVE Drained'
  BY <1>6, ClientKeeps
<1> QED BY <1>1, <1>2, <1>3, <1>4, <1>5, <1>6 DEF Next

\* The pool outlives the handlers, for any number of clients (the order of
\* Shutdown and the deferred Close in main).
THEOREM HandlersAreSafe == Spec => []PoolOutlivesHandlers
<1>1. Drained => PoolOutlivesHandlers
  BY DEF Drained, PoolOutlivesHandlers
<1> QED BY <1>1, DrainedInit, DrainedInd, PTL DEF Spec

-----------------------------------------------------------------------------
(* What cuts a request off.                                                *)

\* Nothing listens, and nobody has dialled, before main() has registered its
\* routes; and each way to end leaves its mark.
Ended ==
    /\ main \in {"config", "open", "ping", "routes"} =>
          server = "off" /\ \A c \in Clients : place[c] = "away"
    /\ server \in {"off", "started"} => \A c \in Clients : place[c] = "away"
    /\ exit \in {"running", "success", "fatal", "killed"}
    /\ exit = "success" => main = "returned"
    /\ exit = "killed" => main \in Starting
    /\ exit = "fatal" => main \in {"config", "open", "ping", "sleep"} \/ server = "failed"

\* A process keeps the reason it ended for.
LEMMA EndedInd == Drained /\ Ended /\ [Next]_vars => Ended'
<1> SUFFICES ASSUME Drained, Ended, [Next]_vars PROVE Ended'
  OBVIOUS
<1> USE DEF Drained, Ended, Starting, ShuttingDown, Running, Open, Busy
<1>1. CASE Main
  <2> USE DEF Fatal
  <2>1. CASE LoadConfig \/ OpenPool \/ Ping \/ Register \/ Notify
    BY <2>1 DEF LoadConfig, OpenPool, Ping, Register, Notify
  <2>2. CASE Receive \/ Tick \/ GraceOver \/ ClosePool \/ Return
    BY <2>2 DEF Receive, Tick, GraceOver, ClosePool, Return
  <2>3. CASE Poll BY <2>3 DEF Poll
  <2> QED BY <1>1, <2>1, <2>2, <2>3 DEF Main
<1>2. CASE Server \/ AcceptFails
  BY <1>2 DEF Server, Listen, ServerClosed, ListenFatal, AcceptFails, Fatal
<1>3. CASE Signal \/ Outage
  BY <1>3 DEF Signal, Outage, process
<1>4. ASSUME NEW c \in Clients, Client(c) PROVE Ended'
  <2>1. UNCHANGED process /\ server \notin {"off", "started"} /\ Running
    BY <1>4 DEF Client, Dial, Ask, Reply, Begin, Commit, Abort, Answer, HangUp
  <2> QED BY <2>1 DEF process
<1>5. CASE Gone \/ UNCHANGED vars
  BY <1>5 DEF Gone, vars, process
<1> QED BY <1>1, <1>2, <1>3, <1>4, <1>5 DEF Next

\* Each of these reasons, with a request at work, is one the property names.
LEMMA CutsExplained == Drained /\ Ended => OnlyTheseCutWork
<1> SUFFICES ASSUME Drained, Ended, ~Running, NEW c \in Clients, Busy(c)
             PROVE  \/ exit = "killed" /\ main = "notify"
                    \/ exit = "fatal" /\ (main = "sleep" \/ server = "failed")
  BY DEF OnlyTheseCutWork
<1>1. place[c] # "away" /\ main \notin {"config", "open", "ping", "routes"}
  BY DEF Ended, Busy
<1>2. main # "returned"
  BY DEF Drained, Open
<1> QED BY <1>1, <1>2 DEF Ended, Running, Starting

\* For any number of clients, no end of the process but the three that are named
\* finds a request at work (signal.Notify, Shutdown and the listening goroutine).
THEOREM CutsAreKnown == Spec => []OnlyTheseCutWork
<1>1. Init => Ended
  BY DEF Init, Ended
<1> QED BY <1>1, EndedInd, CutsExplained, DrainedInit, DrainedInd, PTL DEF Spec
=============================================================================
