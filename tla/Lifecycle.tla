----------------------------- MODULE Lifecycle -----------------------------
(***************************************************************************)
(* The process: main() from its environment to its exit, the goroutine     *)
(* that listens, the signal, http.Server.Shutdown with its grace period,   *)
(* and the connections and requests that meet all of these at any point.   *)
(*                                                                         *)
(* What a request does to the tables is Store's matter.  Here it holds a   *)
(* pooled connection while in "tx", and then has an answer to give; module *)
(* Service puts the two together.                                          *)
(***************************************************************************)
EXTENDS Naturals

CONSTANTS Clients  \* each opens at most one keep-alive connection

VARIABLES
    main,     \* where main() is
    server,   \* where the goroutine in ListenAndServe is
    pool,     \* the pgx pool
    quit,     \* a signal is in the channel
    exit,     \* how the process ended
    database, \* PostgreSQL can be reached
    place     \* [Clients -> where the connection, or its request, is]

process == <<main, server, pool, quit, exit>>
vars == <<process, database, place>>

Starting == {"config", "open", "ping", "routes", "notify"}
ShuttingDown == main \in {"poll", "sleep", "close", "returned"}
Busy(c) == place[c] \in {"handling", "tx", "answering"}
Open(c) == place[c] \in {"new", "idle"} \/ Busy(c)
Running == exit = "running"

Init ==
    /\ main = "config" /\ server = "off" /\ pool = "none"
    /\ quit = FALSE /\ exit = "running"
    /\ database \in BOOLEAN
    /\ place = [c \in Clients |-> "away"]

-----------------------------------------------------------------------------
(* main(), up to the signal.  log.Fatal is os.Exit(1): nothing deferred    *)
(* runs after it.                                                          *)

Fatal == exit' = "fatal" /\ UNCHANGED <<main, server, pool, quit, database, place>>

\* env.ParseAs finds every required variable, or not.
LoadConfig ==
    /\ Running /\ main = "config"
    /\ \/ main' = "open" /\ UNCHANGED <<server, pool, quit, exit, database, place>>
       \/ Fatal

\* The connection string parses, or not.  No connection is made yet.
OpenPool ==
    /\ Running /\ main = "open"
    /\ \/ /\ main' = "ping" /\ pool' = "open"
          /\ UNCHANGED <<server, quit, exit, database, place>>
       \/ Fatal

Ping ==
    /\ Running /\ main = "ping"
    /\ IF database
         THEN main' = "routes" /\ UNCHANGED <<server, pool, quit, exit, database, place>>
         ELSE Fatal

\* RegisterRoutes (module Routing; no route of main lacks a method), and the
\* goroutine that will listen.
Register ==
    /\ Running /\ main = "routes"
    /\ main' = "notify" /\ server' = "started"
    /\ UNCHANGED <<pool, quit, exit, database, place>>

\* signal.Notify.
Notify ==
    /\ Running /\ main = "notify"
    /\ main' = "wait"
    /\ UNCHANGED <<server, pool, quit, exit, database, place>>

\* main() stops the notification when it has its signal: a second one kills.
Signal_Stopped ==
    /\ Running
    /\ IF main \in Starting \/ ShuttingDown
         THEN exit' = "killed" /\ UNCHANGED quit
         ELSE quit' = TRUE /\ UNCHANGED exit
    /\ UNCHANGED <<main, server, pool, database, place>>

\* SIGINT or SIGTERM.  Before Notify the runtime's default kills the process;
\* after it the channel keeps one signal and drops the rest.
Signal ==
    /\ Running
    /\ IF main \in Starting
         THEN exit' = "killed" /\ UNCHANGED quit
         ELSE quit' = TRUE /\ UNCHANGED exit
    /\ UNCHANGED <<main, server, pool, database, place>>

-----------------------------------------------------------------------------
(* The listening goroutine.                                                *)

\* ListenAndServe binds the address or fails; after Shutdown it does neither.
Listen ==
    /\ Running /\ server = "started"
    /\ IF ShuttingDown THEN server' = "shut" ELSE server' \in {"listening", "failed"}
    /\ UNCHANGED <<main, pool, quit, exit, database, place>>

\* Serve gives up on an error of Accept that is not temporary.
AcceptFails ==
    /\ Running /\ server = "listening"
    /\ server' = "failed"
    /\ UNCHANGED <<main, pool, quit, exit, database, place>>

\* The error is not compared with http.ErrServerClosed.
ServerClosed_Fatal ==
    /\ Running /\ server = "shut"
    /\ server' = "done" /\ exit' = "fatal"
    /\ UNCHANGED <<main, pool, quit, database, place>>

\* ErrServerClosed: the goroutine just ends.
ServerClosed ==
    /\ Running /\ server = "shut"
    /\ server' = "done"
    /\ UNCHANGED <<main, pool, quit, exit, database, place>>

\* Any other error: log.Fatalf, in whatever state main() is.
ListenFatal ==
    /\ Running /\ server = "failed"
    /\ Fatal

-----------------------------------------------------------------------------
(* main(), after the signal.                                               *)

\* <-quit, and Shutdown: keep-alives are off and the listener is closed.
Receive ==
    /\ Running /\ main = "wait" /\ quit
    /\ quit' = FALSE
    /\ main' = "poll"
    /\ server' = IF server = "listening" THEN "shut" ELSE server
    /\ UNCHANGED <<pool, exit, database, place>>

\* Close instead of Shutdown: connections are cut, handlers are not awaited.
Poll_Close ==
    /\ Running /\ main = "poll"
    /\ main' = "close"
    /\ UNCHANGED <<server, pool, quit, exit, database, place>>

\* Shutdown closes what is idle, and connections that have been new for five
\* seconds; it is over when no connection is left, and waits otherwise.
Poll ==
    /\ Running /\ main = "poll"
    /\ \E stale \in SUBSET {c \in Clients : place[c] = "new"} :
          place' = [c \in Clients |-> IF place[c] = "idle" \/ c \in stale THEN "closed"
                                                                       ELSE place[c]]
    /\ main' = IF \E c \in Clients : Open(c)' THEN "sleep" ELSE "close"
    /\ UNCHANGED <<server, pool, quit, exit, database>>

Tick ==
    /\ Running /\ main = "sleep"
    /\ main' = "poll"
    /\ UNCHANGED <<server, pool, quit, exit, database, place>>

\* Shutdown with context.Background().
GraceOver_Never == FALSE /\ UNCHANGED vars

\* The grace period is over while Shutdown waits: log.Fatal.
GraceOver ==
    /\ Running /\ main = "sleep"
    /\ Fatal

\* appCancel, and the deferred Close, which waits for connections lent out.
ClosePool ==
    /\ Running /\ main = "close"
    /\ \A c \in Clients : place[c] # "tx"
    /\ main' = "returned" /\ pool' = "closed"
    /\ UNCHANGED <<server, quit, exit, database, place>>

Return ==
    /\ Running /\ main = "returned"
    /\ exit' = "success"
    /\ UNCHANGED <<main, server, pool, quit, database, place>>

-----------------------------------------------------------------------------
(* Clients and handlers.                                                   *)

To(c, l) == place' = [place EXCEPT ![c] = l]

Dial(c) ==
    /\ Running /\ server = "listening" /\ place[c] = "away"
    /\ To(c, "new")
    /\ UNCHANGED <<process, database>>

\* The server reads a request; while shutting down, too, until Poll comes by.
Ask(c) ==
    /\ Running /\ place[c] \in {"new", "idle"}
    /\ To(c, "handling")
    /\ UNCHANGED <<process, database>>

\* Answered without a transaction: /, /health and /ready, whether the database
\* can be reached or not; a request that fails its checks; one that waits for a
\* connection in vain.
Reply(c) ==
    /\ Running /\ place[c] = "handling"
    /\ To(c, "answering")
    /\ UNCHANGED <<process, database>>

\* A request has its connection from the pool.
Begin(c) ==
    /\ Running /\ place[c] = "handling" /\ database /\ pool = "open"
    /\ To(c, "tx")
    /\ UNCHANGED <<process, database>>

Commit(c) ==
    /\ Running /\ place[c] = "tx" /\ database
    /\ To(c, "answering")
    /\ UNCHANGED <<process, database>>

\* A statement fails, or the client has left: rollback, and an error.
Abort(c) ==
    /\ Running /\ place[c] = "tx"
    /\ To(c, "answering")
    /\ UNCHANGED <<process, database>>

\* The handler returns.  The connection is kept, unless Shutdown was called,
\* the client has gone, or the response could not be written in time.
Answer(c) ==
    /\ Running /\ place[c] = "answering"
    /\ \/ To(c, "closed")
       \/ ~ShuttingDown /\ To(c, "idle")
    /\ UNCHANGED <<process, database>>

\* The client, or IdleTimeout, closes a connection without a request.
HangUp(c) ==
    /\ Running /\ place[c] \in {"new", "idle"}
    /\ To(c, "closed")
    /\ UNCHANGED <<process, database>>

Outage ==
    /\ Running
    /\ database' = ~database
    /\ UNCHANGED <<process, place>>

-----------------------------------------------------------------------------

Main == \/ LoadConfig \/ OpenPool \/ Ping \/ Register \/ Notify \/ Receive
        \/ Poll \/ Tick \/ GraceOver \/ ClosePool \/ Return

Server == Listen \/ ServerClosed \/ ListenFatal

Client(c) == \/ Dial(c) \/ Ask(c) \/ Reply(c) \/ Begin(c)
             \/ Commit(c) \/ Abort(c) \/ Answer(c) \/ HangUp(c)

\* The process is gone.
Gone == ~Running /\ UNCHANGED vars

Next == Main \/ Server \/ AcceptFails \/ Signal \/ Outage \/ Gone \/ \E c \in Clients : Client(c)

Spec == Init /\ [][Next]_vars

\* main() and the listening goroutine are scheduled, and the timer of the
\* grace period fires.  No handler has to come to its end.
FairSpec ==
    Spec /\ WF_vars(Main) /\ WF_vars(Server) /\ SF_vars(GraceOver)

-----------------------------------------------------------------------------

\* The pool outlives the handlers: main() closes it, and leaves with success,
\* only when no handler is at work and no connection can bring another request.
PoolOutlivesHandlers == pool = "closed" => \A c \in Clients : ~Open(c)

\* A signal ends the process, even if a handler never comes to its end.
SignalEndsProcess == quit ~> ~Running

\* Once every connection is closed nothing turns a graceful shutdown into a
\* failure, unless the listener had already failed: ErrServerClosed is no error.
DrainedMeansSuccess == main = "close" /\ server # "failed" ~> exit = "success"

\* A request at work is cut off by a signal that comes while the service listens
\* and has not asked for signals, by the end of the grace period, or by a listener
\* that has failed, and by nothing else: not by a second signal, not by
\* ErrServerClosed, and not by an end with success.
OnlyTheseCutWork ==
    ~Running /\ (\E c \in Clients : Busy(c)) =>
        \/ exit = "killed" /\ main = "notify"
        \/ exit = "fatal" /\ (main = "sleep" \/ server = "failed")

\* "Wait for interrupt signal to gracefully shut down the main goroutine": no
\* signal kills the process with a request at work.
SignalsAreGraceful == exit = "killed" => \A c \in Clients : ~Busy(c)
=============================================================================
