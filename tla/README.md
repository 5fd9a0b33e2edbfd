# Verification of the doodle scheduling service

The service lets a user offer windows of free time, slices them into timeslots,
and lets anybody book a timeslot as a meeting with attendees.  It is one Go
process over PostgreSQL: HTTP handlers, a storage layer written with sqlc and
pgx, and a schema whose constraints do much of the work.  Most of what is hard
about it happens between two requests, in the database, so that is where these
modules began: they model it, check it with TLC and prove it with TLAPS.  Three
more parts have modules of their own: how a request finds its handler, how a
handler answers, and how the process starts and ends.  On top of these, one module
puts the requests into processes that end and start again, and one states what a
client may rely on once it has an answer.

## The system

| part | state | operations | how it meets the others |
|---|---|---|---|
| `internal/storage/sql/migrations` | `users`, `timeslots`, `meetings`, `meeting_participants` with UNIQUE, CHECK, foreign keys, cascades | one up and one down migration | the constraints answer the statements of the storage layer |
| `internal/storage` | none of its own; rows, transactions and pooled connections in PostgreSQL | `CreateUser`, `CreateAvailability`, `BookMeeting`, `UpdateTimeslot`, `DeleteTimeslot`, two list queries, `withTx` | called by the handlers, takes connections from the pool |
| `internal/onboarding`, `internal/timeslots` | none | seven handlers: decode, check, call the store, answer | one goroutine per request |
| `sdk/http` | route table, middleware list | `AddRoute`, `Use`, `RegisterRoutes`, `ListenAndServe`, `Shutdown`, JSON helpers | built once by `main`, then read by every request |
| `sdk/storage/postgres` | the pgx pool (10 connections) | open, ping, close; mapping of error codes | the pool is the only shared resource in the process |
| `cmd/main` | the process | start-up, signal, graceful shutdown | wires the rest |
| `sdk/logger`, `sdk/docker`, `sdk/xjson`, the HTTP client and the no-op handler, `docs` | none that matters | | not used, or only for logs, tests and documentation |

Hard behaviour, all of it listed with its line under `hazards` in
`PROJECT.json`:

* bookings racing for one timeslot, where the UNIQUE constraint on
  `meetings.timeslot_id` decides and one of them waits for the other;
* UPDATE and DELETE that look for a meeting in a statement snapshot and write
  after a lock wait;
* a deletion cascading through meetings while a booking's foreign key check is
  under way;
* transactions of many statements that fail, or lose their client, half way or
  during COMMIT;
* ten connections shared by transactions that wait for each other's locks;
* listings that run beside the writers, and a process that ends or is killed while
  PostgreSQL is at work for it;
* an error that is mapped on its way from the driver to the status, where the order
  of two tests decides between 409 and 500;
* nanosecond times stored as microseconds, and a slicing loop with two edges;
* a route table kept in a Go map, whose iteration order is random, with paths
  that overlap;
* responses whose status is out before their body is known to encode, and a
  helper that panics when a body cannot be written, after a write deadline for instance;
* a signal, a grace period, the listening goroutine and the pool's Close against
  connections and requests in any state.

What makes each part correct:

* storage: at most one meeting per timeslot and one winner per race; meetings
  complete with attendees, availability complete or absent; no dangling row;
  answers that stay true; every request ends; connections come back.
* handlers: what they let through of an offer gives only rows that satisfy the schema, and an
  update that does not ends in a 500 and no change.
* queries: a meeting is on one calendar, and its timeslot is listed as booked; who
  asks after an answer sees what was answered, and nobody sees less than before.
* errors: the loser of a race is told so.
* routing: the same request reaches the same handler after every start.
* responses: one status and one body per request that is answered in time.
* lifecycle: the pool outlives the handlers, a signal always ends the process,
  and a drained process ends with success and leaves nothing unanswered.
  What one process leaves, the next one and the database carry on from.

## Modules

| module | models | from |
|---|---|---|
| `Schema` | identities, rows, CHECK constraints, timestamps | the up migration, `models.gen.go` |
| `Handlers` | the seven requests, what each handler checks, slicing arithmetic | both `http_handlers.go`, `store.go` |
| `Store` | every request from the pool to the end of its transaction or query, against PostgreSQL at READ COMMITTED | `store.go`, `query.sql`, `query.sql.gen.go`, the migration |
| `Calendar` | the abstract service: each operation one atomic step | README, `query.sql` |
| `RealTime` | `Store` with the history of who was answered before whom was called | README, both GET handlers |
| `Service` | `Store` in the process of `Lifecycle`, restarts, and what PostgreSQL still does for a process that has ended | `main.go`, `store.go` |
| `MCStore`, `MCRealTime`, `MCService` | finite instances of these three | |
| `Errors` | `WrapPostgresError`, `IsUniqueConstraintErr` and their callers, on errors as sets of what `errors.Is` and `errors.As` find in them | `errors.go`, `store.go` |
| `Responses` | each handler from the store's result to its one response, the JSON helpers over an `http.ResponseWriter`, clients that leave, the write deadline | `json.go`, both `http_handlers.go`, `server.go` |
| `Routing` | `AddRoute`, `RegisterRoutes` over a map in any order, and what gorilla/mux makes of the result | `server.go`, `main.go`, `docs.go` |
| `Lifecycle` | `main()`, the listening goroutine, signals, `Shutdown`, the pool, and connections at any point of these | `main.go`, `server.go`, `postgres.go` |
| `MCResponses`, `MCRouting` | finite instances of these (`Lifecycle` needs none) | |
| `StoreProofs`, `OfferProofs` | the inductive invariant and the safety theorems of `Store` | |
| `CalendarProofs` | `Store` implements `Calendar` | |
| `RealTimeProofs`, `ServiceProofs` | the theorems of these two, on top of `StoreProofs` | |
| `ResponsesProofs`, `RoutingProofs`, `LifecycleProofs` | the safety theorems of the other three | |

`Store` EXTENDS `Handlers`, which EXTENDS `Schema`; it composes with `Calendar` by
`AsBuilt == INSTANCE Calendar`, and `ImplementsCalendar` is the refinement.
`RealTime` EXTENDS `Store` with one history variable.  `Service` EXTENDS `Store`
and composes it with `L == INSTANCE Lifecycle` (its clients are the requests).
`Responses` EXTENDS `Errors`.

### How `Store` corresponds to the code

A request is its own thread.  `req[r]` is what the client sends, `pc[r]` where
the handler, or the backend working for it, is:

| `pc` | place |
|---|---|
| `idle` | not yet received |
| `acquire` | handler's checks passed; waiting for a pooled connection |
| `insert` | `withTx` has begun; at an INSERT of a timeslot or of the meeting |
| `fkey` | the meeting is in the unique index; its foreign key is being checked |
| `people` | in the loop over the attendees |
| `write` | an UPDATE or DELETE has found its row and goes on to lock it |
| `read` | the query of a list or a calendar has run; its rows are on their way |
| `commit` | everything is written; COMMIT, or the end of the one statement |
| `done` | ended |

`next` and `slice` are the loop variables, `created` what the open
`CreateAvailability` has inserted, `conn` the connections lent, `status` the
answer, `rows` what a list or a calendar answers with.  The four tables hold committed rows only.  What an open transaction has
written, and which locks it holds, follows from its request and its place
(`HasEntered`, `HoldsKeyShare`, `HasUpdated`, `HasDeleted`), so a rollback is
just leaving those places.

PostgreSQL is external and is modelled by what these statements depend on:

* an INSERT into `meetings` waits for an open transaction that has entered the
  same key, then fails if that one committed;
* its foreign key check takes FOR KEY SHARE on the timeslot, waits for a
  deletion in flight, and fails if the row is gone;
* DELETE conflicts with that lock; UPDATE of non-key columns does not;
* UPDATE and DELETE read in the snapshot of their start.  After a lock wait the
  condition is evaluated again only if the row itself has a newer version, and
  its sub-select still reads in the old snapshot, so `LockRow` does not look at
  `meetings` at all;
* CHECK constraints are evaluated on the new row before it is locked;
* a query, sub-selects and all, reads in the one snapshot of its start.

`Cancel` is the client going away or the connection failing before the server
has the decisive message: error, rollback by the deferred `Rollback`, 500.  It
also stands for a statement failing for a reason the model has no name for.
`CancelTooLate` is the same with COMMIT, or an autocommitted statement, already
at the server: the handler answers 500 and the statement takes effect anyway.

`uuid.New()` never repeats, so identities are named after the request that draws
them: meeting `r`, user `r`, timeslot `<<r, window, slice>>`.  A client may name a
timeslot before it exists, which the code answers as it answers any unknown id.

Names, titles, descriptions, urls, `created_at`, the order of listed rows and log
lines are left out: nothing branches on them, apart from an empty title and the shape
of a user name, which are one boolean each.

### How `RealTime` corresponds to the code

`before[r]` is the set of requests that had been answered when `r` was called: the step
that runs the handler's checks.  The handler runs
after the client has called, so the set holds every answer that the client can have seen
or heard of before it called.  The properties relate the rows a listing answered with to the answers in `before`.  Rows say
`is_booked` as the query's EXISTS does, and name attendees as its aggregate does.
`GetAllotted` takes the time before its query; `Now` is any of the request's inputs.

### How `Service` corresponds to the code

A step of `Service` is a step of `Lifecycle` and a step of `Store` at once: `Handle` reads
the request and checks it, `Take` borrows a connection (`Room`: this process has lent fewer
than `PoolSize`), `Succeed` and `Fail` end the transaction and give it back, and between
them `Work` moves `Store` only.  `Restart` resets what is the process's and leaves the
tables.  `conn` are the connections that the pool of the running process has lent, and
those that ended processes had lent and PostgreSQL has not found closed yet; `MaxConns` is
large enough never to bind.  A statement or COMMIT that goes on without its request
(`CancelTooLate`) has lost its connection, and only `pc` shows it at work.  By construction a
step of `Service` does to the tables only what a step of `Store` does, and a process that
ends is to a request what the loss of its connection is: that is how PostgreSQL sees it, and an
assumption of this module rather than a result.  A request whose process has ended is an
`Orphan`: PostgreSQL finds the connection closed (`Lost`), or it already had what it needs
and goes on with it (`CancelTooLate`, then `Late`), perhaps under the next process, whose
requests meet the locks.  `database = TRUE` throughout: that it cannot be reached is
`Lifecycle`'s `Outage`.

### How `Responses` corresponds to the code

A request is at `called` (the handler's checks and its store call, one step),
`encode` (`EncodeJSON`), `must` (`MustJSONError`), and has `returned` or
`panicked`.  `header` and `body` are what its ResponseWriter was told; the
first status stays, as net/http has it.  `stored` and `booked` are the periods of
one user's timeslots, all that a response can depend on: `MarshalJSON` refuses
years outside 0 to 9999, and a time with a zone offset can pass every check and
be stored beyond them (the repository's README: "all is UTC").  Which of its outcomes
a store call has is nondeterministic, as far as the rows do not settle it; `Store` says
when it has which.  A call that fails does so with an error of the driver (`Faults`),
which the store maps as in `Errors` and the handler turns into a status; `fault` remembers
it.  `Before` are the periods stored at the start, so that bookings can race for one.

A response may not arrive for two reasons: its client has left (`gone`), or the server's
`WriteTimeout` of 30 seconds has passed while the handler was at work (`late`), waiting for a
connection or a lock, say.  Nobody tells the handler about the second: it goes on to its
end, and its work is done and its answer lost in front of a client that waits.  In both
cases a write may fail (and `MustJSONError` panic), or vanish in a buffer, so both are
possible.  The properties are about the responses that can still arrive (`Reaches`).

### How `Routing` corresponds to the code

`calls` are `main()`'s arguments to `AddRoute`, `table` is `s.routes`, `pending` the
part of it that the `range` has not come to, `router` gorilla/mux's list.  A step of
`Range` takes any pending route: that is the random order of a Go map.  gorilla/mux
is external: `Dispatch` takes the first route that matches path and method, answers
405 if only a path matches.  The middleware is left out: it changes no route.
A path is the sequence of its segments, so `/docs/` is the prefix `<<"docs">>` of
longer paths.

### How `Lifecycle` corresponds to the code

`main` is where `main()` is, `server` where the goroutine around `ListenAndServe` is,
`exit` how the process ended: `log.Fatal` is `os.Exit(1)`, nothing deferred runs.
`place[c]` is the state of client `c`'s connection, in the words of net/http (`new`,
`idle`, `closed`) or of its handler (`handling`, `tx` with a pooled connection,
`answering`).  `Shutdown` follows net/http's contract: it closes the listener, and then
polls, closes idle connections, and those that are new for five seconds, until none is
left; a request read meanwhile is still served.  `Close` of the pool waits for the
connections lent.  `RegisterRoutes` is one step that succeeds (`main()` gives every route a
method; `Routing` has the failure).  What `tx` does to the tables is `Store`'s: a process
that ends with requests there is its `Cancel` and `CancelTooLate` for each of them.
SIGKILL is not an action: it changes no more than `Fatal` does.

## Runs

The first seven runs are of `Store` and the two modules on top of it.
One microsecond and one minute are two ticks of time, a slot lasts one or two minutes, so
that times below the resolution of a timestamptz are among the inputs.

| run | instance | question |
|---|---|---|
| `race` | 2 bookings, 1 update, 1 deletion, 1 timeslot, 3 connections, a booking and the deletion may be cancelled, with fairness | locks, uniqueness, single winner, integrity, whole meetings, true answers, connections; a request goes on exactly if it waits for no other, and none waits in a circle; `Store` implements `Calendar`; every accepted request ends |
| `offer` | 1 registration, 1 offer of up to 2 windows and 2 slices each, 1 booking, 1 deletion or listing | types, exact and atomic slicing, slices within the CHECKs, consistent listings, no step back; `Store` implements `Calendar` |
| `realtime` | 1 booking, 1 deletion, 1 offer or update, 2 readers of either kind, 2 connections | what was answered is seen, readers do not go back, calls that come later are refused |
| `service` | 2 requests: a booking or deletion, and one of every other kind; pool of 1, 2 processes one after the other, 2 connections on the database's side; signals, accept errors, clients leaving, with fairness | no meeting in part, and no answer or deletion undone, across the ends of processes; a graceful end has answered every request; every accepted request ends, also when its process has ended first |
| `delete_booked` | 1 booking, 1 deletion | violated: a confirmed meeting can vanish |
| `update_booked` | 1 booking, 1 update | violated: a booked timeslot can move |
| `clash` | 2 bookings of 2 overlapping timeslots of one user | violated: meetings can clash |
| `responses` | 2 requests to any of the 7 handlers, 4 times, 2 of them beyond JSON's years, 1 timeslot stored; clients may leave, write deadlines pass | one response per request that is in time, no panic in place of one, 409 for who loses a race, an error under a success's status for far years only |
| `year_10000` | the same | violated: 200 with an error as its body |
| `routing` | three tables: the routes that overlap, those that do not, and one with a route without methods; 12 paths, 5 methods; every order | the same handler in every order, and the documented one |
| `lifecycle` | 2 clients, outages, accept errors, signals, with fairness | pool, exit, success; which ends cut a request off |
| `early_signal` | 1 client | violated: a signal can kill a request |

Two bookings are enough for a race in the unique index, a third would wait as the
second does.  One updater and one deleter meet every lock of the table of
conflicts, and both meet a booking in every place of its transaction.  Three
connections for four requests let three transactions wait for each other's locks and
leave one waiting for a connection.  Cancelling one of two equal bookings is enough to
see the other one take over.  Two windows with up to two slices reach both edges of the
slicing loop: a window that is used up exactly, one that leaves a rest, and one shorter
than a slot.  Two readers give every order of two reads and a writer; `ReaderSymmetry`
exchanges them, and the run has no temporal property.  `NoClashingMeetings` needs no race:
`clash` runs with one connection.

In `service` two processes are enough for one that ends and one that finds what it left;
`MaxConns` above `PoolSize` lets the second work while the database still works for the
first.  Its two requests meet in every pair of kinds with a booking or a deletion, the
kinds that hold locks.

In `responses` one request creates or books what the other lists, or both book the same
timeslot; more requests add rows of the same four kinds.  In `routing` a table of all ten routes would have 10!
orders; matching compares two routes at a time, so the tables hold every kind of pair,
and the theorem covers the whole (its assumption, that no request matches two routes, is
evaluated by TLC for `main()`'s whole table).  In `lifecycle` connections do not meet
except in `Shutdown`, which asks whether any is left: one open and one closing is
all there is to see.  A client opens one connection, so the state space is finite
without a bound.

`PROJECT.json` names for every property a plausible mistake in the code
(the operators `A_Bug` beside the definition `A`) under which TLC finds the property violated.

### Fairness

`FairSpec` has weak fairness on each request's own steps: goroutines are scheduled,
statements return, a connection given back is lent again (pgxpool serves waiters),
and PostgreSQL grants a lock when it is free.  Sending a request and cancelling one
are not fair: nobody has to.  Requests are finitely many, so that weak fairness is
enough for the competition over connections.

`FairService` says the same of the handlers in a process, and of PostgreSQL for processes
that have ended: a backend finishes, or notices in the end that nobody is there.  A
process need not be started again and no signal has to come, so `EveryRequestEnds` in
`service` does not rest on either.

`Lifecycle` has its own `FairSpec`: weak fairness on `main()` and on the listening
goroutine, which the Go scheduler runs, and strong fairness on `GraceOver`, because
`Shutdown` alternates between looking and sleeping and the context's timer fires
whatever it does.  No handler and no client is fair: a handler may hang for ever, and
`SignalEndsProcess` must hold all the same.

### What the violated properties say

* **delete_booked.**  D scans the timeslot and finds no meeting.  B inserts its
  meeting and locks the timeslot FOR KEY SHARE; D waits.  B commits, 201.  D goes
  on, deletes the timeslot, and ON DELETE CASCADE removes the meeting.  `query.sql`
  and the README say a booked timeslot is not deleted.
* **update_booked.**  The same with an UPDATE, which does not even wait.
* **clash.**  Only `timeslot_id` is unique; two timeslots of one user may cover the
  same time and both be booked.  The README wants to avoid clashing meetings.
* **early_signal.**  `main()` starts the listening goroutine; a client connects and is
  being served; SIGTERM comes before `signal.Notify` and kills the process.  The comment
  above `Notify` promises a graceful end.  Calling `Notify` first would keep it.
* **year_10000.**  A timeslot of 9999-12-31T23:30:00-01:00 is valid RFC 3339 and is stored;
  when it is listed, `EncodeJSON` has written 200 before `MarshalJSON` refuses the year, and the
  body is the HTTPError of `MustJSONError`.  The API documents 500.

`LateCallsAreRefused` in `realtime` shows the other side of the first two, and
`RefusesLateCalls` proves it: for calls that do not overlap, the rule on booked timeslots
holds.  A `SELECT ... FOR UPDATE` on the timeslot before either check would restore it
for all.

Three more disagreements are plain in the code and need no run: `ready()` is the constant
200, although it is described as "fully ready to serve requests", and the database is
pinged at the start only; `JSONError` sets no Content-Type, so errors go out as text/plain
where the API documents JSON; and no route takes OPTIONS, for which gorilla/mux answers 405
before any middleware, so that the preflight requests `cors.AllowAll()` is there for never
reach it.

## Proofs

### The store

The theorems hold for any finite set of requests, any inputs, any stored users and
timeslots that satisfy the schema (and no meeting yet), any pool size and any resolution of time, under the named
assumptions of the modules:

* `SchemaAssumption`: finitely many requests, a minute is a whole number of
  microseconds, a slot lasts at least a minute, the sentinel `NoRow` is no row;
* `HandlersAssumption`: `BadID` is no identifier;
* `StoreAssumption`: stored rows satisfy the CHECK constraints and belong to stored
  users; the pool has at least one connection, as pgxpool requires;
* `BoundsAssumption`: `MaxWindows` and `MaxSlices` leave room for every slice of every
  valid offer.  It limits names, not behaviour: `SlicingEnds` proves that a window has no
  more slices than ticks, because the handler lets no slot of length zero through, so that
  there are such bounds for any inputs.  (It is also why the slicing loop ends.)

`StoreProofs` proves `Spec => []IndInv`.  No single property is inductive:

* a commit of a booking keeps meetings unique because the timeslot was free when the
  key was entered *and no other transaction could enter it since*: `LocksExclude`;
* a foreign key stays good because who holds FOR KEY SHARE keeps deletions away:
  again `LocksExclude`, on which even type correctness rests, since an UPDATE builds
  its new row on the old one;
* a meeting is whole because the loop has been through every attendee when it
  commits: `Attending`; a row passes the CHECKs because slices are at least a
  microsecond long (`SliceRowGood`) and updates were checked (`Checked`);
* a 201 stays true, and stays the only one, because a timeslot that is gone never
  returns: `Dead`, which needs that a request that has ended creates nothing more
  (`Settled`, `Inserted`).

The proof goes by one lemma per part of the invariant.  `AvailabilityCommitted`,
`MeetingCommitted`, `UpdateCommitted` and `DeleteCommitted` say once what each commit
writes, `MoveFrame` that nothing else writes the tables, `NoLockTaken` and
`LocksReleased` that most steps cannot disturb a lock.

Theorems: `TypeCorrect`, `LocksAreExclusive`, `NoDoubleBooking`, `OneWinner`,
`NothingDangles`, `WholeMeetings`, `GoodRows`, `TrueAnswers`, `PoolIsBounded`, and in
`CalendarProofs` `Refinement`: `Spec => ImplementsCalendar`.

More rest on the same invariant:

* `NoDeadlock` (`NoCircularWait`), for any number of requests and any pool.  `Grip` ranks
  how far a request has got in what it takes: a connection, an entry in the unique index, a
  lock on the row.  Whoever waits, waits for requests of a higher rank
  (`WaitsForFurther`), so of any requests at work one with the highest rank waits for none
  of them.  That the requests waited for are at work at all needs `Lent`: who has a
  connection is in the middle of its request.
* `SomebodyCanGoOn`: while any request is at work, the guards of one of them hold.
  `WaitsOrReady` says case by case that who is not held up by another one has a statement to send; it
  needs `Places`, that no query ever comes to a commit.  `Ready` spells out the guards of
  `Step`, as `ENABLED` is out of the provers' reach; `OnlyWaitsForOthers`, which
  says the same with `ENABLED`, stays with TLC.
* `AlwaysForward` (`OnlyForward`): every step takes one request to a later place, or on in a
  loop, or answers it, and leaves the others where they are, and no loop passes the end of its
  input (`MoveInLoops`).  A request has finitely many places to come by, so these three are what
  `EveryRequestEnds` rests on besides fairness: nobody goes round, nobody waits in a circle,
  and who does not wait can go on.  The last step, by fairness and induction, is TLC's.
* `DeletionsAreFinal` (`DeletionsStand`).  A deletion is answered 204 by its commit alone
  (`DeletionAnswer`), which finds the row there; from then on it is `Dead`, and another
  deletion would have found it `Dead` before.
* `ClashesComeFromOffers`: while no user's timeslots overlap (`OffersApart`), no meetings
  clash.  So bookings add no clash of their own, and a check where timeslots are offered and
  updated would be enough.

`OfferProofs` adds `MeetingsListed` (no booking is missing from either listing) and
`OffersAreWhole`: what a committed offer has written is, for every window and duration,
exactly the slices that fit.  The loop inserts one at a time; `LaidOut` says how far it
has come, in the indices of windows and slices, and the arithmetic lemmas
(`FitsByDivision` and its kin) turn the loop's test on times into a bound on the index, so
that no induction over the loop is needed.

### What answers promise, and restarts

`RealTimeProofs` extends the invariant by what every answer has promised.  What a listing
has shown is still so, or is on a timeslot that is gone for good (`Promised`, `Removed`);
who was called after a booking's 201 never finds its row to write (`Late`); the rest are
the properties themselves from the moment of the query (`SeenBookings`, `SeenOffers`,
`NotBack`), since the answer comes later than what it shows.  Theorems: `SeesBookings`,
`SeesOffers`, `NeverGoesBack`, `RefusesLateCalls`.

`ServiceProofs` carries the theorems of `StoreProofs` and `LifecycleProofs` over to the
composition.  That each step of `Service` is a move of `Store` or leaves it alone
(`ServiceMoves`, `ServiceIsStore`), and a step of `Lifecycle`, a `Restart` or nothing
(`ServiceRunsLifecycle`), holds by construction, and these are lemmas.  What they give is
`SafeAcrossRestarts`, the safety of the tables across any number of processes, and
`EndsAreSafe`, the two theorems of `LifecycleProofs` for each of them, since `Restart`
establishes their invariants anew.

`AllAnswered` (`GracefulAnswersAll`) needs both at once, and an invariant of its own
(`Linked`), which ties the place of a connection to the place of its request: an answered or
idle connection has no unanswered request, and past the last look of `Shutdown` there is no
other.  It does not say that nothing is at work in PostgreSQL after a graceful end: a client
may leave when its COMMIT is sent, be counted as answered with 500, and the process end before
the COMMIT takes effect.  It says that there is nothing else.

`ForwardAcrossRestarts` is `OnlyForward` for the service.  `NoDeadlockAcrossRestarts` asks
more than `NoDeadlock`: a request waits for the connections of its own process (`Room`) as
well as for what bounds the connections of all of them and for the locks of transactions left behind.  The
same rank settles it.

### The other parts

* `LifecycleProofs`, `HandlersAreSafe`, for any set of clients.  That the pool outlives the
  handlers is not inductive: a new connection could be accepted after the last look of
  `Shutdown`.  `Drained` adds that nothing listens after the signal, so that with no
  connection open none will open.
  `CutsAreKnown` (`OnlyTheseCutWork`) rests on `Drained` for an end with success, and on
  `Ended`, which remembers where `main()` and the listener were at any other end.
* `RoutingProofs`, `OrderIsIrrelevant`, for any tables, paths and methods under
  `RoutesAssumption`: `main()` adds routes of the right shape, and no request matches two of
  one table.  `Handed` says that every route is pending or in the router, and none is there
  twice; then the first hit is the only one, and any order gives it.
  `DocumentationHolds` (`ServesAsDocumented`) adds `DocumentationAssumption`: what the
  documentation says of a handler that `main()` adds is the path and the methods it is
  added with.  TLC evaluates it for `main()`'s whole table.  What has to be proved is
  that no route is lost on the way: `KeysKept`, that every key that was added is in the map,
  under a route of that key, until all are registered.
* `ResponsesProofs`, `AnsweredOnce`, `NoPanicSeen` and `LosersAlwaysTold`, for any requests, inputs and times.
  `Written` says what has gone out at each place of a handler: nothing at `called` and
  `encode`, a status at most at `must`, and so exactly one document at the end, if one can
  still arrive.
  `OnlyYearsMislead` (`OnlyFarYearsMislead`) bounds the finding of `year_10000`: `Fits` says
  that an error which comes after another status is out comes from rows that did not
  encode, and that these rows do not change any more.  `NearYearsAreSafe` turns it round: with every stored
  and sent time within the years (`AllNear` is the invariant), the property that
  `year_10000` violates holds.

### Model-checked only

`EveryRequestEnds`, `SignalEndsProcess` and `DrainedMeansSuccess`: liveness under fairness is
out of the prover's reach.  What the first rests on is proved: `AlwaysForward` (no step goes
back) and `SomebodyCanGoOn` (no request at work waits for a circle of others).
`OnlyWaitsForOthers` is about `ENABLED`, which is out of reach too; `Ready`, the guards written
out, stands for it in the proofs.
No module needs a recursive operator or an induction over data.

## Not modelled, and the plan

Not modelled:

* the middleware: it logs around the next handler, and CORS adds headers.  Neither has state
  or changes which handler runs.  That CORS never sees a preflight follows from the
  405 that `Routing` gives for OPTIONS and from a rule of gorilla/mux;
* the logger, the docker test client, serialisation helpers, the HTTP client and the no-op
  handler: no state of the service, and but for the logger not used by it;
* the generated API documentation (`Routing` takes its paths) and the migrate tool (`Schema` is
  what the up migration builds);
* `GetTimeslot`, and the tests for check and foreign key errors: no caller;
* the order of listed rows, message texts, names and titles;
* a repeated POST: nothing promises that it is idempotent, and what it creates, overlapping
  timeslots, is in `clash`.

Left of the plan: nothing that the provers could settle.  `Responses`, `Routing` and
`Lifecycle` have no type theorem of their own; what their theorems need of types is in their
invariants (`Written`, `Handed`, `Ended`).
