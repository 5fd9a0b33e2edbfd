------------------------------ MODULE Routing ------------------------------
(***************************************************************************)
(* How a request finds its handler: AddRoute collects routes in a Go map,  *)
(* RegisterRoutes hands them to gorilla/mux in the order of a range over   *)
(* that map, which differs from one start to the next, and mux takes the   *)
(* first route of its list that matches.  Paths overlap: /timeslots/{id}   *)
(* also matches /timeslots/allotted, /timeslots/calendar, ...              *)
(*                                                                         *)
(* A path is the sequence of its segments, and "{id}" in a route matches   *)
(* any segment.                                                            *)
(***************************************************************************)
EXTENDS Naturals, Sequences

CONSTANTS
    Tables,  \* what main() may pass to AddRoute, call by call
    Paths,   \* the paths that are asked for
    Methods  \* and the methods

Route(r, m, f) == [route |-> r, methods |-> m, fn |-> f, prefix |-> FALSE]

Requests == [path : Paths, method : Methods]

\* main()'s calls.
MainRoutes ==
    << Route(<<"users">>, {"POST"}, "CreateUser"),
       Route(<<"timeslots">>, {"POST"}, "CreateTimeslot"),
       Route(<<"timeslots", "allotted">>, {"GET"}, "GetAllotted"),
       Route(<<"timeslots", "calendar">>, {"GET"}, "GetCalendar"),
       Route(<<"timeslots", "{id}">>, {"PATCH"}, "UpdateTimeslot"),
       Route(<<"timeslots", "{id}">>, {"DELETE"}, "DeleteTimeslot"),
       Route(<<"timeslots", "meeting">>, {"POST"}, "CreateMeeting") >>

\* What RegisterRoutes adds by itself: the wildcard route of the documentation,
\* straight to the router, and the probes, through AddRoute.
DocsRoute == [route |-> <<"docs">>, methods |-> {"GET"}, fn |-> "docs", prefix |-> TRUE]
Probes ==
    << Route(<<"health">>, {"GET"}, "health"),
       Route(<< >>, {"GET"}, "health"),
       Route(<<"ready">>, {"GET"}, "ready") >>

\* The API as the generated documentation has it.
Documented ==
    {Route(<<"health">>, {"GET"}, "health"),
     Route(<<"ready">>, {"GET"}, "ready"),
     Route(<<"timeslots">>, {"POST"}, "CreateTimeslot"),
     Route(<<"timeslots", "allotted">>, {"GET"}, "GetAllotted"),
     Route(<<"timeslots", "calendar">>, {"GET"}, "GetCalendar"),
     Route(<<"timeslots", "meeting">>, {"POST"}, "CreateMeeting"),
     Route(<<"timeslots", "{id}">>, {"DELETE"}, "DeleteTimeslot"),
     Route(<<"timeslots", "{id}">>, {"PATCH"}, "UpdateTimeslot"),
     Route(<<"users">>, {"POST"}, "CreateUser")}

VARIABLES
    stage,      \* "adding", "ranging", "serving", or "fatal"
    calls,      \* main()'s AddRoute calls
    added,      \* how many of them have been made
    table,      \* s.routes
    pending,    \* the keys the range has not come to
    failed,     \* errs is not empty
    router      \* mux's list of routes

vars == <<stage, calls, added, table, pending, failed, router>>

Init ==
    /\ stage = "adding"
    /\ calls \in Tables /\ added = 0
    /\ table = {} /\ pending = {} /\ router = << >>
    /\ failed = FALSE

-----------------------------------------------------------------------------

\* The key of the map without its method.
Added_ByPath(t, r) == {x \in t : x.route # r.route} \cup {r}

\* s.routes[key] = route: a route with the same path and methods is replaced.
Added(t, r) ==
    {x \in t : ~(x.route = r.route /\ x.methods = r.methods)} \cup {r}

AddRoute ==
    /\ stage = "adding" /\ added < Len(calls)
    /\ added' = added + 1
    /\ table' = Added(table, calls[added'])
    /\ UNCHANGED <<stage, calls, pending, failed, router>>

\* RegisterRoutes, up to its loop over the map.
RegisterRoutes ==
    /\ stage = "adding" /\ added = Len(calls)
    /\ stage' = "ranging"
    /\ table' = Added(Added(Added(table, Probes[1]), Probes[2]), Probes[3])
    /\ pending' = table'
    /\ router' = <<DocsRoute>>
    /\ UNCHANGED <<calls, added, failed>>

\* .Methods(...) is left out: the route takes every method.
HandleFunc_AnyMethod(r) == Append(router, [r EXCEPT !.methods = Methods])

HandleFunc(r) == Append(router, r)

\* One round of the loop: any route may be next.
Range ==
    /\ stage = "ranging"
    /\ \E r \in pending :
        /\ pending' = pending \ {r}
        /\ IF r.methods = {}
             THEN failed' = TRUE /\ UNCHANGED router
             ELSE router' = HandleFunc(r) /\ UNCHANGED failed
    /\ UNCHANGED <<stage, calls, added, table>>

\* The end of the loop; main() calls log.Fatalln on an error.
Registered ==
    /\ stage = "ranging" /\ pending = {}
    /\ stage' = IF failed THEN "fatal" ELSE "serving"
    /\ UNCHANGED <<calls, added, table, pending, failed, router>>

Over == stage \in {"serving", "fatal"} /\ UNCHANGED vars

Next == AddRoute \/ RegisterRoutes \/ Range \/ Registered \/ Over

Spec == Init /\ [][Next]_vars

-----------------------------------------------------------------------------
(* gorilla/mux.                                                            *)

PathMatches(r, p) ==
    /\ IF r.prefix THEN Len(p) > Len(r.route) ELSE Len(p) = Len(r.route)
    /\ \A i \in DOMAIN r.route : r.route[i] = "{id}" \/ r.route[i] = p[i]

Matches(r, q) == PathMatches(r, q.path) /\ q.method \in r.methods

Hits(q) == {i \in DOMAIN router : Matches(router[i], q)}

First(I) == CHOOSE i \in I : \A j \in I : i <= j

\* The handler q reaches.
Dispatch(q) ==
    IF Hits(q) # {} THEN router[First(Hits(q))].fn
    ELSE IF \E i \in DOMAIN router : PathMatches(router[i], q.path)
      THEN "MethodNotAllowed"
      ELSE "NotFound"

-----------------------------------------------------------------------------
(* Properties.                                                             *)

Elements(s) == {s[i] : i \in DOMAIN s}

\* The same, whatever the order in which the routes were registered.
Answer(q) ==
    LET all == table \cup {DocsRoute}
        hits == {r \in all : Matches(r, q)} IN
    IF hits # {} THEN (CHOOSE r \in hits : TRUE).fn
    ELSE IF \E r \in all : PathMatches(r, q.path)
      THEN "MethodNotAllowed"
      ELSE "NotFound"

\* The handler a request reaches does not depend on the order of the range over
\* s.routes, overlapping paths or not: every start of the service serves alike.
EveryOrderServesAlike ==
    stage = "serving" => \A q \in Requests : Dispatch(q) = Answer(q)

\* Every request the documentation describes reaches the handler it names, if
\* main() added that handler: no other route shadows it or has replaced it.
ServesAsDocumented ==
    stage = "serving" =>
        \A q \in Requests : \A d \in Documented :
            /\ Matches(d, q)
            /\ \E r \in Elements(calls) \cup Elements(Probes) : r.fn = d.fn
            => Dispatch(q) = d.fn

-----------------------------------------------------------------------------

\* No request matches two routes of one table, or one of them and the
\* documentation's: overlapping paths differ in their methods.
Unambiguous(T) ==
    \A r, s \in T, q \in Requests : Matches(r, q) /\ Matches(s, q) => r = s

ASSUME RoutesAssumption ==
    /\ \A t \in Tables :
          /\ t \in Seq([route : Seq(STRING), methods : SUBSET Methods, fn : STRING,
                        prefix : {FALSE}])
          /\ Unambiguous(Elements(t) \cup Elements(Probes) \cup {DocsRoute})
    /\ Paths \subseteq Seq(STRING)

\* The documentation names the path and the method of every handler in T.
WellDocumented(T) ==
    \A d \in Documented : (\E r \in T : r.fn = d.fn) => d \in T

\* main()'s calls are so; a table with a route that has no methods never serves.
ASSUME DocumentationAssumption ==
    \A t \in Tables :
        (\A r \in Elements(t) : r.methods # {}) =>
            WellDocumented(Elements(t) \cup Elements(Probes))
=============================================================================
