----------------------------- MODULE MCRouting -----------------------------
(***************************************************************************)
(* Instances of Routing for TLC.  main() adds seven routes; the runs start *)
(* from some of them, all the kinds of overlap among them, and from a      *)
(* table that RegisterRoutes must refuse: one route has no methods.        *)
(***************************************************************************)
EXTENDS Routing

MCPaths ==
    {<< >>, <<"docs">>, <<"docs", "index.html">>, <<"health">>, <<"ready">>, <<"users">>,
     <<"timeslots">>, <<"timeslots", "allotted">>, <<"timeslots", "calendar">>,
     <<"timeslots", "meeting">>, <<"timeslots", "some-uuid">>, <<"elsewhere">>}

MCMethods == {"GET", "POST", "PATCH", "DELETE", "OPTIONS"}

\* The routes under /timeslots/ whose paths overlap (GetCalendar is to the others
\* as GetAllotted is); the routes that do not.
Overlapping == <<MainRoutes[3]>> \o SubSeq(MainRoutes, 5, 7)
Others == SubSeq(MainRoutes, 1, 2)

Unserved == <<Route(<<"users">>, {}, "CreateUser"), MainRoutes[2]>>

MCTables == {Overlapping, Others, Unserved}

\* The assumptions hold of the whole of main()'s table.
ASSUME Unambiguous(Elements(MainRoutes) \cup Elements(Probes) \cup {DocsRoute})
ASSUME WellDocumented(Elements(MainRoutes) \cup Elements(Probes))
=============================================================================
