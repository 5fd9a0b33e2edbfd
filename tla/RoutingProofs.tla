--------------------------- MODULE RoutingProofs ---------------------------
(***************************************************************************)
(* The order in which RegisterRoutes comes by the routes never matters,    *)
(* for any table that is unambiguous (RoutesAssumption), and a documented  *)
(* request reaches the handler the documentation names, for any table that *)
(* agrees with it (DocumentationAssumption); MCRouting checks both of      *)
(* main()'s table.                                                         *)
(***************************************************************************)
EXTENDS Routing, TLAPS

Candidates == Elements(calls) \cup Elements(Probes) \cup {DocsRoute}

\* Every route of the table is either still to come or in the router, where no
\* route is twice; and a route that could not be registered ends the start.
Handed ==
    /\ calls \in Tables /\ added \in 0..Len(calls)
    /\ table \subseteq Elements(calls) \cup Elements(Probes)
    /\ pending \subseteq table
    /\ stage = "adding" => pending = {}
    /\ router \in Seq(Candidates)
    /\ \A i, j \in DOMAIN router : router[i] = router[j] => i = j
    /\ \A i \in DOMAIN router : router[i] \notin pending
    /\ stage # "adding" => Elements(router) \subseteq table \cup {DocsRoute}
    /\ stage # "adding" /\ ~failed =>
           table \cup {DocsRoute} \subseteq Elements(router) \cup pending
    /\ stage = "serving" => ~failed /\ pending = {}

\* The wildcard route is in no table: it alone is a prefix.
LEMMA DocsApart ==
    ASSUME calls \in Tables
    PROVE  DocsRoute \notin Elements(calls) \cup Elements(Probes)
<1>1. DocsRoute.prefix = TRUE
  BY DEF DocsRoute
<1>2. \A r \in Elements(Probes) : r.prefix = FALSE
  BY DEF Elements, Probes, Route
<1>3. \A r \in Elements(calls) : r.prefix = FALSE
  <2> DEFINE R == [route : Seq(STRING), methods : SUBSET Methods, fn : STRING,
                   prefix : {FALSE}]
  <2>1. calls \in Seq(R)
    BY RoutesAssumption
  <2>2. \A r \in R : r.prefix = FALSE
    OBVIOUS
  <2> HIDE DEF R
  <2>3. \A i \in DOMAIN calls : calls[i] \in R
    BY <2>1
  <2> QED BY <2>2, <2>3 DEF Elements
<1> QED BY <1>1, <1>2, <1>3

\* What Append does to a sequence, as far as the router is concerned.
LEMMA Appended ==
    ASSUME NEW S, NEW s \in Seq(S), NEW e \in S
    PROVE  /\ Append(s, e) \in Seq(S)
           /\ DOMAIN s = 1..Len(s) /\ Len(s) \in Nat
           /\ DOMAIN Append(s, e) = 1..(Len(s) + 1)
           /\ \A i \in 1..Len(s) : Append(s, e)[i] = s[i]
           /\ Append(s, e)[Len(s) + 1] = e
OBVIOUS

\* AddRoute only ever stores routes it was given.
LEMMA AddRouteKeeps ==
    ASSUME Handed, AddRoute
    PROVE  Handed'
<1>1. calls \in Seq([route : Seq(STRING), methods : SUBSET Methods, fn : STRING,
                     prefix : {FALSE}])
  BY RoutesAssumption DEF Handed
<1>2. added' \in 0..Len(calls) /\ calls[added'] \in Elements(calls)
  BY <1>1 DEF Handed, AddRoute, Elements
<1>3. table' \subseteq Elements(calls) \cup Elements(Probes)
  BY <1>2 DEF Handed, AddRoute, Added
<1> QED BY <1>2, <1>3 DEF Handed, AddRoute, Candidates, Elements

LEMMA RegisterRoutesKeeps ==
    ASSUME Handed, RegisterRoutes
    PROVE  Handed'
<1>1. \A i \in {1, 2, 3} : Probes[i] \in Elements(Probes)
  BY DEF Probes, Elements
<1>2. table' \subseteq Elements(calls) \cup Elements(Probes)
  BY <1>1 DEF Handed, RegisterRoutes, Added
<1>3. DocsRoute \notin table'
  BY <1>2, DocsApart DEF Handed
<1>4. /\ router' \in Seq(Candidates')
      /\ DOMAIN router' = {1} /\ router'[1] = DocsRoute
      /\ Elements(router') = {DocsRoute}
  BY DEF RegisterRoutes, Candidates, Elements
<1>5. calls' = calls /\ added' = added /\ stage' = "ranging" /\ pending' = table'
  BY DEF RegisterRoutes
<1> HIDE DEF Candidates
<1> QED BY <1>2, <1>3, <1>4, <1>5 DEF Handed

\* A round of the loop moves one route from what is to come to the router.
LEMMA RangeKeeps ==
    ASSUME Handed, Range
    PROVE  Handed'
<1> PICK r \in pending :
        /\ pending' = pending \ {r}
        /\ IF r.methods = {}
             THEN failed' = TRUE /\ UNCHANGED router
             ELSE router' = HandleFunc(r) /\ UNCHANGED failed
  BY DEF Range
<1>1. stage' = stage /\ calls' = calls /\ added' = added /\ table' = table
      /\ stage = "ranging"
  BY DEF Range
<1>2. Candidates' = Candidates
  BY <1>1 DEF Candidates
<1>3. CASE r.methods = {}
  BY <1>1, <1>2, <1>3 DEF Handed
<1>4. CASE r.methods # {}
  <2>1. r \in Candidates /\ r \in table
    BY DEF Handed, Candidates
  <2>2. router' = Append(router, r) /\ failed' = failed
    BY <1>4 DEF HandleFunc
  <2>3. /\ router' \in Seq(Candidates)
        /\ DOMAIN router = 1..Len(router) /\ Len(router) \in Nat
        /\ DOMAIN router' = 1..(Len(router) + 1)
        /\ \A i \in 1..Len(router) : router'[i] = router[i]
        /\ router'[Len(router) + 1] = r
    BY <2>1, <2>2, Appended DEF Handed
  <2>4. \A i \in DOMAIN router : router[i] # r
    BY DEF Handed
  <2>5. Elements(router') = Elements(router) \cup {r}
    BY <2>3 DEF Elements
  <2>6. \A i, j \in DOMAIN router' : router'[i] = router'[j] => i = j
    BY <2>3, <2>4 DEF Handed
  <2>7. \A i \in DOMAIN router' : router'[i] \notin pending'
    BY <2>3 DEF Handed
  <2> QED BY <1>1, <1>2, <2>1, <2>2, <2>3, <2>5, <2>6, <2>7 DEF Handed
<1> QED BY <1>3, <1>4

\* With an unambiguous table one route of the router at most matches, so that
\* the first that matches is the only one.
LEMMA OneHit ==
    ASSUME Handed, stage = "serving", NEW q \in Requests
    PROVE  Dispatch(q) = Answer(q)
<1> DEFINE all == table \cup {DocsRoute}
           hits == {r \in all : Matches(r, q)}
<1>1. Elements(router) = all
  BY DEF Handed
<1>2. \A r, s \in all : Matches(r, q) /\ Matches(s, q) => r = s
  BY RoutesAssumption DEF Handed, Unambiguous
<1>3. \A i \in DOMAIN router : router[i] \in all
  BY <1>1 DEF Elements
<1>4. \A r \in all : \E i \in DOMAIN router : router[i] = r
  BY <1>1 DEF Elements
<1>5. Hits(q) # {} <=> hits # {}
  BY <1>3, <1>4 DEF Hits
<1>6. ASSUME Hits(q) # {}
      PROVE  router[First(Hits(q))].fn = (CHOOSE r \in hits : TRUE).fn
  <2>1. PICK i \in Hits(q) : TRUE
    BY <1>6
  <2>2. \A j \in Hits(q) : j = i
    BY <2>1, <1>2, <1>3 DEF Hits, Handed
  <2>3. i \in Nat
    BY <2>1 DEF Hits, Handed
  <2>4. First(Hits(q)) = i
    <3>1. i \in Hits(q) /\ \A j \in Hits(q) : i <= j
      BY <2>1, <2>2, <2>3
    <3>2. /\ First(Hits(q)) \in Hits(q)
          /\ \A j \in Hits(q) : First(Hits(q)) <= j
      BY <3>1 DEF First
    <3> QED BY <2>2, <3>2
  <2>5. router[i] \in hits /\ \A r \in hits : r = router[i]
    BY <2>1, <1>2, <1>3 DEF Hits
  <2> QED BY <2>4, <2>5
<1>7. (\E i \in DOMAIN router : PathMatches(router[i], q.path))
        <=> (\E r \in all : PathMatches(r, q.path))
  BY <1>3, <1>4
<1> QED BY <1>5, <1>6, <1>7 DEF Dispatch, Answer

\* Handed holds in every reachable state.
LEMMA HandedOver == Spec => []Handed
<1>1. Init => Handed
  <2> SUFFICES ASSUME Init PROVE Handed
    OBVIOUS
  <2>1. Len(calls) \in Nat
    BY RoutesAssumption DEF Init
  <2> QED BY <2>1 DEF Init, Handed, Elements
<1>2. Handed /\ [Next]_vars => Handed'
  <2> SUFFICES ASSUME Handed, [Next]_vars PROVE Handed'
    OBVIOUS
  <2>1. CASE AddRoute BY <2>1, AddRouteKeeps
  <2>2. CASE RegisterRoutes BY <2>2, RegisterRoutesKeeps
  <2>3. CASE Range BY <2>3, RangeKeeps
  <2>4. CASE Registered
    BY <2>4 DEF Registered, Handed, Candidates
  <2>5. CASE Over \/ UNCHANGED vars
    BY <2>5 DEF Over, vars, Handed, Candidates
  <2> QED BY <2>1, <2>2, <2>3, <2>4, <2>5 DEF Next
<1> QED BY <1>1, <1>2, PTL DEF Spec

\* Every start of the service serves alike, for any unambiguous table
\* (the range over s.routes in RegisterRoutes).
THEOREM OrderIsIrrelevant == Spec => []EveryOrderServesAlike
<1>1. Handed => EveryOrderServesAlike
  BY OneHit DEF EveryOrderServesAlike
<1> QED BY <1>1, HandedOver, PTL

-----------------------------------------------------------------------------
(* Documented requests.                                                    *)

\* s.routes holds a route under the key of r: r, or what has replaced it.
KeyTaken(r) == \E x \in table : x.route = r.route /\ x.methods = r.methods

\* No key that was added is ever lost, and a route without methods stays to come
\* until it fails the start.
KeysKept ==
    /\ \A i \in 1..added : KeyTaken(calls[i])
    /\ stage # "adding" =>
          added = Len(calls) /\ \A i \in DOMAIN Probes : KeyTaken(Probes[i])
    /\ stage # "adding" /\ ~failed => \A r \in table : r.methods = {} => r \in pending

\* A route put into the map takes its own key and frees no other.
LEMMA AddedKeeps ==
    ASSUME NEW t, NEW r, NEW k,
           k = r \/ \E x \in t : x.route = k.route /\ x.methods = k.methods
    PROVE  \E x \in Added(t, r) : x.route = k.route /\ x.methods = k.methods
BY DEF Added

\* No step loses a key or the handler under it.
LEMMA KeysInd == Handed /\ KeysKept /\ [Next]_vars => KeysKept'
<1> SUFFICES ASSUME Handed, KeysKept, [Next]_vars PROVE KeysKept'
  OBVIOUS
<1>1. CASE AddRoute
  <2>1. /\ stage = "adding" /\ UNCHANGED <<stage, calls>>
        /\ added' = added + 1 /\ table' = Added(table, calls[added'])
        /\ added \in Nat
    BY <1>1, RoutesAssumption DEF AddRoute, Handed
  <2>2. ASSUME NEW i \in 1..added'
        PROVE  KeyTaken(calls[i])'
    <3>1. i \in 1..added \/ i = added'
      BY <2>1
    <3> QED BY <2>1, <3>1, AddedKeeps DEF KeysKept, KeyTaken
  <2> QED BY <2>1, <2>2 DEF KeysKept
<1>2. CASE RegisterRoutes
  <2> DEFINE t1 == Added(table, Probes[1])
             t2 == Added(t1, Probes[2])
  <2>1. /\ UNCHANGED <<calls, added>> /\ added = Len(calls)
        /\ table' = Added(t2, Probes[3]) /\ pending' = table'
    BY <1>2 DEF RegisterRoutes
  <2> HIDE DEF t1, t2
  <2>2. ASSUME NEW i \in 1..added
        PROVE  KeyTaken(calls[i])'
    <3>1. \E x \in t1 : x.route = calls[i].route /\ x.methods = calls[i].methods
      BY AddedKeeps DEF t1, KeysKept, KeyTaken
    <3>2. \E x \in t2 : x.route = calls[i].route /\ x.methods = calls[i].methods
      BY <3>1, AddedKeeps DEF t2
    <3> QED BY <2>1, <3>2, AddedKeeps DEF KeyTaken
  <2>3. ASSUME NEW i \in {1, 2, 3}
        PROVE  KeyTaken(Probes[i])'
    <3>1. i = 1 => \E x \in t1 : x.route = Probes[i].route /\ x.methods = Probes[i].methods
      BY AddedKeeps DEF t1
    <3>2. i \in {1, 2} =>
             \E x \in t2 : x.route = Probes[i].route /\ x.methods = Probes[i].methods
      BY <3>1, AddedKeeps DEF t2
    <3> QED BY <2>1, <3>2, AddedKeeps DEF KeyTaken
  <2>4. DOMAIN Probes = {1, 2, 3}
    BY DEF Probes
  <2> QED BY <2>1, <2>2, <2>3, <2>4 DEF KeysKept
<1>3. CASE Range
  BY <1>3 DEF Range, KeysKept, KeyTaken
<1>4. CASE Registered \/ Over \/ UNCHANGED vars
  BY <1>4 DEF Registered, Over, vars, KeysKept, KeyTaken
<1> QED BY <1>1, <1>2, <1>3, <1>4 DEF Next

\* Who serves has registered every route, and no route without methods.
LEMMA ServedAreComplete ==
    ASSUME Handed, KeysKept, stage = "serving"
    PROVE  /\ \A r \in Elements(calls) \cup Elements(Probes) : KeyTaken(r)
           /\ \A r \in Elements(calls) : r.methods # {}
<1>1. ~failed /\ pending = {}
  BY DEF Handed
<1>2. \A r \in table : r.methods # {}
  BY <1>1 DEF KeysKept
<1>3. DOMAIN calls = 1..added
  BY RoutesAssumption DEF Handed, KeysKept
<1>4. \A r \in Elements(calls) \cup Elements(Probes) : KeyTaken(r)
  BY <1>3 DEF KeysKept, Elements
<1> QED BY <1>2, <1>4 DEF KeyTaken

\* A documented request matches the route the documentation names, in the table
\* under its own key, and no other.
LEMMA DocumentedAnswer ==
    ASSUME Handed, KeysKept, stage = "serving",
           NEW q \in Requests, NEW d \in Documented, Matches(d, q),
           \E r \in Elements(calls) \cup Elements(Probes) : r.fn = d.fn
    PROVE  Answer(q) = d.fn
<1> DEFINE given == Elements(calls) \cup Elements(Probes)
           all == table \cup {DocsRoute}
           hits == {r \in all : Matches(r, q)}
<1>1. d \in given
  BY ServedAreComplete, DocumentationAssumption DEF Handed, WellDocumented
<1>2. PICK x \in table : x.route = d.route /\ x.methods = d.methods
  BY <1>1, ServedAreComplete DEF KeyTaken
<1>3. \A r \in given : r.prefix = FALSE
  <2> DEFINE R == [route : Seq(STRING), methods : SUBSET Methods, fn : STRING,
                   prefix : {FALSE}]
  <2>1. calls \in Seq(R) /\ \A r \in R : r.prefix = FALSE
    BY RoutesAssumption DEF Handed
  <2>2. \A r \in Elements(Probes) : r.prefix = FALSE
    BY DEF Elements, Probes, Route
  <2> HIDE DEF R
  <2> QED BY <2>1, <2>2 DEF Elements
<1>4. table \subseteq given
  BY DEF Handed
<1>5. Matches(x, q)
  BY <1>1, <1>2, <1>3, <1>4 DEF Matches, PathMatches
<1>6. \A r, s \in given \cup {DocsRoute} : Matches(r, q) /\ Matches(s, q) => r = s
  BY RoutesAssumption DEF Handed, Unambiguous
<1>7. hits = {d}
  BY <1>1, <1>2, <1>4, <1>5, <1>6
<1> QED BY <1>7 DEF Answer

\* A request that the documentation describes reaches the handler it names, in
\* whatever order the routes came (AddRoute, RegisterRoutes).
THEOREM DocumentationHolds == Spec => []ServesAsDocumented
<1>1. Init => KeysKept
  <2> SUFFICES ASSUME Init PROVE KeysKept
    OBVIOUS
  <2> QED BY DEF Init, KeysKept
<1>2. Handed /\ KeysKept => ServesAsDocumented
  BY OneHit, DocumentedAnswer DEF ServesAsDocumented
<1> QED BY <1>1, KeysInd, <1>2, HandedOver, PTL DEF Spec
=============================================================================
