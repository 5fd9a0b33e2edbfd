----------------------------- MODULE MCService -----------------------------
(***************************************************************************)
(* Instances of Service for TLC, with the requests of MCStore.             *)
(***************************************************************************)
EXTENDS MCStore, Service

\* A booking or a deletion beside one request of every kind.
ServiceInputs ==
    LET t == CHOOSE u \in Tenants : TRUE
    IN  [r \in MCRequests |->
            IF r \in Bookers
              THEN UNION {{Book(s, TRUE, <<e1>>), Delete(s)} : s \in StoredSlots}
              ELSE UNION {{Book(s, TRUE, << >>), Delete(s), Update(s, 4, 8, 2)} :
                              s \in StoredSlots}
                     \cup {Offer(t, <<Win(0, 2)>>, 1), Join(TRUE), See(t)}]
=============================================================================
