----------------------------- MODULE MCRealTime -----------------------------
(***************************************************************************)
(* Instances of RealTime for TLC, with the requests of MCStore.            *)
(***************************************************************************)
EXTENDS MCStore, RealTime

\* A booking, a deletion, an offer or an update, and readers of both kinds.
ReadInputs ==
    LET t == CHOOSE u \in Tenants : TRUE
    IN  [r \in MCRequests |->
            CASE r \in Bookers ->
                   {Book(s, TRUE, <<e1, e2>>) : s \in StoredSlots}
                     \cup {Book(<<c, 1, 1>>, TRUE, << >>) : c \in Creators}
              [] r \in Deleters -> {Delete(s) : s \in StoredSlots}
              [] r \in Creators ->
                   {Offer(t, <<Win(0, 4)>>, 1)} \cup {Update(s, 2, 6, 2) : s \in StoredSlots}
              [] OTHER -> {See(t), List(t, 0, 4, 0)}]

ReaderSymmetry == Permutations(Readers)
=============================================================================
