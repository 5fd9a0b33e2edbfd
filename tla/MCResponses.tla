---------------------------- MODULE MCResponses ----------------------------
(***************************************************************************)
(* Instances of Responses for TLC: any of the seven handlers, with times   *)
(* in the years 0 to 9999 and one zone offset beyond.                      *)
(***************************************************************************)
EXTENDS Responses

Times == {-1, Now, Last, Last + 1}

In(op, good, from, to) == [op |-> op, good |-> good, StartAt |-> from, EndAt |-> to]

\* One timeslot is there, so that two requests can race to book it.
MCBefore == {[StartAt |-> Now, EndAt |-> Last]}

MCInputs ==
    {In(op, g, 0, 0) : op \in Ops, g \in BOOLEAN}
      \cup {In(op, TRUE, from, to) :
               op \in {"CreateTimeslot", "UpdateTimeslot", "GetAllotted"},
               from \in Times, to \in Times}
=============================================================================
