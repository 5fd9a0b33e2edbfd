----------------------------- MODULE Responses -----------------------------
(***************************************************************************)
(* How a handler turns what the store returned into one HTTP response:     *)
(* EncodeJSON, JSONError and MustJSONError over an http.ResponseWriter     *)
(* whose status is fixed by the first WriteHeader, for a client that may   *)
(* go away at any time, and a server that gives each response 30 seconds   *)
(* (WriteTimeout), however long its handler is still at work.              *)
(*                                                                         *)
(* The store is reduced to what a response can depend on: whether the call *)
(* succeeds, and which times it hands back.  Time is an integer, 0 the     *)
(* start of the year 0 and Last the end of the year 9999 in UTC: RFC 3339  *)
(* has four digits for a year, but with a zone offset it names instants    *)
(* beyond either end, and a timestamptz holds them.                        *)
(***************************************************************************)
EXTENDS Integers, Sequences, Errors

CONSTANTS
    Requests,
    Inputs,  \* what a client may send
    Before,  \* the periods stored already
    Now,     \* when the requests are handled
    Last     \* the last instant of the year 9999

Ops == {"CreateUser", "CreateTimeslot", "GetAllotted", "UpdateTimeslot",
        "DeleteTimeslot", "CreateMeeting", "GetCalendar"}

\* good: the body decodes, identifiers and dates parse, and every check that
\* does not compare two times passes (module Handlers has them).
Input == [op : Ops, good : BOOLEAN, StartAt : Int, EndAt : Int]

VARIABLES
    stored,  \* the periods of one user's timeslots
    booked,  \* those of them that carry a meeting
    sent,    \* [Requests -> what the client sends]
    pc,      \* [Requests -> where its handler is]
    fault,   \* [Requests -> the error its statement failed with, or NoFault]
    rows,    \* [Requests -> the periods the handler is to encode]
    header,  \* [Requests -> the status written, 0 before]
    body,    \* [Requests -> the documents written]
    gone,    \* requests whose client has gone
    late     \* requests whose write deadline has passed

answers == <<rows, header, body>>
outside == <<gone, late>>
vars == <<stored, booked, sent, pc, fault, answers, outside>>

NoFault == {"no fault"}

Init ==
    /\ stored = Before /\ booked = {}
    /\ sent \in [Requests -> Inputs]
    /\ pc = [r \in Requests |-> "called"]
    /\ fault = [r \in Requests |-> NoFault]
    /\ rows = [r \in Requests |-> {}]
    /\ header = [r \in Requests |-> 0]
    /\ body = [r \in Requests |-> << >>]
    /\ gone = {} /\ late = {}

-----------------------------------------------------------------------------
(* The response writer and the helpers of sdk/http/json.go.                *)

Goto(r, l) == pc' = [pc EXCEPT ![r] = l]

\* net/http keeps the first status and ignores a second.
WriteHeader(r, status) ==
    header' = [header EXCEPT ![r] = IF @ = 0 THEN status ELSE @]

Write(r, document) == body' = [body EXCEPT ![r] = Append(@, document)]

\* What r writes gets to its client: the connection and the time are there.
Reaches(r) == r \notin gone \cup late

\* The write returns an error.  A small one may succeed all the same: it stays in
\* the server's buffer, to be lost when the handler has returned.
WriteFails(r) == ~Reaches(r) /\ UNCHANGED body

\* MarshalJSON of a time.Time refuses years outside 0..9999.
Marshals(t) == 0 <= t /\ t <= Last

Encodes(r) == \A p \in rows[r] : Marshals(p.StartAt) /\ Marshals(p.EndAt)

\* w.WriteHeader is left out: the response goes out with status 200.
JSONError_NoStatus(r, status) ==
    /\ WriteHeader(r, 200)
    /\ IF status = 204 THEN UNCHANGED body
                       ELSE Write(r, "error") \/ WriteFails(r)

\* JSONError, its error ignored: no body with 204.
JSONError(r, status) ==
    /\ WriteHeader(r, status)
    /\ IF status = 204 THEN UNCHANGED body
                       ELSE Write(r, "error") \/ WriteFails(r)

\* MustJSONError encodes once more what could not be encoded.
MustJSONError_Again(r) ==
    /\ pc[r] = "must"
    /\ WriteHeader(r, 500)
    /\ \/ Encodes(r) /\ Write(r, "error") /\ Goto(r, "returned")
       \/ ~Encodes(r) /\ UNCHANGED body /\ Goto(r, "panicked")
       \/ WriteFails(r) /\ Goto(r, "panicked")
    /\ UNCHANGED <<stored, booked, sent, fault, rows, outside>>

\* MustJSONError panics where JSONError returns an error.
MustJSONError(r) ==
    /\ pc[r] = "must"
    /\ WriteHeader(r, 500)
    /\ \/ Write(r, "error") /\ Goto(r, "returned")
       \/ WriteFails(r) /\ Goto(r, "panicked")
    /\ UNCHANGED <<stored, booked, sent, fault, rows, outside>>

Success(op) == IF op \in {"GetAllotted", "GetCalendar"} THEN 200 ELSE 201

\* EncodeJSON: the header goes first, then the value or nothing of it.
EncodeJSON(r) ==
    /\ pc[r] = "encode"
    /\ WriteHeader(r, Success(sent[r].op))
    /\ \/ Encodes(r) /\ Write(r, "value") /\ Goto(r, "returned")
       \/ ~Encodes(r) /\ UNCHANGED body /\ Goto(r, "must")
       \/ WriteFails(r) /\ Goto(r, "must")
    /\ UNCHANGED <<stored, booked, sent, fault, rows, outside>>

-----------------------------------------------------------------------------
(* The seven handlers.                                                     *)

Good(q) ==
    /\ q.good
    /\ q.op \in {"CreateTimeslot", "UpdateTimeslot"} => q.EndAt > q.StartAt

\* The handler goes on after its 400.
Refuse_NoReturn(r) ==
    /\ pc[r] = "called" /\ ~Good(sent[r])
    /\ JSONError(r, 400)
    /\ Goto(r, "encode")
    /\ UNCHANGED <<stored, booked, sent, fault, rows, outside>>

Refuse(r) ==
    /\ pc[r] = "called" /\ ~Good(sent[r])
    /\ JSONError(r, 400)
    /\ Goto(r, "returned")
    /\ UNCHANGED <<stored, booked, sent, fault, rows, outside>>

Calls(r, op) == pc[r] = "called" /\ Good(sent[r]) /\ sent[r].op = op

\* How a statement of op may fail: on the constraints it meets, or otherwise.
\* A booking meets UNIQUE(timeslot_id) where there is a meeting.
Faults(op) ==
    {Unknown, {"57014"}}
      \cup (IF op \in {"CreateTimeslot", "CreateMeeting"} THEN {{Foreign}} ELSE {})
      \cup (IF op = "UpdateTimeslot" THEN {{Check}} ELSE {})
      \cup (IF op = "CreateMeeting" /\ booked # {} THEN {{Unique}} ELSE {})

\* The store returns an error: 409 if it is ErrSlotTaken, or else logged, and 500.
StoreFails(r) ==
    /\ pc[r] = "called" /\ Good(sent[r])
    /\ \E err \in Faults(sent[r].op) :
         /\ fault' = [fault EXCEPT ![r] = err]
         /\ \/ /\ "ErrSlotTaken" \in StoreError(sent[r].op, err)
               /\ JSONError(r, 409)
               /\ Goto(r, "returned")
            \/ /\ "ErrSlotTaken" \notin StoreError(sent[r].op, err)
               /\ UNCHANGED <<header, body>>
               /\ Goto(r, "must")
    /\ UNCHANGED <<stored, booked, sent, rows, outside>>

\* No row was changed.
NoRows(r) ==
    /\ Calls(r, "UpdateTimeslot") \/ Calls(r, "DeleteTimeslot")
    /\ JSONError(r, 409)
    /\ Goto(r, "returned")
    /\ UNCHANGED <<stored, booked, sent, fault, rows, outside>>

CreateUser(r) ==
    /\ Calls(r, "CreateUser")
    /\ Goto(r, "encode")
    /\ UNCHANGED <<stored, booked, sent, fault, answers, outside>>

Period(q) == [StartAt |-> q.StartAt, EndAt |-> q.EndAt]

\* A window one slot long.
CreateTimeslot(r) ==
    /\ Calls(r, "CreateTimeslot")
    /\ stored' = stored \cup {Period(sent[r])}
    /\ Goto(r, "encode")
    /\ UNCHANGED <<booked, sent, fault, answers, outside>>

UpdateTimeslot(r) ==
    /\ Calls(r, "UpdateTimeslot")
    /\ \E p \in stored \ booked : stored' = (stored \ {p}) \cup {Period(sent[r])}
    /\ JSONError(r, 204)
    /\ Goto(r, "returned")
    /\ UNCHANGED <<booked, sent, fault, rows, outside>>

DeleteTimeslot(r) ==
    /\ Calls(r, "DeleteTimeslot")
    /\ \E p \in stored \ booked : stored' = stored \ {p}
    /\ JSONError(r, 204)
    /\ Goto(r, "returned")
    /\ UNCHANGED <<booked, sent, fault, rows, outside>>

CreateMeeting(r) ==
    /\ Calls(r, "CreateMeeting")
    /\ \E p \in stored \ booked : booked' = booked \cup {p}
    /\ Goto(r, "encode")
    /\ UNCHANGED <<stored, sent, fault, answers, outside>>

\* Slots that start in the window asked for, and not in the past.
GetAllotted(r) ==
    /\ Calls(r, "GetAllotted")
    /\ rows' = [rows EXCEPT ![r] = {p \in stored : /\ p.StartAt >= sent[r].StartAt
                                                   /\ p.StartAt < sent[r].EndAt
                                                   /\ p.StartAt >= Now}]
    /\ Goto(r, "encode")
    /\ UNCHANGED <<stored, booked, sent, fault, header, body, outside>>

GetCalendar(r) ==
    /\ Calls(r, "GetCalendar")
    /\ rows' = [rows EXCEPT ![r] = booked]
    /\ Goto(r, "encode")
    /\ UNCHANGED <<stored, booked, sent, fault, header, body, outside>>

Leave(r) ==
    /\ r \notin gone /\ pc[r] \notin {"returned", "panicked"}
    /\ gone' = gone \cup {r}
    /\ UNCHANGED <<stored, booked, sent, pc, fault, answers, late>>

\* The deadline passes: the handler has waited for a connection or a lock, or has
\* much to do.  Nobody tells it, and it goes on to its end.
WriteTimeout(r) ==
    /\ r \notin late /\ pc[r] \notin {"returned", "panicked"}
    /\ late' = late \cup {r}
    /\ UNCHANGED <<stored, booked, sent, pc, fault, answers, gone>>

-----------------------------------------------------------------------------

Handler(r) ==
    \/ Refuse(r) \/ StoreFails(r) \/ NoRows(r)
    \/ CreateUser(r) \/ CreateTimeslot(r) \/ UpdateTimeslot(r) \/ DeleteTimeslot(r)
    \/ CreateMeeting(r) \/ GetAllotted(r) \/ GetCalendar(r)
    \/ EncodeJSON(r) \/ MustJSONError(r)

Over == (\A r \in Requests : pc[r] \in {"returned", "panicked"}) /\ UNCHANGED vars

Next == (\E r \in Requests : Handler(r) \/ Leave(r) \/ WriteTimeout(r)) \/ Over

Spec == Init /\ [][Next]_vars

-----------------------------------------------------------------------------
(* Properties.                                                             *)

\* A request gets exactly one response, unless its client leaves or its 30 seconds
\* pass while the handler is at work: one document, of the kind its status line
\* may announce, or none with 204.
OneAnswer ==
    \A r \in Requests : pc[r] = "returned" /\ Reaches(r) =>
        /\ header[r] # 0
        /\ header[r] = 204 => body[r] = << >>
        /\ header[r] # 204 => Len(body[r]) = 1
        /\ header[r] \in {400, 409, 500} => body[r] = <<"error">>

\* MustJSONError panics only where no answer can arrive any more: its client has
\* gone, or waits for a response that is past its write deadline.
PanicsUnseen == \A r \in Requests : pc[r] = "panicked" => ~Reaches(r)

\* "@Failure 500 {object} sdkhttp.HTTPError": an HTTPError comes with the status
\* of an error, not of a success.
ErrorsHaveErrorStatus ==
    \A r \in Requests :
        Reaches(r) /\ body[r] = <<"error">> => header[r] \in {400, 409, 500}

\* The one way past it: whoever is shown an HTTPError under the status of a success
\* has asked for rows with a time outside the years that JSON can express.
OnlyFarYearsMislead ==
    \A r \in Requests :
        /\ Reaches(r)
        /\ body[r] = <<"error">>
        /\ header[r] \notin {400, 409, 500}
        => ~Encodes(r)

\* "Loser gets a unique-violation (mapped to 409)": a booking is answered 409 for
\* a unique violation and for nothing else, whatever became of the error between
\* the driver and the handler.
LosersAreTold ==
    \A r \in Requests :
        sent[r].op = "CreateMeeting" /\ pc[r] = "returned" =>
            (header[r] = 409 <=> fault[r] = {Unique})
=============================================================================
