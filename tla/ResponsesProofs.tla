-------------------------- MODULE ResponsesProofs --------------------------
(***************************************************************************)
(* One response per request in time, and no panic in place of one, whatever*)
(* the number of requests, their input, and the times stored.              *)
(***************************************************************************)
EXTENDS Responses, TLAPS

\* What has gone out at each place of a handler.
Place(r) ==
    /\ pc[r] \in {"called", "encode"} => header[r] = 0 /\ body[r] = << >>
    /\ pc[r] = "must" => header[r] \in {0, 200, 201} /\ body[r] = << >>
    /\ pc[r] = "panicked" => ~Reaches(r)
    /\ pc[r] = "returned" =>
          \/ ~Reaches(r)
          \/ header[r] = 204 /\ body[r] = << >>
          \/ header[r] \in {200, 201} /\ Len(body[r]) = 1
          \/ header[r] \in {400, 409, 500} /\ body[r] = <<"error">>

Places == {"called", "encode", "must", "returned", "panicked"}

Written ==
    /\ pc \in [Requests -> Places]
    /\ header \in [Requests -> Nat]
    /\ body \in [Requests -> Seq({"value", "error"})]
    /\ \A r \in Requests : Place(r)

\* The helpers touch the response of their own request only; one document is
\* appended, or none.
LEMMA Written1 ==
    ASSUME Written, NEW r \in Requests, NEW d \in {"value", "error"}, body[r] = << >>,
           Write(r, d)
    PROVE  /\ body' \in [Requests -> Seq({"value", "error"})]
           /\ body'[r] = <<d>> /\ Len(body'[r]) = 1
           /\ \A s \in Requests \ {r} : body'[s] = body[s]
BY DEF Written, Write

LEMMA Headed ==
    ASSUME Written, NEW r \in Requests, NEW status \in Nat, WriteHeader(r, status)
    PROVE  /\ header' \in [Requests -> Nat]
           /\ header'[r] = IF header[r] = 0 THEN status ELSE header[r]
           /\ \A s \in Requests \ {r} : header'[s] = header[s]
BY DEF Written, WriteHeader

LEMMA Moved ==
    ASSUME Written, NEW r \in Requests, NEW l \in Places, Goto(r, l)
    PROVE  /\ pc' \in [Requests -> Places]
           /\ pc'[r] = l /\ \A s \in Requests \ {r} : pc'[s] = pc[s]
BY DEF Written, Goto

\* So it is enough to look at that request.
LEMMA OthersKeep ==
    ASSUME Written, NEW r \in Requests, UNCHANGED outside,
           pc' \in [Requests -> Places],
           header' \in [Requests -> Nat],
           body' \in [Requests -> Seq({"value", "error"})],
           \A s \in Requests \ {r} :
               pc'[s] = pc[s] /\ header'[s] = header[s] /\ body'[s] = body[s],
           Place(r)'
    PROVE  Written'
<1>1. ASSUME NEW s \in Requests \ {r} PROVE Place(s)'
  BY DEF Written, Place, Reaches, outside
<1> QED BY <1>1 DEF Written

\* A JSONError called on a fresh response, by a handler that returns then.
LEMMA JSONErrorKeeps ==
    ASSUME Written, NEW r \in Requests, NEW status \in {204, 400, 409},
           pc[r] = "called", JSONError(r, status), Goto(r, "returned"), UNCHANGED outside
    PROVE  Written'
<1>0. UNCHANGED outside
  OBVIOUS
<1>1. header[r] = 0 /\ body[r] = << >>
  BY DEF Written, Place
<1>2. WriteHeader(r, status) /\ status \in Nat
  BY DEF JSONError
<1>3. /\ header' \in [Requests -> Nat] /\ header'[r] = status
      /\ \A s \in Requests \ {r} : header'[s] = header[s]
  BY <1>1, <1>2, Headed
<1>4. /\ pc' \in [Requests -> Places]
      /\ pc'[r] = "returned" /\ \A s \in Requests \ {r} : pc'[s] = pc[s]
  BY Moved DEF Places
<1>5. CASE UNCHANGED body /\ (status = 204 \/ ~Reaches(r))
  <2>1. /\ body' \in [Requests -> Seq({"value", "error"})]
        /\ body' = body /\ \A s \in Requests \ {r} : body'[s] = body[s]
    BY <1>5 DEF Written
  <2>2. Place(r)'
    BY <1>1, <1>3, <1>4, <1>5, <2>1 DEF Place, Reaches, outside
  <2> QED BY <1>0, <1>3, <1>4, <2>1, <2>2, OthersKeep, SMTT(30)
<1>6. CASE status # 204 /\ Write(r, "error")
  <2>1. /\ body' \in [Requests -> Seq({"value", "error"})] /\ body'[r] = <<"error">>
        /\ \A s \in Requests \ {r} : body'[s] = body[s]
    BY <1>1, <1>6, Written1
  <2>2. Place(r)'
    BY <1>3, <1>4, <1>6, <2>1 DEF Place
  <2> QED BY <1>0, <1>3, <1>4, <2>1, <2>2, OthersKeep, SMTT(30)
<1> QED BY <1>5, <1>6 DEF JSONError, WriteFails

\* A call to the store whose answer is still to be written.
LEMMA CallKeeps ==
    ASSUME Written, NEW r \in Requests, NEW l \in {"encode", "must"},
           pc[r] = "called", Goto(r, l), UNCHANGED <<header, body, outside>>
    PROVE  Written'
BY DEF Written, Place, Goto, Places, Reaches, outside

LEMMA EncodeJSONKeeps ==
    ASSUME Written, NEW r \in Requests, EncodeJSON(r)
    PROVE  Written'
<1>0. UNCHANGED outside
  BY DEF EncodeJSON
<1>1. pc[r] = "encode" /\ header[r] = 0 /\ body[r] = << >>
  BY DEF Written, Place, EncodeJSON
<1>2. Success(sent[r].op) \in {200, 201}
  BY DEF Success
<1>3. /\ header' \in [Requests -> Nat] /\ header'[r] \in {200, 201}
      /\ \A s \in Requests \ {r} : header'[s] = header[s]
  BY <1>1, <1>2, Headed DEF EncodeJSON
<1>4. CASE Write(r, "value") /\ Goto(r, "returned")
  <2>1. /\ body' \in [Requests -> Seq({"value", "error"})] /\ Len(body'[r]) = 1
        /\ \A s \in Requests \ {r} : body'[s] = body[s]
    BY <1>1, <1>4, Written1
  <2>2. /\ pc' \in [Requests -> Places]
        /\ pc'[r] = "returned" /\ \A s \in Requests \ {r} : pc'[s] = pc[s]
    BY <1>4, Moved DEF Places
  <2>3. Place(r)'
    BY <1>3, <2>1, <2>2 DEF Place
  <2> QED BY <1>0, <1>3, <2>1, <2>2, <2>3, OthersKeep, SMTT(30)
<1>5. CASE UNCHANGED body /\ Goto(r, "must")
  <2>1. /\ body' \in [Requests -> Seq({"value", "error"})]
        /\ body' = body /\ \A s \in Requests \ {r} : body'[s] = body[s]
    BY <1>5 DEF Written
  <2>2. /\ pc' \in [Requests -> Places]
        /\ pc'[r] = "must" /\ \A s \in Requests \ {r} : pc'[s] = pc[s]
    BY <1>5, Moved DEF Places
  <2>3. Place(r)'
    BY <1>1, <1>3, <2>1, <2>2 DEF Place
  <2> QED BY <1>0, <1>3, <2>1, <2>2, <2>3, OthersKeep, SMTT(30)
<1> QED BY <1>4, <1>5 DEF EncodeJSON, WriteFails

LEMMA MustJSONErrorKeeps ==
    ASSUME Written, NEW r \in Requests, MustJSONError(r)
    PROVE  Written'
<1>0. UNCHANGED outside
  BY DEF MustJSONError
<1>1. pc[r] = "must" /\ header[r] \in {0, 200, 201} /\ body[r] = << >>
  BY DEF Written, Place, MustJSONError
<1>2. /\ header' \in [Requests -> Nat] /\ header'[r] \in {200, 201, 500}
      /\ \A s \in Requests \ {r} : header'[s] = header[s]
  BY <1>1, Headed DEF MustJSONError
<1>3. CASE Write(r, "error") /\ Goto(r, "returned")
  <2>1. /\ body' \in [Requests -> Seq({"value", "error"})]
        /\ body'[r] = <<"error">> /\ Len(body'[r]) = 1
        /\ \A s \in Requests \ {r} : body'[s] = body[s]
    BY <1>1, <1>3, Written1
  <2>2. /\ pc' \in [Requests -> Places]
        /\ pc'[r] = "returned" /\ \A s \in Requests \ {r} : pc'[s] = pc[s]
    BY <1>3, Moved DEF Places
  <2>3. Place(r)'
    BY <1>2, <2>1, <2>2 DEF Place
  <2> QED BY <1>0, <1>2, <2>1, <2>2, <2>3, OthersKeep, SMTT(30)
<1>4. CASE WriteFails(r) /\ Goto(r, "panicked")
  <2>1. /\ body' \in [Requests -> Seq({"value", "error"})]
        /\ \A s \in Requests \ {r} : body'[s] = body[s]
        /\ body' = body /\ ~Reaches(r)
    BY <1>4 DEF Written, WriteFails
  <2>2. /\ pc' \in [Requests -> Places]
        /\ pc'[r] = "panicked" /\ \A s \in Requests \ {r} : pc'[s] = pc[s]
    BY <1>4, Moved DEF Places
  <2>3. Place(r)'
    BY <1>0, <2>1, <2>2 DEF Place, Reaches, outside
  <2> QED BY <1>0, <1>2, <2>1, <2>2, <2>3, OthersKeep, SMTT(30)
<1> QED BY <1>3, <1>4 DEF MustJSONError

LEMMA HandlerKeeps ==
    ASSUME Written, NEW r \in Requests, Handler(r)
    PROVE  Written'
<1>1. CASE Refuse(r) BY <1>1, JSONErrorKeeps DEF Refuse
<1>2. CASE NoRows(r) BY <1>2, JSONErrorKeeps DEF NoRows, Calls
<1>3. CASE UpdateTimeslot(r) BY <1>3, JSONErrorKeeps DEF UpdateTimeslot, Calls
<1>4. CASE DeleteTimeslot(r) BY <1>4, JSONErrorKeeps DEF DeleteTimeslot, Calls
<1>5. CASE StoreFails(r) BY <1>5, CallKeeps, JSONErrorKeeps DEF StoreFails
<1>6. CASE CreateUser(r) BY <1>6, CallKeeps DEF CreateUser, Calls, answers
<1>7. CASE CreateTimeslot(r) BY <1>7, CallKeeps DEF CreateTimeslot, Calls, answers
<1>8. CASE CreateMeeting(r) BY <1>8, CallKeeps DEF CreateMeeting, Calls, answers
<1>9. CASE GetAllotted(r) BY <1>9, CallKeeps DEF GetAllotted, Calls
<1>10. CASE GetCalendar(r) BY <1>10, CallKeeps DEF GetCalendar, Calls
<1> QED BY <1>1, <1>2, <1>3, <1>4, <1>5, <1>6, <1>7, <1>8, <1>9, <1>10,
           EncodeJSONKeeps, MustJSONErrorKeeps DEF Handler

LEMMA AlwaysWritten == Spec => []Written
<1>1. Init => Written
  BY DEF Init, Written, Place, Places
<1>2. Written /\ [Next]_vars => Written'
  <2> SUFFICES ASSUME Written, [Next]_vars PROVE Written'
    OBVIOUS
  <2>1. ASSUME NEW r \in Requests, Handler(r) PROVE Written'
    BY <2>1, HandlerKeeps
  <2>2. ASSUME NEW r \in Requests, Leave(r) \/ WriteTimeout(r) PROVE Written'
    BY <2>2 DEF Leave, WriteTimeout, Reaches, Written, Place, answers
  <2>3. CASE Over \/ UNCHANGED vars
    BY <2>3 DEF Over, vars, outside, Reaches, Written, Place, answers
  <2> QED BY <2>1, <2>2, <2>3 DEF Next
<1> QED BY <1>1, <1>2, PTL DEF Spec

\* Every handler answers once and returns (the early returns of the handlers), and
\* what it answers within WriteTimeout arrives at a client that waits.
THEOREM AnsweredOnce == Spec => []OneAnswer
<1>1. Written => OneAnswer
  <2> SUFFICES ASSUME Written, NEW r \in Requests, pc[r] = "returned", Reaches(r)
               PROVE  /\ header[r] # 0
                      /\ header[r] = 204 => body[r] = << >>
                      /\ header[r] # 204 => Len(body[r]) = 1
                      /\ header[r] \in {400, 409, 500} => body[r] = <<"error">>
    BY DEF OneAnswer
  <2>1. \/ header[r] = 204 /\ body[r] = << >>
        \/ header[r] \in {200, 201} /\ Len(body[r]) = 1
        \/ header[r] \in {400, 409, 500} /\ body[r] = <<"error">>
    BY DEF Written, Place
  <2>2. body[r] = <<"error">> => Len(body[r]) = 1
    OBVIOUS
  <2> QED BY <2>1, <2>2
<1> QED BY <1>1, AlwaysWritten, PTL

\* MustJSONError panics only when no answer can arrive: after WriteTimeout, or when
\* nobody is at the other end.
THEOREM NoPanicSeen == Spec => []PanicsUnseen
<1>1. Written => PanicsUnseen
  BY DEF Written, Place, PanicsUnseen
<1> QED BY <1>1, AlwaysWritten, PTL

-----------------------------------------------------------------------------
(* 409 for a booking, from the driver's error to the status line.          *)

\* What a booking was told, at each place of its handler.
Told(r) ==
    sent[r].op = "CreateMeeting" =>
        /\ pc[r] = "called" => fault[r] = NoFault
        /\ pc[r] \in {"encode", "must"} => fault[r] # {Unique}
        /\ pc[r] = "returned" => (header[r] = 409 <=> fault[r] = {Unique})

Tells ==
    /\ Written
    /\ fault \in [Requests -> {NoFault, Unknown, {"57014"}, {Foreign}, {Check}, {Unique}}]
    /\ \A r \in Requests : Told(r)

\* BookMeeting keeps the unique violation apart from every other error.
LEMMA BookingErrors ==
    ASSUME NEW err \in {Unknown, {"57014"}, {Foreign}, {Unique}}
    PROVE  "ErrSlotTaken" \in StoreError("CreateMeeting", err) <=> err = {Unique}
<1>1. CASE err = {Unique}
  BY <1>1 DEF StoreError, BookMeeting, IsUniqueConstraintErr
<1>2. CASE err # {Unique}
  <2>1. Unique \notin err /\ err # {Unique}
    BY <1>2 DEF Unknown, Unique, Foreign
  <2>2. "ErrSlotTaken" \notin WrapPostgresError(err)
    BY DEF WrapPostgresError, Sentinel, Unknown, Unique, Foreign, Check
  <2> QED BY <2>1, <2>2 DEF StoreError, BookMeeting, IsUniqueConstraintErr
<1> QED BY <1>1, <1>2

\* A step that leaves every fault alone, and moves one request.
LEMMA QuietSteps ==
    ASSUME Tells, Written', NEW r \in Requests, UNCHANGED <<sent, fault>>,
           \A s \in Requests \ {r} : pc'[s] = pc[s] /\ header'[s] = header[s],
           Told(r)'
    PROVE  Tells'
<1>1. ASSUME NEW s \in Requests \ {r} PROVE Told(s)'
  BY DEF Tells, Told
<1> QED BY <1>1 DEF Tells

LEMMA StoreFailsTells ==
    ASSUME Tells, Written', NEW r \in Requests, StoreFails(r)
    PROVE  Tells'
<1>1. PICK err \in Faults(sent[r].op) :
        /\ fault' = [fault EXCEPT ![r] = err]
        /\ \/ /\ "ErrSlotTaken" \in StoreError(sent[r].op, err)
              /\ JSONError(r, 409) /\ Goto(r, "returned")
           \/ /\ "ErrSlotTaken" \notin StoreError(sent[r].op, err)
              /\ UNCHANGED <<header, body>> /\ Goto(r, "must")
  BY DEF StoreFails
<1>2. /\ pc[r] = "called" /\ header[r] = 0
      /\ UNCHANGED sent /\ Written
  BY DEF StoreFails, Tells, Written, Place
<1>3. err \in {Unknown, {"57014"}, {Foreign}, {Check}, {Unique}}
  BY DEF Faults
<1>4. /\ fault' \in [Requests -> {NoFault, Unknown, {"57014"}, {Foreign}, {Check}, {Unique}}]
      /\ fault'[r] = err /\ \A s \in Requests \ {r} : fault'[s] = fault[s]
  BY <1>1, <1>3 DEF Tells
<1>5. \A s \in Requests \ {r} : pc'[s] = pc[s] /\ header'[s] = header[s]
  BY <1>1, <1>2 DEF Goto, JSONError, WriteHeader, Written
<1>6. Told(r)'
  <2> SUFFICES ASSUME sent[r].op = "CreateMeeting" PROVE Told(r)'
    BY <1>2 DEF Told
  <2>1. err \in {Unknown, {"57014"}, {Foreign}, {Unique}}
    BY DEF Faults
  <2>2. "ErrSlotTaken" \in StoreError(sent[r].op, err) <=> err = {Unique}
    BY <2>1, BookingErrors
  <2>3. CASE err = {Unique}
    <3>1. pc'[r] = "returned" /\ header'[r] = 409
      BY <1>1, <1>2, <2>2, <2>3 DEF Goto, JSONError, WriteHeader, Written
    <3> QED BY <1>4, <2>3, <3>1 DEF Told
  <2>4. CASE err # {Unique}
    <3>1. pc'[r] = "must"
      BY <1>1, <1>2, <2>2, <2>4 DEF Goto, Written
    <3> QED BY <1>4, <2>4, <3>1 DEF Told
  <2> QED BY <2>3, <2>4
<1>7. ASSUME NEW s \in Requests \ {r} PROVE Told(s)'
  BY <1>2, <1>4, <1>5 DEF Tells, Told
<1> QED BY <1>4, <1>6, <1>7 DEF Tells

LEMMA HandlerTells ==
    ASSUME Tells, Written', NEW r \in Requests, Handler(r)
    PROVE  Tells'
<1>0. Written /\ Told(r) /\ NoFault # {Unique}
  BY DEF Tells, NoFault, Unique
<1>1. CASE Refuse(r)
  <2>1. Told(r)'
    BY <1>0, <1>1 DEF Refuse, JSONError, WriteHeader, Goto, Written, Place, Told
  <2> QED BY <1>0, <1>1, <2>1, QuietSteps DEF Refuse, JSONError, WriteHeader, Goto, Written
<1>2. CASE NoRows(r) \/ UpdateTimeslot(r) \/ DeleteTimeslot(r)
  <2>1. Told(r)'
    BY <1>2 DEF NoRows, UpdateTimeslot, DeleteTimeslot, Calls, Told
  <2> QED BY <1>0, <1>2, <2>1, QuietSteps
          DEF NoRows, UpdateTimeslot, DeleteTimeslot, JSONError, WriteHeader, Goto, Written
<1>3. CASE CreateUser(r) \/ CreateTimeslot(r) \/ CreateMeeting(r)
             \/ GetAllotted(r) \/ GetCalendar(r)
  <2>1. /\ pc[r] = "called" /\ Goto(r, "encode")
        /\ UNCHANGED <<sent, fault, header>>
    BY <1>3 DEF CreateUser, CreateTimeslot, CreateMeeting, GetAllotted, GetCalendar,
                Calls, answers
  <2>2. Told(r)'
    BY <1>0, <2>1 DEF Goto, Written, Told
  <2> QED BY <1>0, <2>1, <2>2, QuietSteps DEF Goto, Written
<1>4. CASE EncodeJSON(r)
  <2>1. /\ pc[r] = "encode" /\ WriteHeader(r, Success(sent[r].op))
        /\ Goto(r, "returned") \/ Goto(r, "must")
        /\ UNCHANGED <<sent, fault>>
    BY <1>4 DEF EncodeJSON
  <2>2. header'[r] # 409 /\ \A s \in Requests \ {r} : header'[s] = header[s]
    BY <1>0, <2>1 DEF Written, Place, WriteHeader, Success
  <2>3. Told(r)'
    BY <1>0, <2>1, <2>2 DEF Goto, Written, Told
  <2> QED BY <1>0, <2>1, <2>2, <2>3, QuietSteps DEF Goto, Written
<1>5. CASE MustJSONError(r)
  <2>1. /\ pc[r] = "must" /\ WriteHeader(r, 500)
        /\ Goto(r, "returned") \/ Goto(r, "panicked")
        /\ UNCHANGED <<sent, fault>>
    BY <1>5 DEF MustJSONError
  <2>2. header'[r] # 409 /\ \A s \in Requests \ {r} : header'[s] = header[s]
    <3>1. header[r] \in {0, 200, 201}
      BY <1>0, <2>1 DEF Written, Place
    <3> QED BY <1>0, <2>1, <3>1, Headed
  <2>3. Told(r)'
    BY <1>0, <2>1, <2>2 DEF Goto, Written, Told
  <2> QED BY <1>0, <2>1, <2>2, <2>3, QuietSteps DEF Goto, Written
<1> QED BY <1>1, <1>2, <1>3, <1>4, <1>5, StoreFailsTells DEF Handler

\* A booking is answered 409 for a unique violation, and for nothing else: the
\* test in BookMeeting comes before the error is wrapped.
THEOREM LosersAlwaysTold == Spec => []LosersAreTold
<1>1. Init /\ Written => Tells
  BY DEF Init, Tells, Told
<1>2. Tells /\ Written' /\ [Next]_vars => Tells'
  <2> SUFFICES ASSUME Tells, Written', [Next]_vars PROVE Tells'
    OBVIOUS
  <2>1. ASSUME NEW r \in Requests, Handler(r) PROVE Tells'
    BY <2>1, HandlerTells
  <2>2. ASSUME NEW r \in Requests, Leave(r) \/ WriteTimeout(r) PROVE Tells'
    BY <2>2 DEF Leave, WriteTimeout, Reaches, Tells, Told, answers
  <2>3. CASE Over \/ UNCHANGED vars
    BY <2>3 DEF Over, vars, outside, Reaches, answers, Tells, Told
  <2> QED BY <2>1, <2>2, <2>3 DEF Next
<1>3. Tells => LosersAreTold
  BY DEF Tells, Told, LosersAreTold
<1> QED BY <1>1, <1>2, <1>3, AlwaysWritten, PTL DEF Spec

-----------------------------------------------------------------------------
(* Errors under the status of a success.                                   *)

\* A status that does not fit the body comes from rows that did not encode, and
\* these have not changed since.
Fitting(r) ==
    Reaches(r) =>
        /\ pc[r] = "must" => header[r] = 0 \/ ~Encodes(r)
        /\ pc[r] = "returned" /\ body[r] = <<"error">> =>
              header[r] \in {400, 409, 500} \/ ~Encodes(r)

Fits == Written /\ \A r \in Requests : Fitting(r)

\* The helpers of one request leave the response of every other one alone.
LEMMA OthersFit ==
    ASSUME Fits, Written', NEW r \in Requests, UNCHANGED outside,
           \A s \in Requests \ {r} :
               pc'[s] = pc[s] /\ header'[s] = header[s] /\ body'[s] = body[s]
                 /\ rows'[s] = rows[s],
           Fitting(r)'
    PROVE  Fits'
<1>1. ASSUME NEW s \in Requests \ {r} PROVE Fitting(s)'
  BY DEF Fits, Fitting, Encodes, Reaches, outside
<1> QED BY <1>1 DEF Fits

\* A handler that returns with JSONError has chosen the status of the error.
LEMMA JSONErrorFits ==
    ASSUME Fits, Written', NEW r \in Requests, NEW status \in {204, 400, 409},
           pc[r] = "called", JSONError(r, status), Goto(r, "returned"),
           UNCHANGED <<rows, outside>>
    PROVE  Fits'
<1>1. header[r] = 0 /\ body[r] = << >> /\ Written
  BY DEF Fits, Written, Place
<1>2. WriteHeader(r, status) /\ status \in Nat
  BY DEF JSONError
<1>3. header'[r] = status /\ \A s \in Requests \ {r} : header'[s] = header[s]
  BY <1>1, <1>2, Headed
<1>4. pc'[r] = "returned" /\ \A s \in Requests \ {r} : pc'[s] = pc[s]
  BY <1>1, Moved DEF Places
<1>5. /\ body' = body \/ Write(r, "error")
      /\ status = 204 => body' = body
  BY DEF JSONError, WriteFails
<1>6. \A s \in Requests \ {r} : body'[s] = body[s]
  BY <1>1, <1>5 DEF Written, Write
<1>7. Fitting(r)'
  <2>1. CASE status = 204
    <3>1. body'[r] # <<"error">>
      BY <1>1, <1>5, <2>1
    <3> QED BY <1>4, <3>1 DEF Fitting
  <2>2. CASE status # 204
    BY <1>3, <1>4, <2>2 DEF Fitting
  <2> QED BY <2>1, <2>2
<1> QED BY <1>3, <1>4, <1>6, <1>7, OthersFit

\* Nothing has been written when the store is called, nor when it fails.
LEMMA CallFits ==
    ASSUME Fits, Written', NEW r \in Requests, NEW l \in {"encode", "must"},
           pc[r] = "called", Goto(r, l), UNCHANGED <<header, body, outside>>,
           \A s \in Requests \ {r} : rows'[s] = rows[s]
    PROVE  Fits'
<1>1. header[r] = 0 /\ Written
  BY DEF Fits, Written, Place
<1>2. pc'[r] = l /\ \A s \in Requests \ {r} : pc'[s] = pc[s]
  BY <1>1 DEF Goto, Written
<1>3. Fitting(r)'
  BY <1>1, <1>2 DEF Fitting
<1> QED BY <1>2, <1>3, OthersFit

\* EncodeJSON leaves the status of a success behind only if nothing of it arrives,
\* or if its rows do not encode.
LEMMA EncodeJSONFits ==
    ASSUME Fits, Written', NEW r \in Requests, EncodeJSON(r)
    PROVE  Fits'
<1>1. /\ pc[r] = "encode" /\ body[r] = << >> /\ Written
      /\ UNCHANGED <<rows, outside>>
  BY DEF EncodeJSON, Fits, Written, Place
<1>2. /\ WriteHeader(r, Success(sent[r].op)) /\ Success(sent[r].op) \in Nat
  BY DEF EncodeJSON, Success
<1>3. \A s \in Requests \ {r} : header'[s] = header[s]
  BY <1>1, <1>2, Headed
<1>4. CASE Write(r, "value") /\ Goto(r, "returned")
  <2>1. pc'[r] = "returned" /\ \A s \in Requests \ {r} : pc'[s] = pc[s]
    BY <1>1, <1>4, Moved DEF Places
  <2>2. body'[r] = <<"value">> /\ \A s \in Requests \ {r} : body'[s] = body[s]
    BY <1>1, <1>4, Written1
  <2>3. <<"value">> # <<"error">>
    OBVIOUS
  <2>4. Fitting(r)'
    BY <2>1, <2>2, <2>3 DEF Fitting
  <2> QED BY <1>1, <1>3, <2>1, <2>2, <2>4, OthersFit
<1>5. CASE UNCHANGED body /\ Goto(r, "must") /\ (~Encodes(r) \/ ~Reaches(r))
  <2>1. pc'[r] = "must" /\ \A s \in Requests \ {r} : pc'[s] = pc[s]
    BY <1>1, <1>5, Moved DEF Places
  <2>2. Fitting(r)'
    BY <1>1, <1>5, <2>1 DEF Fitting, Encodes, Reaches, outside
  <2> QED BY <1>1, <1>3, <1>5, <2>1, <2>2, OthersFit
<1> QED BY <1>4, <1>5 DEF EncodeJSON, WriteFails

\* MustJSONError is in time with its 500 if nothing was written before it.
LEMMA MustJSONErrorFits ==
    ASSUME Fits, Written', NEW r \in Requests, MustJSONError(r)
    PROVE  Fits'
<1>1. /\ pc[r] = "must" /\ body[r] = << >> /\ Written /\ Fitting(r)
      /\ UNCHANGED <<rows, outside>> /\ WriteHeader(r, 500)
  BY DEF MustJSONError, Fits, Written, Place
<1>2. /\ header'[r] = IF header[r] = 0 THEN 500 ELSE header[r]
      /\ \A s \in Requests \ {r} : header'[s] = header[s]
  BY <1>1, Headed
<1>3. /\ pc'[r] \in {"returned", "panicked"}
      /\ pc'[r] = "panicked" => ~Reaches(r)
      /\ \A s \in Requests \ {r} : pc'[s] = pc[s]
  BY <1>1, Moved DEF MustJSONError, WriteFails, Places
<1>4. \A s \in Requests \ {r} : body'[s] = body[s]
  BY <1>1 DEF MustJSONError, WriteFails, Write, Written
<1>5. Fitting(r)'
  BY <1>1, <1>2, <1>3 DEF Fitting, Encodes, Reaches, outside
<1> QED BY <1>1, <1>2, <1>3, <1>4, <1>5, OthersFit

LEMMA HandlerFits ==
    ASSUME Fits, Written', NEW r \in Requests, Handler(r)
    PROVE  Fits'
<1>1. CASE Refuse(r) BY <1>1, JSONErrorFits DEF Refuse
<1>2. CASE NoRows(r) BY <1>2, JSONErrorFits DEF NoRows, Calls
<1>3. CASE UpdateTimeslot(r) BY <1>3, JSONErrorFits DEF UpdateTimeslot, Calls
<1>4. CASE DeleteTimeslot(r) BY <1>4, JSONErrorFits DEF DeleteTimeslot, Calls
<1>5. CASE StoreFails(r) BY <1>5, CallFits, JSONErrorFits DEF StoreFails
<1>6. CASE CreateUser(r) BY <1>6, CallFits DEF CreateUser, Calls, answers
<1>7. CASE CreateTimeslot(r) BY <1>7, CallFits DEF CreateTimeslot, Calls, answers
<1>8. CASE CreateMeeting(r) BY <1>8, CallFits DEF CreateMeeting, Calls, answers
<1>9. CASE GetAllotted(r)
  <2>1. \A s \in Requests \ {r} : rows'[s] = rows[s]
    BY <1>9 DEF GetAllotted
  <2> QED BY <1>9, <2>1, CallFits DEF GetAllotted, Calls
<1>10. CASE GetCalendar(r)
  <2>1. \A s \in Requests \ {r} : rows'[s] = rows[s]
    BY <1>10 DEF GetCalendar
  <2> QED BY <1>10, <2>1, CallFits DEF GetCalendar, Calls
<1> QED BY <1>1, <1>2, <1>3, <1>4, <1>5, <1>6, <1>7, <1>8, <1>9, <1>10,
           EncodeJSONFits, MustJSONErrorFits DEF Handler

\* What is written fits what the store answered, at every place of a handler.
LEMMA AlwaysFits == Spec => []Fits
<1>1. Init /\ Written => Fits
  BY DEF Init, Fits, Fitting
<1>2. Fits /\ Written' /\ [Next]_vars => Fits'
  <2> SUFFICES ASSUME Fits, Written', [Next]_vars PROVE Fits'
    OBVIOUS
  <2>1. ASSUME NEW r \in Requests, Handler(r) PROVE Fits'
    BY <2>1, HandlerFits
  <2>2. ASSUME NEW r \in Requests, Leave(r) \/ WriteTimeout(r) PROVE Fits'
    BY <2>2 DEF Leave, WriteTimeout, Reaches, Fits, Fitting, Encodes, answers
  <2>3. CASE Over \/ UNCHANGED vars
    BY <2>3 DEF Over, vars, outside, Reaches, answers, Fits, Fitting, Encodes
  <2> QED BY <2>1, <2>2, <2>3 DEF Next
<1> QED BY <1>1, <1>2, AlwaysWritten, PTL DEF Spec

\* An HTTPError under the status of a success has a year beyond JSON as its cause
\* (EncodeJSON, which writes the status before it encodes).
THEOREM OnlyYearsMislead == Spec => []OnlyFarYearsMislead
<1>1. Fits => OnlyFarYearsMislead
  <2> SUFFICES ASSUME Fits, NEW r \in Requests, Reaches(r), body[r] = <<"error">>,
                      header[r] \notin {400, 409, 500}
               PROVE  ~Encodes(r)
    BY DEF OnlyFarYearsMislead
  <2>1. body[r] # << >>
    OBVIOUS
  <2>2. pc[r] \in Places /\ Place(r) /\ Fitting(r)
    BY DEF Fits, Written
  <2>3. pc[r] = "returned"
    BY <2>1, <2>2 DEF Place, Places
  <2> QED BY <2>2, <2>3 DEF Fitting
<1> QED BY <1>1, AlwaysFits, PTL

-----------------------------------------------------------------------------
(* Where every time is within the years.                                   *)

Near(P) == \A p \in P : Marshals(p.StartAt) /\ Marshals(p.EndAt)

\* Every time stored, or read by a listing, was stored before or sent.
AllNear ==
    /\ rows = [r \in Requests |-> rows[r]]
    /\ Near(stored) /\ Near(booked)
    /\ \A r \in Requests : sent[r] \in Inputs /\ Encodes(r)

\* A handler stores only times that it was sent, and lists only stored ones.
LEMMA HandlerStaysNear ==
    ASSUME Near(Inputs), AllNear, NEW r \in Requests, Handler(r)
    PROVE  AllNear'
<1>1. UNCHANGED sent
  BY DEF Handler, Refuse, StoreFails, NoRows, CreateUser, CreateTimeslot,
     UpdateTimeslot, DeleteTimeslot, CreateMeeting, GetAllotted, GetCalendar,
     EncodeJSON, MustJSONError
<1>2. Near({Period(sent[r])})
  BY DEF Near, AllNear, Period
<1>3. Near(stored') /\ Near(booked')
  <2>1. CASE CreateTimeslot(r) BY <1>2, <2>1 DEF CreateTimeslot, AllNear, Near
  <2>2. CASE UpdateTimeslot(r) BY <1>2, <2>2 DEF UpdateTimeslot, AllNear, Near
  <2>3. CASE DeleteTimeslot(r) BY <2>3 DEF DeleteTimeslot, AllNear, Near
  <2>4. CASE CreateMeeting(r) BY <2>4 DEF CreateMeeting, AllNear, Near
  <2>5. CASE UNCHANGED <<stored, booked>> BY <2>5 DEF AllNear
  <2> QED BY <2>1, <2>2, <2>3, <2>4, <2>5
          DEF Handler, Refuse, StoreFails, NoRows, CreateUser, GetAllotted, GetCalendar,
              EncodeJSON, MustJSONError
<1>4. /\ rows' = [s \in Requests |-> rows'[s]]
      /\ \A s \in Requests : Encodes(s)'
  <2>1. CASE GetAllotted(r)
    <3>1. /\ rows' = [rows EXCEPT ![r] = rows'[r]]
          /\ rows'[r] \subseteq stored
      BY <2>1 DEF GetAllotted, AllNear
    <3> QED BY <3>1 DEF AllNear, Encodes, Near
  <2>2. CASE GetCalendar(r)
    <3>1. /\ rows' = [rows EXCEPT ![r] = booked]
          /\ Near(booked)
      BY <2>2 DEF GetCalendar, AllNear
    <3> QED BY <3>1 DEF AllNear, Encodes, Near
  <2>3. CASE UNCHANGED rows BY <2>3 DEF AllNear, Encodes
  <2> QED BY <2>1, <2>2, <2>3
          DEF Handler, Refuse, StoreFails, NoRows, CreateUser, CreateTimeslot,
              UpdateTimeslot, DeleteTimeslot, CreateMeeting, EncodeJSON, MustJSONError,
              answers
<1> QED BY <1>1, <1>3, <1>4 DEF AllNear

\* If no client names a time beyond the years that JSON can express, every
\* HTTPError has the status of an error.
THEOREM NearYearsAreSafe ==
    ASSUME Near(Inputs), Near(Before)
    PROVE  Spec => []ErrorsHaveErrorStatus
<1>1. Init => AllNear
  BY DEF Init, AllNear, Near, Encodes
<1>2. AllNear /\ [Next]_vars => AllNear'
  <2> SUFFICES ASSUME AllNear, [Next]_vars PROVE AllNear'
    OBVIOUS
  <2>1. ASSUME NEW r \in Requests, Handler(r) PROVE AllNear'
    BY <2>1, HandlerStaysNear
  <2>2. ASSUME NEW r \in Requests, Leave(r) \/ WriteTimeout(r) PROVE AllNear'
    BY <2>2 DEF Leave, WriteTimeout, Reaches, AllNear, Encodes, answers
  <2>3. CASE Over \/ UNCHANGED vars
    BY <2>3 DEF Over, vars, outside, Reaches, answers, AllNear, Encodes
  <2> QED BY <2>1, <2>2, <2>3 DEF Next
<1>3. AllNear /\ OnlyFarYearsMislead => ErrorsHaveErrorStatus
  BY DEF AllNear, OnlyFarYearsMislead, ErrorsHaveErrorStatus
<1> QED BY <1>1, <1>2, <1>3, OnlyYearsMislead, PTL DEF Spec
=============================================================================
