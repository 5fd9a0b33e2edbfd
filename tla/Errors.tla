------------------------------- MODULE Errors -------------------------------
(***************************************************************************)
(* What becomes of an error of the database on its way to a handler        *)
(* (sdk/storage/postgres/errors.go and its callers in internal/storage).   *)
(*                                                                         *)
(* An error is the set of what errors.Is and errors.As find along its      *)
(* chain: the SQLSTATE of a pgconn.PgError, and sentinel errors.  Its text *)
(* is left out, so that an error formatted with %v is gone from the chain. *)
(***************************************************************************)

Foreign == "23503"
Unique == "23505"
Check == "23514"

Sentinel == [code \in {Foreign, Unique, Check} |->
    IF code = Foreign THEN "ErrForeignKeyConstraintViolation"
    ELSE IF code = Unique THEN "ErrUniqueConstraintViolation"
    ELSE "ErrCheckConstraintViolation"]

\* A lost connection or a cancelled context: nothing the code knows.
Unknown == {}

\* The driver's error of a constraint gives way to a sentinel; any other error
\* is wrapped with %w, or returned as it is.
WrapPostgresError(err) ==
    IF err \cap DOMAIN Sentinel = {} THEN err
    ELSE {Sentinel[code] : code \in err \cap DOMAIN Sentinel}

IsUniqueConstraintErr(err) == Unique \in err

\* The error is wrapped on its way into the test.
BookMeeting_WrapsFirst(err) ==
    IF IsUniqueConstraintErr(WrapPostgresError(err)) THEN {"ErrSlotTaken"}
    ELSE WrapPostgresError(err)

\* What BookMeeting returns when the INSERT of the meeting fails with err.
BookMeeting(err) ==
    IF IsUniqueConstraintErr(err) THEN {"ErrSlotTaken"} ELSE WrapPostgresError(err)

\* What each call on the store returns when its statement fails with err.
StoreError(op, err) ==
    IF op = "CreateMeeting" THEN BookMeeting(err)
    ELSE IF op = "CreateTimeslot" THEN WrapPostgresError(err)
    ELSE err
=============================================================================
