------------------------------- MODULE Errors -------------------------------
(***************************************************************************)
(* What AllExceptionsFilter answers for the errors the handlers throw.     *)
(* An error is a record: an HttpException or DomainError carries its own   *)
(* status, a database error its SQLSTATE; anything else is "other".        *)
(***************************************************************************)
EXTENDS Integers

Http(n) == [kind |-> "http", status |-> n]
Sql(state) == [kind |-> "sql", code |-> state]
TypeError == [kind |-> "other"]

\* SQLSTATE class 23: integrity constraint violations.
UniqueViolation == "23505"
NotNullViolation == "23502"
Class23 == {UniqueViolation, NotNullViolation}

\* The text sent for an integer, enum or uuid column is none.
InvalidText == "22P02"

\* Values no column can hold: such a text, a NUL byte, a text too long for an
\* index, or anything but a Date for a timestamp, over which drizzle trips.
Unfit == {Sql(InvalidText), Sql("22021"), Sql("54000"), TypeError}

\* The connection to the database ends under a statement: no SQLSTATE of class
\* 23, whichever end notices.
ConnectionLost == [kind |-> "other"]

\* Mutant of StatusOf: the switch's first case is missing.
StatusOfNoCase(error) ==
  CASE error.kind = "http" -> error.status
    [] error.kind = "sql" /\ error.code \in Class23 -> 400
    [] OTHER -> 500

StatusOf(error) ==
  CASE error.kind = "http" -> error.status
    [] error.kind = "sql" /\ error.code = UniqueViolation -> 409
    [] error.kind = "sql" /\ error.code \in Class23 \ {UniqueViolation} -> 400
    [] OTHER -> 500
=============================================================================
