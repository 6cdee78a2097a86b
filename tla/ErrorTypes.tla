----------------------------- MODULE ErrorTypes ------------------------------
(***************************************************************************)
(* How the datastore facades name an error in error.type.  An error is its *)
(* chain of Go types, outermost first, as errors.Unwrap walks it, and the  *)
(* sentinels errors.Is finds anywhere in it.  A *fmt.wrapErrors has        *)
(* several causes and ends the walk.                                       *)
(***************************************************************************)
EXTENDS Naturals, Sequences, FiniteSetsExt

CONSTANTS NoType   \* the empty error.type: the operation succeeded

FmtTypes == {"*fmt.wrapError", "*fmt.wrapErrors"}

\* The stable name of a context error; a deadline outranks a cancellation.
ContextType(err) ==
  IF "deadline" \in err.is THEN "context.DeadlineExceeded"
  ELSE IF "canceled" \in err.is THEN "context.Canceled" ELSE NoType

\* redis and cassandra: the concrete type of the error as it is.
OuterType(err) ==
  IF ContextType(err) # NoType THEN ContextType(err) ELSE Head(err.types)

\* elasticsearch: the first type under the fmt wrappers.
InnerType(err) ==
  LET named == {i \in 1..Len(err.types) : err.types[i] \notin FmtTypes}
  IN  IF ContextType(err) # NoType THEN ContextType(err)
      ELSE IF named # {} THEN err.types[Min(named)] ELSE "_OTHER"
=============================================================================
