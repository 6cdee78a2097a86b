------------------------------ MODULE GinChain -------------------------------
(***************************************************************************)
(* A request through gin (gin/middleware.go, gin/errors.go): the chain of  *)
(* the engine and, inside it, the chain of a route group, each otelgin     *)
(* followed by the handler that records c.Errors, or an ErrorRecorder      *)
(* behind some other middleware's span; around them the application's      *)
(* handlers, which add errors on the way in and on the way out and may     *)
(* replace the request's context.                                          *)
(***************************************************************************)
EXTENDS Naturals, Sequences

CONSTANTS Chains,      \* how many are nested: 1..Chains
          MaxErrors

\* An entry of c.Errors: its type, as a set of gin's bits, and whether its Err
\* is nil.
Entry(bits, nil) == [bits |-> bits, nil |-> nil]
Entries == {Entry({"any"}, FALSE), Entry({"bind"}, FALSE), Entry({"render", "other"}, FALSE),
            Entry({"private"}, TRUE)}

\* Spans: the chains' own, none, and one of the application's.
NoSpan == 0
Foreign == Chains + 1

VARIABLES
  kind,       \* "plain", "filtered" or "recorder", of each chain
  depth,      \* how many chains the request has entered
  pc,         \* "outer" before otelgin, "inner" between it and the chain's handler,
              \* "handler" behind it, "unwind", "leave", "after" on the way out, "done"
  ctx,        \* the span in the request's context
  saved,      \* chain -> the one otelgin will put back
  keys,       \* the chains whose tracedKey is in c.Keys
  span,       \* chain -> the span its handler holds
  traced,     \* the chains that have a span of their own
  errors,     \* c.Errors
  events,     \* span -> its exception events: the type's name, which of c.Errors
  status,     \* chain -> which of c.Errors ErrorRecorder gave its span's status
  seen        \* chain -> how many errors its handler has gone through

vars == <<kind, depth, pc, ctx, saved, keys, span, traced, errors, events, status, seen>>

Init ==
  /\ kind \in [1..Chains -> {"plain", "filtered", "recorder"}]
  /\ depth = 1 /\ pc = "outer" /\ ctx = NoSpan /\ keys = {} /\ traced = {}
  /\ errors = <<>> /\ events = [s \in 1..Foreign |-> <<>>] /\ status = [c \in 1..Chains |-> {}]
  /\ saved = [c \in 1..Chains |-> NoSpan] /\ span = saved /\ seen = [c \in 1..Chains |-> 0]

-----------------------------------------------------------------------------

\* ginErrorTypeString: the names of the bits there are, or of the sentinel.
GinErrorTypeString(bits) ==
  IF bits = {"any"} THEN bits
  ELSE LET known == bits \cap {"bind", "render", "private", "public"}
       IN  known \cup (IF bits = known THEN {} ELSE {"other"})

\* lastError: the last entry that has an error, if one has.
LastError(errs) ==
  {i \in DOMAIN errs : ~errs[i].nil /\ \A j \in DOMAIN errs : j > i => errs[j].nil}

\* otelgin starts a span, or leaves the request alone; its filter asks the
\* chain's filters once, and says so in c.Keys (external).  The middleware in
\* front of an ErrorRecorder starts a span.
Otelgin ==
  /\ pc = "outer"
  /\ pc' = "inner"
  /\ saved' = [saved EXCEPT ![depth] = ctx]
  /\ \/ /\ ctx' = depth /\ traced' = traced \cup {depth}
        /\ keys' = IF kind[depth] = "filtered" THEN keys \cup {depth} ELSE keys
     \/ kind[depth] = "filtered" /\ UNCHANGED <<ctx, traced, keys>>
  /\ UNCHANGED <<kind, depth, span, errors, events, status, seen>>

\* chainErrors until c.Next; ErrorRecorder does nothing before it.
ChainErrors ==
  /\ pc = "inner"
  /\ pc' = "handler"
  /\ keys' = keys \ {depth}
  /\ span' = [span EXCEPT ![depth] =
                IF kind[depth] = "filtered" /\ depth \notin keys THEN NoSpan ELSE ctx]
  /\ UNCHANGED <<kind, depth, ctx, saved, traced, errors, events, status, seen>>

\* A handler of the application.
AddError(e) ==
  /\ pc \in {"handler", "after"} /\ Len(errors) < MaxErrors
  /\ errors' = Append(errors, e)
  /\ UNCHANGED <<kind, depth, pc, ctx, saved, keys, span, traced, events, status, seen>>

ReplaceContext ==
  /\ pc = "handler" /\ ctx # Foreign
  /\ ctx' = Foreign
  /\ UNCHANGED <<kind, depth, pc, saved, keys, span, traced, errors, events, status, seen>>

Enter ==
  /\ pc = "handler" /\ depth < Chains
  /\ depth' = depth + 1 /\ pc' = "outer"
  /\ UNCHANGED <<kind, ctx, saved, keys, span, traced, errors, events, status, seen>>

Return ==
  /\ pc \in {"handler", "after"}
  /\ pc' = "unwind"
  /\ UNCHANGED <<kind, depth, ctx, saved, keys, span, traced, errors, events, status, seen>>

\* Faulty variant: the chain's handler looks for the span when it records.
SpanToRecordLate(c) == IF span[c] = NoSpan THEN NoSpan ELSE ctx

\* The chain's handler holds its span; ErrorRecorder takes the active one.
SpanToRecord(c) == IF kind[c] = "recorder" THEN ctx ELSE span[c]

\* Where c.Next returns, recordTypedExceptions goes through the errors.
RecordTypedException ==
  LET s == SpanToRecord(depth)
      i == seen[depth] + 1
  IN  /\ pc = "unwind" /\ s # NoSpan /\ i <= Len(errors)
      /\ events' = IF errors[i].nil THEN events
                   ELSE [events EXCEPT ![s] =
                           Append(@, [type |-> GinErrorTypeString(errors[i].bits), of |-> i])]
      /\ seen' = [seen EXCEPT ![depth] = i]
      /\ UNCHANGED <<kind, depth, pc, ctx, saved, keys, span, traced, errors, status>>

\* The handler returns.  ErrorRecorder sets the status of a failed response.
Recorded ==
  LET s == SpanToRecord(depth)
  IN  /\ pc = "unwind" /\ (s # NoSpan => seen[depth] = Len(errors))
      /\ \E failed \in BOOLEAN :
           status' = IF kind[depth] = "recorder" /\ s = depth /\ failed
                     THEN [status EXCEPT ![depth] = LastError(errors)] ELSE status
      /\ pc' = "leave"
      /\ UNCHANGED <<kind, depth, ctx, saved, keys, span, traced, errors, events, seen>>

\* otelgin ends its span and puts its context back (external).
Leave ==
  /\ pc = "leave"
  /\ ctx' = IF depth \in traced THEN saved[depth] ELSE ctx
  /\ depth' = IF depth = 1 THEN 1 ELSE depth - 1
  /\ pc' = IF depth = 1 THEN "done" ELSE "after"
  /\ UNCHANGED <<kind, saved, keys, span, traced, errors, events, status, seen>>

\* A panic skips what is left of every handler.
Panic ==
  /\ pc = "handler"
  /\ pc' = "done"
  /\ UNCHANGED <<kind, depth, ctx, saved, keys, span, traced, errors, events, status, seen>>

Next ==
  \/ Otelgin \/ ChainErrors \/ ReplaceContext \/ Enter \/ Return \/ RecordTypedException \/ Recorded
  \/ Leave \/ Panic
  \/ \E e \in Entries : AddError(e)

Spec == Init /\ [][Next]_vars

-----------------------------------------------------------------------------

\* The events of span s are the errors up to the n-th, each once and in order.
InOrder(s, n) ==
  /\ {events[s][i].of : i \in DOMAIN events[s]} = {i \in 1..n : ~errors[i].nil}
  /\ \A i, j \in DOMAIN events[s] : i < j => events[s][i].of < events[s][j].of

(***************************************************************************)
(* A chain that traced the request records, on its own span and on no      *)
(* other, every error there is when the request leaves it, each once and   *)
(* in order with its type, though the filters answer differently each      *)
(* time, chains are nested and the context is replaced inside.  A chain    *)
(* whose filter excluded the request leaves nothing, on any span or in     *)
(* c.Keys.  An ErrorRecorder records on one span, its own unless the       *)
(* context was replaced, and its status is that of the last error.         *)
(***************************************************************************)
ErrorsOnOwnSpan ==
  /\ pc \in {"handler", "after", "done"} => keys = {}
  /\ pc = "leave" /\ depth \in traced => seen[depth] = Len(errors)
  /\ \A c \in 1..Chains :
       LET own == events[c]
       IN  /\ \/ c \in traced /\ InOrder(c, seen[c])
              \/ own = <<>> /\ (c \notin traced \/ kind[c] = "recorder")
           /\ \A i \in DOMAIN own : own[i].type = errors[own[i].of].bits
           /\ \A i \in status[c] : own # <<>> /\ i = own[Len(own)].of
=============================================================================
