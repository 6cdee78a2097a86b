----------------------------- MODULE MinioClient -----------------------------
(***************************************************************************)
(* One operation of the MinIO facade (minio/client.go): a data-plane call  *)
(* bracketed by begin and finish, or a ListObjects with the goroutine that *)
(* forwards the listing, minio-go's producer behind it and the reader in   *)
(* front of it.                                                            *)
(***************************************************************************)
EXTENDS Naturals, Sequences, ErrorTypes

CONSTANTS Errors,     \* errors a call may end in, as in ErrorTypes, with a code and a status
          MaxItems,   \* objects a listing may hold, a bound of the model
          MaxClients  \* clients built from one Options value, a bound of the model

Calls == {"PutObject", "FPutObject", "FGetObject", "GetObject", "StatObject",
          "RemoveObject", "CopyObject"}

\* newConfig's options that reach the attributes; the others shape names only.
Configs == [objectKeyAttribute : BOOLEAN, awsS3CompatAliases : BOOLEAN]

VARIABLES
  cfg,         \* the client's config
  transport,   \* Options.Transport of the caller's value, a stack of round trippers; <<>> is nil
  built,       \* the transports of the clients New made from it
  pc,          \* "idle", "calling"; the listing's "next", "holding", "draining"; "ended"
  op,          \* the operation's name
  attrs,       \* the attributes of its span
  verdict,     \* {} or {the error finish was given}
  reported,    \* what finish recorded
  handle,      \* GetObject's result: the context it reads under, "none", "caller" or "span"
  producer,    \* minio-go's lister: "off", "running" or "closed"
  upstream,    \* its channel: items not yet received, an item being {} or {an error}
  produced,    \* items it sent
  held,        \* the item the goroutine has received
  firstErr,    \* the goroutine's firstErr
  reader,      \* the caller of ListObjects: "reading" or "gone"
  cancelled,   \* the context has ended
  outClosed    \* out is closed

vars == <<cfg, transport, built, pc, op, attrs, verdict, reported, handle, producer, upstream, produced, held,
          firstErr, reader, cancelled, outClosed>>
listing == <<producer, upstream, produced, held, firstErr, outClosed>>
client == <<cfg, transport, built>>

NoReport == [span |-> NoType, sample |-> NoType, kind |-> "none", status |-> 0, labels |-> {}]

CtxErr == [types |-> <<"*errors.errorString">>, is |-> {"canceled"}, code |-> "", status |-> 0]

Init ==
  /\ cfg \in Configs /\ transport \in {<<>>, <<"caller">>} /\ built = <<>>
  /\ pc = "idle" /\ op = "none" /\ attrs = {}
  /\ verdict = {} /\ reported = NoReport /\ handle = "none"
  /\ producer = "off" /\ upstream = <<>> /\ produced = 0 /\ held = {} /\ firstErr = {}
  /\ reader = "reading" /\ cancelled = FALSE /\ outClosed = FALSE

-----------------------------------------------------------------------------
(* minio/errors.go *)

\* errorType: the context's name, else the S3 wire code, else the Go type.
ErrorType(err) ==
  IF ContextType(err) # NoType THEN ContextType(err)
  ELSE IF err.code # "" THEN err.code ELSE OuterType(err)

\* Faulty variant: a cancellation outranks a deadline, as it does not in errorType.
MinioErrorKindCanceledFirst(err) ==
  CASE "canceled" \in err.is -> "client_canceled"
    [] "deadline" \in err.is -> "client_timeout"
    [] OTHER -> "unknown"

\* The closed taxonomy: the first row that matches.
MinioErrorKind(err) ==
  LET rows == <<
        <<"canceled" \in err.is /\ "deadline" \notin err.is, "client_canceled">>,
        <<"deadline" \in err.is, "client_timeout">>,
        <<err.code \in {"NoSuchKey", "NoSuchBucket"}, "not_found">>,
        <<err.code \in {"AccessDenied", "InvalidAccessKeyId", "SignatureDoesNotMatch"}, "access_denied">>,
        <<err.code = "PreconditionFailed", "precondition">>,
        <<err.code = "SlowDown" \/ err.status = 503, "throttled">>,
        <<err.is \cap {"tls", "op"} # {}, "transport">>,
        <<err.code # "" /\ err.status >= 500, "server_error">>,
        <<TRUE, "unknown">>>>
  IN  rows[Min({i \in DOMAIN rows : rows[i][1]})][2]

-----------------------------------------------------------------------------
(* New *)

\* Faulty variant: the transport is set in the caller's own Options.
NewInPlace(childSpans) ==
  LET base == IF transport = <<>> THEN <<"minio">> ELSE transport
      own  == IF childSpans THEN <<"o11y">> \o base ELSE base
  IN  /\ Len(built) < MaxClients /\ pc = "idle"
      /\ built' = Append(built, own)
      /\ transport' = own
      /\ UNCHANGED <<cfg, pc, op, attrs, verdict, reported, handle, listing, reader, cancelled>>

\* A client from a copy of the caller's Options, its transport wrapped for
\* child spans: the caller's, or minio-go's default, which minio-go also
\* takes for a nil one.
New(childSpans) ==
  LET base == IF transport = <<>> THEN <<"minio">> ELSE transport
  IN  /\ Len(built) < MaxClients /\ pc = "idle"
      /\ built' = Append(built, IF childSpans THEN <<"o11y">> \o base ELSE base)
      /\ UNCHANGED <<cfg, transport, pc, op, attrs, verdict, reported, handle, listing,
                     reader, cancelled>>

-----------------------------------------------------------------------------
(* begin, the driver's call, finish *)

\* The attributes begin gives a span.  The server's address and port are
\* there for every endpoint, the port by its scheme's default if need be.
SpanAttrs(bucket, key, size) ==
  LET alias(a) == IF cfg.awsS3CompatAliases THEN {a} ELSE {}
  IN  {"system", "operation", "server.address", "server.port"}
        \cup (IF bucket THEN {"bucket"} \cup alias("aws.s3.bucket") ELSE {})
        \cup (IF key /\ cfg.objectKeyAttribute THEN {"key"} \cup alias("aws.s3.key") ELSE {})
        \cup (IF size THEN {"size"} ELSE {})

\* The labels finish gives the sample, error.type aside.
Labels == {"operation", "server.address", "server.port"} \cup (attrs \cap {"bucket"})

\* GetObject's handle keeps the context it was given for its later reads.
CtxOfHandle(name) == IF name = "GetObject" THEN "caller" ELSE "none"

\* finish: error.type on the span and the sample, the kind, the HTTP status.
Finish(err) ==
  /\ pc' = "ended"
  /\ verdict' = err
  /\ reported' = IF err = {} THEN [NoReport EXCEPT !.labels = Labels]
                 ELSE LET e == CHOOSE x \in err : TRUE
                      IN  [span |-> ErrorType(e), sample |-> ErrorType(e),
                           kind |-> MinioErrorKind(e), status |-> e.status,
                           labels |-> Labels \cup {"error.type"}]

\* Only PutObject knows a size beforehand, and only when it is not -1.
Begin(name, bucket, key, size) ==
  /\ pc = "idle"
  /\ size => name = "PutObject"
  /\ pc' = "calling" /\ op' = name
  /\ attrs' = SpanAttrs(bucket, key, size)
  /\ UNCHANGED <<client, verdict, reported, handle, listing, reader, cancelled>>

Sized == {"PutObject", "FPutObject", "StatObject"}

\* The driver's call returns, with the object's size if it reports one, and
\* the operation is finished.
Call(err) ==
  /\ pc = "calling"
  /\ attrs' = IF err = {} /\ op \in Sized THEN attrs \cup {"size"} ELSE attrs
  /\ Finish(err)
  /\ handle' = IF err = {} THEN CtxOfHandle(op) ELSE "none"
  /\ UNCHANGED <<client, op, listing, reader, cancelled>>

-----------------------------------------------------------------------------
(* ListObjects *)

ListObjects ==
  /\ pc = "idle"
  /\ pc' = "next" /\ op' = "ListObjects"
  /\ attrs' = SpanAttrs(TRUE, FALSE, FALSE)
  /\ producer' = "running"
  /\ UNCHANGED <<client, verdict, reported, handle, upstream, produced, held, firstErr,
                 outClosed, reader, cancelled>>

\* minio-go's producer (external): it sends into a channel of one, an error
\* being its last item, and gives up when the context ends.
Produce(item) ==
  /\ producer = "running" /\ upstream = <<>> /\ produced < MaxItems
  /\ upstream' = <<item>> /\ produced' = produced + 1
  /\ producer' = IF item = {} THEN producer ELSE "closed"
  /\ UNCHANGED <<client, pc, op, attrs, verdict, reported, handle, held, firstErr, outClosed, reader, cancelled>>

ProducerEnds ==
  /\ producer = "running"
  /\ producer' = "closed"
  /\ UNCHANGED <<client, pc, op, attrs, verdict, reported, handle, upstream, produced, held, firstErr,
                 outClosed, reader, cancelled>>

\* The goroutine receives an item, or sees the channel closed and finishes.
Receive ==
  /\ pc = "next" /\ upstream # <<>>
  /\ pc' = "holding"
  /\ held' = Head(upstream) /\ upstream' = Tail(upstream)
  /\ firstErr' = IF firstErr = {} THEN Head(upstream) ELSE firstErr
  /\ UNCHANGED <<client, op, attrs, verdict, reported, handle, producer, produced, outClosed, reader, cancelled>>

\* select: out <- info, when the reader is there to take it.
Forward ==
  /\ pc = "holding" /\ reader = "reading"
  /\ pc' = "next" /\ held' = {}
  /\ UNCHANGED <<client, op, attrs, verdict, reported, handle, producer, upstream, produced, firstErr,
                 outClosed, reader, cancelled>>

\* Faulty variant: the goroutine returns without draining.
ContextDoneReturn ==
  /\ pc = "holding" /\ cancelled
  /\ Finish({CtxErr}) /\ outClosed' = TRUE
  /\ UNCHANGED <<client, op, attrs, handle, producer, upstream, produced, held, firstErr,
                 reader, cancelled>>

\* Faulty variant: the select has no such arm.
ContextDoneMissing == FALSE /\ UNCHANGED vars

\* select: <-o.ctx.Done(), whose arm drains the channel.
ContextDone ==
  /\ pc = "holding" /\ cancelled
  /\ pc' = "draining" /\ held' = {}
  /\ UNCHANGED <<client, op, attrs, verdict, reported, handle, producer, upstream, produced, firstErr,
                 outClosed, reader, cancelled>>

Drain ==
  /\ pc = "draining" /\ upstream # <<>>
  /\ upstream' = Tail(upstream)
  /\ UNCHANGED <<client, pc, op, attrs, verdict, reported, handle, producer, produced, held, firstErr,
                 outClosed, reader, cancelled>>

Drained ==
  /\ pc = "draining" /\ upstream = <<>> /\ producer = "closed"
  /\ pc' = "next"
  /\ firstErr' = IF firstErr = {} THEN {CtxErr} ELSE firstErr
  /\ UNCHANGED <<client, op, attrs, verdict, reported, handle, producer, upstream, produced, held,
                 outClosed, reader, cancelled>>

\* The range ends with the channel: finish, then the deferred close of out.
ListingDone ==
  /\ pc = "next" /\ upstream = <<>> /\ producer = "closed"
  /\ Finish(firstErr)
  /\ outClosed' = TRUE
  /\ UNCHANGED <<client, op, attrs, handle, producer, upstream, produced, held, firstErr, reader, cancelled>>

\* The caller stops reading, or ends its context.
Abandon ==
  /\ op = "ListObjects" /\ reader = "reading"
  /\ reader' = "gone"
  /\ UNCHANGED <<client, pc, op, attrs, verdict, reported, handle, listing, cancelled>>

Cancel ==
  /\ op = "ListObjects" /\ ~cancelled
  /\ cancelled' = TRUE
  /\ UNCHANGED <<client, pc, op, attrs, verdict, reported, handle, listing, reader>>

Goroutine == Receive \/ Forward \/ ContextDone \/ Drain \/ Drained \/ ListingDone

Next ==
  \/ \E childSpans \in BOOLEAN : New(childSpans)
  \/ \E c \in Calls, bucket, key, size \in BOOLEAN : Begin(c, bucket, key, size)
  \/ \E e \in {{}} \cup {{x} : x \in Errors} : Call(e) \/ Produce(e)
  \/ ListObjects \/ ProducerEnds \/ Goroutine \/ Abandon \/ Cancel

Spec == Init /\ [][Next]_vars

\* The goroutine and the producer are scheduled; a driver's call returns.
Fairness ==
  /\ WF_vars(Goroutine) /\ WF_vars(ProducerEnds)
  /\ WF_vars(\E e \in {{}} \cup {{x} : x \in Errors} : Call(e))

-----------------------------------------------------------------------------

(***************************************************************************)
(* The goroutine of ListObjects is the only reader of minio-go's channel:  *)
(* when it has ended the span, the producer is gone and nothing is left in *)
(* the channel, whether the listing was read to its end or cancelled, and  *)
(* the first error it met is on the span.                                  *)
(***************************************************************************)
ListingReleased ==
  pc = "ended" /\ op = "ListObjects" =>
    producer = "closed" /\ upstream = <<>> /\ verdict = firstErr

(***************************************************************************)
(* What outlives a call stays the caller's: a GetObject's handle reads     *)
(* under the caller's context, not under a span that has ended, and an     *)
(* Options value used for several clients gives each at most one layer of  *)
(* child spans, above the caller's transport or minio-go's own.            *)
(***************************************************************************)
CallersOwnKept ==
  /\ handle # "span"
  /\ \A i \in 1..Len(built) :
       built[i] \in {<<"caller">>, <<"minio">>, <<"o11y", "caller">>, <<"o11y", "minio">>}

(***************************************************************************)
(* error.type and minio.error.kind, computed by two switches in different  *)
(* order, tell a timeout from a cancellation alike, and a key or an alias  *)
(* never becomes a label of the sample.                                    *)
(***************************************************************************)
KindAgrees ==
  /\ reported.kind = "client_timeout" <=> reported.span = "context.DeadlineExceeded"
  /\ reported.kind = "client_canceled" <=> reported.span = "context.Canceled"
  /\ reported.labels \cap {"key", "aws.s3.key", "aws.s3.bucket", "size"} = {}

(***************************************************************************)
(* A listing ends, its span with it, once its context has ended, and when  *)
(* its reader stays: only one abandoned without a cancel stays open, as    *)
(* the godoc says.                                                         *)
(***************************************************************************)
ListingEnds ==
  /\ (op = "ListObjects" /\ cancelled) ~> (op = "ListObjects" /\ pc = "ended")
  /\ [](reader = "reading") => ((op = "ListObjects") ~> (pc = "ended"))

\* The call or the listing as an operation of an instrumented client.
Op == INSTANCE ClientOp WITH
  stage        <- IF pc = "idle" THEN "idle" ELSE IF pc = "ended" THEN "reported" ELSE "open",
  spanFailed   <- reported.span # NoType,
  sampleFailed <- reported.sample # NoType
=============================================================================
