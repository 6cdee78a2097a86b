----------------------------- MODULE EsOperation -----------------------------
(***************************************************************************)
(* One request through the Elasticsearch facade (elasticsearch/client.go): *)
(* the callbacks go-elasticsearch makes on the instrumentation, from Start *)
(* to Close, around a transport that retries.  What the request sees as    *)
(* its outcome (the client's own IsError, or the error of the typed API)   *)
(* is kept beside it.                                                      *)
(***************************************************************************)
EXTENDS Naturals, FiniteSets, ErrorTypes

CONSTANTS Statuses,      \* HTTP statuses a node may answer with
          Errors,        \* terminal errors, as in ErrorTypes
          MaxAttempts    \* tries of the transport, a bound of the model

\* config, as NewClient or NewTypedClient and the options leave it.
Configs == [captureSearchBody : BOOLEAN, collectionMetricLabelDisabled : BOOLEAN,
            typed : BOOLEAN]

CollectionMetricLabel(c) == ~c.collectionMetricLabelDisabled

NoSample == [taken |-> FALSE]

VARIABLES
  pc,        \* "idle", "begun", "answered" (the transport returned), "told", "closed"
  cfg,       \* the client's config
  sampled,   \* the span records
  st,        \* the responseState in the request's context
  tries,     \* attempts made
  last,      \* what the last attempt gave: a status, or 0 for a failed round trip
  span,      \* [status, code, body]: its status, http.response.status_code, the search body
  sample,    \* the duration sample
  failed     \* the caller takes the outcome for a failure

vars == <<pc, cfg, sampled, st, tries, last, span, sample, failed>>

FreshState == [index |-> "none", host |-> FALSE, statusCode |-> 0,
               errored |-> FALSE, err |-> {}, esError |-> FALSE]

Init ==
  /\ pc = "idle" /\ cfg \in Configs /\ sampled \in BOOLEAN
  /\ st = FreshState /\ tries = 0 /\ last = 0
  /\ span = [status |-> "unset", code |-> 0, body |-> "none"]
  /\ sample = NoSample /\ failed = FALSE

\* Instrumentation.Start and RecordPathPart: the request addresses no index,
\* one, or a comma-separated list.
Start(index) ==
  /\ pc = "idle"
  /\ pc' = "begun"
  /\ st' = [st EXCEPT !.index = index]
  /\ UNCHANGED <<cfg, sampled, tries, last, span, sample, failed>>

\* RecordRequestBody, for a search endpoint: the upstream reads the body it is
\* given, a nil one too, so a nil one is kept from it.
RecordRequestBody(query) ==
  /\ pc = "begun" /\ tries = 0 /\ query # "nil"
  /\ span' = IF cfg.captureSearchBody /\ sampled THEN [span EXCEPT !.body = query] ELSE span
  /\ UNCHANGED <<pc, cfg, sampled, st, tries, last, sample, failed>>

\* AfterResponse, once per attempt that got a response.
AfterResponse(status) ==
  /\ pc = "begun" /\ tries < MaxAttempts
  /\ tries' = tries + 1 /\ last' = status
  /\ st' = [st EXCEPT !.statusCode = status]
  /\ UNCHANGED <<pc, cfg, sampled, span, sample, failed>>

\* A round trip that failed: no callback (external, the transport).
RoundTripFails ==
  /\ pc = "begun" /\ tries < MaxAttempts
  /\ tries' = tries + 1 /\ last' = 0
  /\ UNCHANGED <<pc, cfg, sampled, st, span, sample, failed>>

\* AfterRequest, once the transport gave up or returned.  With no live node
\* the request was never routed and its URL has no host.
AfterRequest ==
  /\ pc = "begun"
  /\ pc' = "answered"
  /\ st' = [st EXCEPT !.host = tries > 0]
  /\ UNCHANGED <<cfg, sampled, tries, last, span, sample, failed>>

-----------------------------------------------------------------------------
(* What the generated API makes of the transport's return (external).      *)

\* The typed status error: the generated message, with the terminal status.
TypedStatusError(err, terminal) == "status" \in err.is /\ terminal # 0 /\ err.code = terminal

\* RecordError.  The upstream sets the span's status.
RecordError(err) ==
  LET es == "elasticsearch" \in err.is \/ (cfg.typed /\ TypedStatusError(err, st.statusCode))
  IN  /\ pc' = "told"
      /\ span' = IF sampled THEN [span EXCEPT !.status = "error"] ELSE span
      /\ st' = IF es THEN [st EXCEPT !.esError = TRUE]
               ELSE [st EXCEPT !.errored = TRUE, !.err = {err}]
      /\ failed' = TRUE
      /\ UNCHANGED <<cfg, sampled, tries, last, sample>>

\* A transport failure, an ended context, no live node, or a failed product
\* check of the response in hand.
TransportError(err) ==
  /\ pc = "answered"
  /\ err.is \cap {"elasticsearch", "status"} = {}
  /\ RecordError(err)

\* The typed API rejects the status: Do with an ElasticsearchError, IsSuccess
\* with its message.
Rejected(err) ==
  /\ pc = "answered" /\ cfg.typed /\ last > 299
  /\ err.is \cap {"elasticsearch", "status"} # {}
  /\ err.code = last
  /\ RecordError(err)

\* The response is handed to the caller: the low-level client's with any
\* status, the typed client's when the endpoint accepts the status.
Return ==
  /\ pc = "answered" /\ last # 0
  /\ cfg.typed => last < 300 \/ last = 404
  /\ failed' = (~cfg.typed /\ last > 299)
  /\ pc' = "told"
  /\ UNCHANGED <<cfg, sampled, st, tries, last, span, sample>>

-----------------------------------------------------------------------------

HttpFailed == IF cfg.typed THEN st.esError ELSE st.statusCode > 299

MetricErrorType ==
  IF st.errored THEN InnerType(CHOOSE e \in st.err : TRUE)
  ELSE IF st.statusCode # 0 /\ HttpFailed THEN "status"   \* its digits
  ELSE NoType

SingleIndex(index) == index = "one"

\* metricAttrs: the labels of the sample.
MetricAttrs ==
  [taken      |-> TRUE,
   errorType  |-> MetricErrorType,
   response   |-> IF ~st.errored /\ st.statusCode # 0 /\ HttpFailed THEN st.statusCode ELSE 0,
   collection |-> SingleIndex(st.index) /\ CollectionMetricLabel(cfg),
   server     |-> st.host]

\* Faulty variant: the status of a retried attempt is put on a span whose
\* request ended in an error.
SpanAtCloseStale ==
  IF ~sampled \/ st.statusCode = 0 THEN span
  ELSE [span EXCEPT !.status = IF HttpFailed THEN "error" ELSE @, !.code = st.statusCode]

\* Close's status code and Error decision, left to RecordError when it owns them.
SpanAtClose ==
  IF ~sampled \/ st.errored \/ st.statusCode = 0 THEN span
  ELSE [span EXCEPT !.status = IF HttpFailed THEN "error" ELSE @, !.code = st.statusCode]

\* Close: the sample, the span's status, the end of the span.
Close ==
  /\ pc = "told"
  /\ pc' = "closed"
  /\ sample' = MetricAttrs
  /\ span' = SpanAtClose
  /\ UNCHANGED <<cfg, sampled, st, tries, last, failed>>

Next ==
  \/ \E i \in {"none", "one", "many"} : Start(i)
  \/ \E q \in {"nil", "search"} : RecordRequestBody(q)
  \/ \E s \in Statuses : AfterResponse(s)
  \/ RoundTripFails
  \/ AfterRequest
  \/ \E e \in Errors : TransportError(e) \/ Rejected(e)
  \/ Return
  \/ Close

Spec == Init /\ [][Next]_vars

-----------------------------------------------------------------------------

(***************************************************************************)
(* Once the request is closed, the span and the sample say what the caller *)
(* saw: both failed exactly when the caller took the outcome for a         *)
(* failure; a status on the span is that of the last attempt, never one a  *)
(* retry left behind; a wrapper of fmt does not hide the cause, so the     *)
(* typed and the low-level client name a transport failure alike; and the  *)
(* sample does not depend on the span being sampled.                       *)
(***************************************************************************)
AgreesWithCaller ==
  pc = "closed" =>
    /\ (sample.errorType # NoType) = failed
    /\ (span.status = "error") = (failed /\ sampled)
    /\ span.code # 0 => span.code = last
    /\ sample.response # 0 => sample.response = last /\ failed
    /\ sample.errorType \notin FmtTypes

\* The request as an operation of an instrumented client.
Op == INSTANCE ClientOp WITH
  stage        <- IF pc = "idle" THEN "idle" ELSE IF pc = "closed" THEN "reported" ELSE "open",
  spanFailed   <- pc = "closed" /\ IF sampled THEN span.status = "error" ELSE failed,
  sampleFailed <- pc = "closed" /\ sample.errorType # NoType
=============================================================================
