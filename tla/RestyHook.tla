------------------------------ MODULE RestyHook ------------------------------
(***************************************************************************)
(* One request of an instrumented resty client, resty/hook.go: a span and  *)
(* a duration sample per attempt, started in beforeRequest and finished by *)
(* whichever of resty's hooks hears of the end of the attempt.  What lives *)
(* between them is kept in the context of the request.                     *)
(*                                                                         *)
(* External: resty runs the application's and the wrapper's before-request *)
(* hooks and its own middleware, sends, asks the retry conditions, calls   *)
(* the retry hooks, waits, and at the end the success or the error hooks;  *)
(* a panic goes to the panic hooks.  A failure before the request is sent  *)
(* leaves no response, and the retry hooks are called with nil then.       *)
(***************************************************************************)
EXTENDS Naturals

CONSTANTS
  Budgets,    \* values of RetryCount
  Failures,   \* errors, each the set of what errors.Is and errors.As find in it
  NoError,    \* the nil error
  NoSpan      \* the attempt has not reached beforeRequest

Kinds == {"none", "client_canceled", "client_timeout", "server_timeout", "tls",
          "transport", "protocol", "unknown"}

Types == {"none", "status", "context.Canceled", "context.DeadlineExceeded", "type"}

\* requestState and the span in it: host, the span has server.address; samples
\* and ends, how often Record and End were called; kind, type and marked, its
\* resty.error.kind, error.type and resty.retry.exhausted.
requestState ==
  [parent : Nat, finished : BOOLEAN, host : BOOLEAN, samples : Nat, ends : Nat,
   kind : Kinds, type : Types, marked : BOOLEAN]

ASSUME RestyAssumption ==
  /\ Budgets \subseteq Nat
  /\ NoSpan \notin requestState
  /\ NoError \notin Failures

\* The request's URL: absolute, relative to a base URL, to none, to one that
\* cannot be parsed, or itself not to be parsed, next to a good base URL.
Destinations == {"absolute", "based", "baseless", "badbase", "unparsable"}

VARIABLES
  retryCount,  \* the client's RetryCount
  conditions,  \* retry conditions are registered
  dest,        \* the URL
  pc,          \* where resty is
  attempt,     \* req.Attempt
  ctx,         \* req.Context(): the attempt whose state it has, 0: the caller's
  raw,         \* RawRequest is built
  resp,        \* the response of the attempt
  err,         \* its error
  noRetry,     \* resty does not retry it unless a condition says so
  span,        \* the state and the span of each attempt
  events,      \* retry_exhausted events on the caller's span
  ctxDone,     \* the caller's context is cancelled or has expired
  gaveUp,      \* a retry was decided on, and the budget was spent
  unheard      \* attempts whose retry was announced without a response

config == <<retryCount, conditions, dest>>
hookVars == <<ctx, span, events>>
history == <<gaveUp, unheard>>
vars == <<config, pc, attempt, hookVars, raw, resp, err, noRetry, ctxDone, history>>

Attempts == 1 .. (retryCount + 1)

Over == pc \in {"done", "panicked"}
-----------------------------------------------------------------------------
(***************************************************************************)
(* resty/errors.go.                                                        *)
(***************************************************************************)

\* Faulty variant: a cancellation is looked for first.
errorTypeCanceledFirst(e) ==
  IF "canceled" \in e THEN "context.Canceled"
  ELSE IF "deadline" \in e THEN "context.DeadlineExceeded"
  ELSE "type"

\* "type": a type, of an error that is neither.
errorType(e) ==
  IF "deadline" \in e THEN "context.DeadlineExceeded"
  ELSE IF "canceled" \in e THEN "context.Canceled"
  ELSE "type"

isTLSError(e) == e \cap {"cert", "tls"} # {}

restyErrorKind(e) ==
  IF "canceled" \in e /\ "deadline" \notin e THEN "client_canceled"
  ELSE IF "deadline" \in e THEN "client_timeout"
  ELSE IF isTLSError(e) THEN "tls"
  ELSE IF "op" \in e THEN "transport"
  ELSE IF "protocol" \in e THEN "protocol"
  ELSE "unknown"
-----------------------------------------------------------------------------
(***************************************************************************)
(* server.address.                                                         *)
(***************************************************************************)

\* Does requestTarget find the host?  hasClient: it was given the client.
requestTarget(hasClient, built) ==
  \/ dest = "absolute"
  \/ dest = "based" /\ (built \/ hasClient)
  \/ dest = "unparsable" /\ ~built /\ hasClient

\* Faulty variant: what beforeRequest found is forgotten.
resolvedTargetForgets(n) == requestTarget(FALSE, raw)

resolvedTarget(n) == IF raw THEN requestTarget(FALSE, raw) ELSE span[n].host
-----------------------------------------------------------------------------
(***************************************************************************)
(* The hooks.                                                              *)
(***************************************************************************)

\* Faulty variant: the context is taken as it is.
parentCtxNested == ctx

\* The context to start from: that of the attempt before is not built upon.
parentCtx == IF ctx = 0 THEN 0 ELSE span[ctx].parent

NewState ==
  [parent |-> parentCtx, finished |-> FALSE, host |-> requestTarget(TRUE, raw),
   samples |-> 0, ends |-> 0, kind |-> "none", type |-> "none", marked |-> FALSE]

\* Faulty variant: one attempt early.
isLastAttemptEarly(n) == retryCount > 0 /\ n >= retryCount

isLastAttempt(n) == retryCount > 0 /\ n >= retryCount + 1

\* The span with its attributes, its sample and its end.
Ended(n, kind, type, exhausted) ==
  [parent |-> span[n].parent, finished |-> TRUE, host |-> resolvedTarget(n),
   samples |-> span[n].samples + 1, ends |-> span[n].ends + 1,
   kind |-> kind, type |-> type, marked |-> exhausted]

\* Faulty variant: the state is neither marked nor taken out of the context.
finishAgain(n, kind, type, exhausted) ==
  /\ span' = [span EXCEPT ![n] = [Ended(n, kind, type, exhausted) EXCEPT !.finished = FALSE]]
  /\ events' = IF exhausted THEN events + 1 ELSE events
  /\ UNCHANGED ctx

\* finish, and the request gets back the context it had; addRetryExhaustedEvent
\* was called just before.
finish(n, kind, type, exhausted) ==
  /\ span' = [span EXCEPT ![n] = Ended(n, kind, type, exhausted)]
  /\ events' = IF exhausted THEN events + 1 ELSE events
  /\ ctx' = span[n].parent

finishResponse(n, retryable) ==
  finish(n, IF resp = "timeout" THEN "server_timeout" ELSE "none",
            IF resp = "ok" THEN "none" ELSE "status",
            isLastAttempt(n) /\ retryable)

finishError(n, e, retryExhausted) ==
  finish(n, restyErrorKind(e), errorType(e),
         retryExhausted /\ e \cap {"canceled", "deadline"} = {})

\* There is a state in the context and it is not finished.
Pending == ctx # 0 /\ ~span[ctx].finished

Ignore == ~Pending /\ UNCHANGED hookVars

\* Faulty variant: a retry decided on a response is left to the success hook.
retryErrorsOnly ==
  IF resp = "nil" THEN UNCHANGED hookVars
  ELSE \/ Ignore
       \/ Pending /\ err = NoError /\ UNCHANGED hookVars
       \/ Pending /\ err # NoError /\ finishError(ctx, err, isLastAttempt(ctx))

\* The end of an attempt resty wants to retry, the last one too.
retry ==
  IF resp = "nil" THEN UNCHANGED hookVars
  ELSE \/ Ignore
       \/ Pending /\ err = NoError /\ finishResponse(ctx, TRUE)
       \/ Pending /\ err # NoError /\ finishError(ctx, err, isLastAttempt(ctx))

success == Ignore \/ (Pending /\ finishResponse(ctx, FALSE))

error == Ignore \/ (Pending /\ finishError(ctx, err, isLastAttempt(ctx)))

panicked(e) == Ignore \/ (Pending /\ finishError(ctx, e, FALSE))
-----------------------------------------------------------------------------
(***************************************************************************)
(* An attempt.                                                             *)
(***************************************************************************)
Outcome(r, e, final) ==
  /\ resp' = r /\ err' = e /\ noRetry' = final
  /\ pc' = "decide"

\* A before-request hook of the application, ahead of the wrapper's, fails.
FailsAhead ==
  /\ pc = "begin"
  /\ attempt' = attempt + 1
  /\ \E e \in Failures : Outcome("nil", e, TRUE)
  /\ UNCHANGED <<config, hookVars, raw, ctxDone, history>>

beforeRequest ==
  /\ pc = "begin"
  /\ pc' = "middleware"
  /\ attempt' = attempt + 1
  /\ span' = [span EXCEPT ![attempt + 1] = NewState]
  /\ ctx' = attempt + 1
  /\ UNCHANGED <<config, events, raw, resp, err, noRetry, ctxDone, history>>

\* A hook after it, the rate limiter or resty's middleware fails.
FailsBehind ==
  /\ pc = "middleware"
  /\ \E e \in Failures : Outcome("nil", e, TRUE)
  /\ raw' \in {raw, FALSE}
  /\ UNCHANGED <<config, attempt, hookVars, ctxDone, history>>

BuildRequest ==
  /\ pc = "middleware"
  /\ dest \notin {"badbase", "unparsable"}
  /\ pc' = "sent"
  /\ raw' = TRUE
  /\ UNCHANGED <<config, attempt, hookVars, resp, err, noRetry, ctxDone, history>>

\* No response, or one that cannot be read, or that the middleware cannot use.
SendFails ==
  /\ pc = "sent"
  /\ \E e \in Failures :
       \/ Outcome("none", e, FALSE)
       \/ /\ dest # "baseless"
          /\ \E r \in {"ok", "error", "timeout"}, final \in BOOLEAN : Outcome(r, e, final)
  /\ UNCHANGED <<config, attempt, hookVars, raw, ctxDone, history>>

Responds ==
  /\ pc = "sent"
  /\ dest # "baseless"
  /\ \E r \in {"ok", "error", "timeout"} : Outcome(r, NoError, FALSE)
  /\ UNCHANGED <<config, attempt, hookVars, raw, ctxDone, history>>

CancelCtx ==
  /\ ~ctxDone /\ ~Over
  /\ ctxDone' = TRUE
  /\ UNCHANGED <<config, pc, attempt, hookVars, raw, resp, err, noRetry, history>>
-----------------------------------------------------------------------------
(***************************************************************************)
(* resty's decisions.                                                      *)
(***************************************************************************)

\* What is asked of the context is asked of the response's.
CutShort == resp # "nil" /\ ctxDone

GiveUp ==
  /\ pc = "decide"
  /\ retryCount = 0 \/ CutShort \/ conditions \/ err = NoError \/ noRetry
  /\ pc' = "final"
  /\ UNCHANGED <<config, attempt, hookVars, raw, resp, err, noRetry, ctxDone, history>>

DecideRetry ==
  /\ pc = "decide"
  /\ retryCount > 0 /\ ~CutShort
  /\ conditions \/ (err # NoError /\ ~noRetry)
  /\ pc' = "hooks"
  /\ gaveUp' = (attempt = retryCount + 1)
  /\ unheard' = IF resp = "nil" THEN unheard \cup {attempt} ELSE unheard
  /\ UNCHANGED <<config, attempt, hookVars, raw, resp, err, noRetry, ctxDone>>

RetryHooks ==
  /\ pc = "hooks"
  /\ retry
  /\ pc' = IF attempt = retryCount + 1 THEN "final" ELSE "wait"
  /\ UNCHANGED <<config, attempt, raw, resp, err, noRetry, ctxDone, history>>

\* The wait is over, is cancelled, or cannot be computed.
Wait ==
  /\ pc = "wait"
  /\ \/ pc' = "begin" /\ UNCHANGED err
     \/ CutShort /\ pc' = "final" /\ err' \in {{"canceled"}, {"deadline"}}
     \/ pc' = "final" /\ err' \in IF err = NoError THEN Failures ELSE {err}
  /\ UNCHANGED <<config, attempt, hookVars, raw, resp, noRetry, ctxDone, history>>

Return ==
  /\ pc = "final"
  /\ pc' = "done"
  /\ (err = NoError /\ success) \/ (err # NoError /\ error)
  /\ UNCHANGED <<config, attempt, raw, resp, err, noRetry, ctxDone, history>>

\* A hook, a condition, the middleware or the transport panics.
Panic ==
  /\ ~Over
  /\ pc' = "panicked"
  /\ \E e \in Failures : panicked(e)
  /\ UNCHANGED <<config, attempt, raw, resp, err, noRetry, ctxDone, history>>
-----------------------------------------------------------------------------
Init ==
  /\ retryCount \in Budgets
  /\ conditions \in BOOLEAN
  /\ dest \in Destinations
  /\ pc = "begin" /\ attempt = 0 /\ ctx = 0 /\ raw = FALSE
  /\ resp = "nil" /\ err = NoError /\ noRetry = FALSE
  /\ span = [n \in Attempts |-> NoSpan]
  /\ events = 0 /\ ctxDone = FALSE
  /\ gaveUp = FALSE /\ unheard = {}

Terminated == Over /\ UNCHANGED vars

Next ==
  \/ FailsAhead \/ beforeRequest \/ FailsBehind \/ BuildRequest
  \/ SendFails \/ Responds \/ CancelCtx
  \/ GiveUp \/ DecideRetry \/ RetryHooks \/ Wait \/ Return \/ Panic
  \/ Terminated

Spec == Init /\ [][Next]_vars
-----------------------------------------------------------------------------
(***************************************************************************)
(* Properties.                                                             *)
(***************************************************************************)
Started == {n \in Attempts : span[n] # NoSpan}

\* An attempt's span ends at most once and with exactly one duration sample,
\* however many of the hooks hear of the attempt; and when the request is over,
\* by a return or by a panic, every span has ended, unless the attempt's retry
\* was announced without a response.
EndedIfHeard ==
  \A n \in Started :
    /\ span[n].ends <= 1 /\ span[n].samples = span[n].ends
    /\ Over => span[n].ends = 1 \/ n \in unheard

\* "every attempt must produce an ended span" (resty/client_test.go): when the
\* request is over, the span of every attempt has ended.
EveryAttemptEnds == Over => \A n \in Started : span[n].ends = 1

\* The attempts are siblings: the span of each is a child of the caller's, also
\* when the one before it has never ended; and however the request ends, its
\* context is the caller's again.
Siblings ==
  /\ \A n \in Started : span[n].parent = 0
  /\ Over => ctx = 0

\* Whatever hooks hear of them, attempts are one span and one sample each, side
\* by side under the caller's span.
AttemptsSound == EndedIfHeard /\ Siblings

\* The retry marker is on the last attempt the budget allows and on no other,
\* with one event on the caller's span.  A request that returns after resty
\* would have retried once more has it, unless the caller's context or a
\* deadline is what it failed with.
MarkedWhenSpent ==
  /\ \A n \in Started : span[n].marked => n = retryCount + 1 /\ retryCount > 0
  /\ events = IF \E n \in Started : span[n].marked THEN 1 ELSE 0
  /\ pc = "done" /\ gaveUp /\ attempt \in Started
       /\ (err = NoError \/ err \cap {"canceled", "deadline"} = {})
     => span[attempt].marked

\* An attempt the caller's context or a deadline has ended is said to be that
\* under both keys, error.type and resty.error.kind, and is not marked.
ContextErrorsAgree ==
  \A n \in Started :
    /\ span[n].kind = "client_canceled" <=> span[n].type = "context.Canceled"
    /\ span[n].kind = "client_timeout" <=> span[n].type = "context.DeadlineExceeded"
    /\ span[n].marked => span[n].kind \notin {"client_canceled", "client_timeout"}

\* The span of every attempt names the server if the URL does, with the help of
\* the client's base URL, however early the attempt has failed.
AddressKept ==
  \A n \in Started : span[n].ends > 0 /\ dest \in {"absolute", "based"} => span[n].host

\* What is said of an attempt, by whichever hook ends it and however early: the
\* marker, the kind of its error and its server.
OutcomeDescribed == MarkedWhenSpent /\ ContextErrorsAgree /\ AddressKept
=============================================================================
