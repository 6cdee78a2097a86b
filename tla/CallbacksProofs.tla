--------------------------- MODULE CallbacksProofs ---------------------------
(***************************************************************************)
(* Proofs about MCCallbacks: the attempts of a Resty request, for every    *)
(* retry budget and every set of errors; and the gauges of MongoDB's       *)
(* pools, for any number of pools, connections and checkouts.              *)
(***************************************************************************)
EXTENDS MCCallbacks, FiniteSetTheorems, TLAPS


Typed ==
  /\ retryCount \in Nat /\ attempt \in Nat /\ ctx \in Nat
  /\ ctx <= attempt /\ attempt <= retryCount + 1
  /\ pc \in {"begin", "wait"} => attempt <= retryCount
  /\ span \in [Attempts -> requestState \cup {NoSpan}]

\* A span that has ended has one sample; every span's parent is the caller's.
SpanInv ==
  \A n \in Attempts : span[n] \in requestState =>
    /\ span[n].parent = 0
    /\ span[n].samples = span[n].ends
    /\ \/ ~span[n].finished /\ span[n].ends = 0
       \/ span[n].finished /\ span[n].ends = 1

\* The state in the context is one that is not finished.
CtxInv == ctx # 0 => span[ctx] \in requestState /\ span[ctx].ends = 0

\* A span that has not ended is the one in the context, or was lost.
Owned ==
  \A n \in Attempts : span[n] \in requestState /\ span[n].ends = 0 => n = ctx \/ n \in unheard

\* Whose state the context has: before an attempt, only one that was lost.
Replaceable ==
  /\ ctx # 0 => ctx = attempt \/ ctx \in unheard
  /\ ctx # 0 /\ pc \in {"begin", "wait"} => ctx \in unheard
  /\ pc = "hooks" /\ resp = "nil" => attempt \in unheard

\* A request that is over has its caller's context.
Restored == Over => ctx = 0

Inv == Typed /\ SpanInv /\ CtxInv /\ Owned /\ Replaceable /\ Restored

\* The initial states satisfy the invariant.
LEMMA InitInv == Init => Inv
  <1> SUFFICES ASSUME Init PROVE Inv
    OBVIOUS
  <1>1. Typed
    BY RestyAssumption DEF Init, Typed, Attempts
  <1>2. SpanInv /\ Owned
    BY RestyAssumption DEF Init, SpanInv, Owned
  <1>3. CtxInv /\ Replaceable /\ Restored
    BY DEF Init, CtxInv, Replaceable, Restored, Over
  <1> QED
    BY <1>1, <1>2, <1>3 DEF Inv

\* What finish does to the spans: one more end and one more sample of the one,
\* nothing to the others.
LEMMA FinishEffect ==
  ASSUME Typed, NEW n \in Attempts, span[n] \in requestState,
         NEW kind \in Kinds, NEW type \in Types, NEW exhausted \in BOOLEAN,
         finish(n, kind, type, exhausted)
  PROVE  /\ ctx' = span[n].parent
         /\ span' \in [Attempts -> requestState \cup {NoSpan}]
         /\ span'[n] \in requestState
         /\ span'[n].finished
         /\ span'[n].parent = span[n].parent
         /\ span'[n].ends = span[n].ends + 1
         /\ span'[n].samples = span[n].samples + 1
         /\ \A m \in Attempts \ {n} : span'[m] = span[m]
  <1>1. resolvedTarget(n) \in BOOLEAN
    <2>1. span[n].host \in BOOLEAN
      BY DEF requestState
    <2>2. requestTarget(FALSE, raw) \in BOOLEAN
      BY Zenon DEF requestTarget
    <2> QED
      BY <2>1, <2>2, Zenon DEF resolvedTarget
  <1> DEFINE s == Ended(n, kind, type, exhausted)
  <1>2. /\ s \in requestState
        /\ s.finished
        /\ s.parent = span[n].parent
        /\ s.ends = span[n].ends + 1
        /\ s.samples = span[n].samples + 1
    BY <1>1 DEF Ended, requestState
  <1>3. span' = [span EXCEPT ![n] = s]
    BY DEF finish
  <1> HIDE DEF s
  <1>4. ctx' = span[n].parent
    BY DEF finish
  <1> QED
    BY <1>2, <1>3, <1>4 DEF Typed

\* What a hook that has found a state leaves: the span has ended, the context is
\* the caller's, and nothing else has changed.
Finished ==
  /\ ctx # 0
  /\ ctx' = 0
  /\ span' \in [Attempts -> requestState \cup {NoSpan}]
  /\ span'[ctx] \in requestState
  /\ span'[ctx].finished
  /\ span'[ctx].parent = 0
  /\ span'[ctx].ends = 1
  /\ span'[ctx].samples = 1
  /\ \A m \in Attempts \ {ctx} : span'[m] = span[m]

\* Every way to finish the state in the context is one of those.
LEMMA PendingFinish ==
  ASSUME Inv, Pending, NEW kind \in Kinds, NEW type \in Types,
         NEW exhausted \in BOOLEAN, finish(ctx, kind, type, exhausted)
  PROVE  Finished
  <1>1. ctx \in Attempts /\ ctx # 0
    BY DEF Inv, Typed, Pending, Attempts
  <1>2. /\ span[ctx] \in requestState
        /\ span[ctx].ends = 0 /\ span[ctx].samples = 0 /\ span[ctx].parent = 0
    BY <1>1 DEF Inv, CtxInv, SpanInv
  <1>3. Typed
    BY DEF Inv
  <1> QED
    BY <1>1, <1>2, <1>3, FinishEffect DEF Finished

\* finishResponse and finishError end the attempt.
LEMMA FinishResponse ==
  ASSUME Inv, Pending, NEW retryable \in BOOLEAN, finishResponse(ctx, retryable)
  PROVE  Finished
  <1> DEFINE kind == IF resp = "timeout" THEN "server_timeout" ELSE "none"
             type == IF resp = "ok" THEN "none" ELSE "status"
             last == isLastAttempt(ctx) /\ retryable
  <1>1. kind \in Kinds /\ type \in Types
    BY DEF Kinds, Types
  <1>2. last \in BOOLEAN
    OBVIOUS
  <1>3. finish(ctx, kind, type, last)
    BY DEF finishResponse
  <1> HIDE DEF kind, type, last
  <1> QED
    BY <1>1, <1>2, <1>3, PendingFinish

\* Nor does the error hook's end of it.
LEMMA FinishError ==
  ASSUME Inv, Pending, NEW e, NEW x \in BOOLEAN, finishError(ctx, e, x)
  PROVE  Finished
  <1> DEFINE kind == restyErrorKind(e)
             type == errorType(e)
             last == x /\ e \cap {"canceled", "deadline"} = {}
  <1>1. kind \in Kinds
    BY DEF restyErrorKind, Kinds
  <1>2. type \in Types
    BY DEF errorType, Types
  <1>3. last \in BOOLEAN
    OBVIOUS
  <1>4. finish(ctx, kind, type, last)
    BY DEF finishError
  <1> HIDE DEF kind, type, last
  <1> QED
    BY <1>1, <1>2, <1>3, <1>4, PendingFinish

\* A hook with nothing to do finds the caller's context.
LEMMA IgnoreEffect ==
  ASSUME Inv, Ignore
  PROVE  ctx = 0 /\ UNCHANGED hookVars
  <1>1. CASE ctx = 0
    BY <1>1 DEF Ignore
  <1>2. CASE ctx # 0
    <2>1. ctx \in Attempts
      BY <1>2 DEF Inv, Typed, Attempts
    <2>2. span[ctx] \in requestState /\ span[ctx].ends = 0
      BY <1>2 DEF Inv, CtxInv
    <2>3. ~span[ctx].finished
      BY <2>1, <2>2 DEF Inv, SpanInv
    <2> QED
      BY <1>2, <2>3 DEF Ignore, Pending
  <1> QED
    BY <1>1, <1>2

\* The success, error and panic hooks leave nothing unfinished.
LEMMA LastHooks ==
  ASSUME Inv, success \/ error \/ \E e \in Failures : panicked(e)
  PROVE  Finished \/ (ctx = 0 /\ UNCHANGED hookVars)
  <1>1. CASE Ignore
    BY <1>1, IgnoreEffect
  <1>2. CASE Pending /\ finishResponse(ctx, FALSE)
    BY <1>2, FinishResponse
  <1>3. ASSUME NEW e, NEW x \in BOOLEAN, Pending, finishError(ctx, e, x)
        PROVE Finished
    BY <1>3, FinishError
  <1>4. isLastAttempt(ctx) \in BOOLEAN
    BY DEF isLastAttempt
  <1> QED
    BY <1>1, <1>2, <1>3, <1>4 DEF success, error, panicked

\* The retry hook does neither only when it is given no response.
LEMMA RetryHook ==
  ASSUME Inv, retry
  PROVE  \/ Finished
         \/ ctx = 0 /\ UNCHANGED hookVars
         \/ resp = "nil" /\ UNCHANGED hookVars
  <1>1. CASE resp = "nil"
    BY <1>1 DEF retry
  <1>2. CASE Ignore
    BY <1>2, IgnoreEffect
  <1>3. CASE Pending /\ finishResponse(ctx, TRUE)
    BY <1>3, FinishResponse
  <1>4. isLastAttempt(ctx) \in BOOLEAN
    BY DEF isLastAttempt
  <1>5. CASE Pending /\ finishError(ctx, err, isLastAttempt(ctx))
    BY <1>4, <1>5, FinishError
  <1> QED
    BY <1>1, <1>2, <1>3, <1>5 DEF retry

\* Finishing keeps what the invariant says of the spans.
LEMMA FinishedSpans ==
  ASSUME Inv, Finished, UNCHANGED <<retryCount, unheard>>
  PROVE  SpanInv' /\ CtxInv' /\ Owned'
  <1>1. Attempts' = Attempts
    BY DEF Attempts
  <1>2. SpanInv'
    BY <1>1 DEF Inv, SpanInv, Finished
  <1>3. CtxInv'
    BY DEF CtxInv, Finished
  <1>4. Owned'
    BY <1>1 DEF Inv, Owned, Finished
  <1> QED
    BY <1>2, <1>3, <1>4

\* The steps that leave the spans and the context alone.
LEMMA QuietSpans ==
  ASSUME Inv, UNCHANGED <<retryCount, ctx, span>>, unheard \subseteq unheard'
  PROVE  SpanInv' /\ CtxInv' /\ Owned'
  <1>1. Attempts' = Attempts
    BY DEF Attempts
  <1> QED
    BY <1>1 DEF Inv, SpanInv, CtxInv, Owned

\* Every step keeps the invariant.
LEMMA NextInv == Inv /\ [Next]_vars => Inv'
  <1> SUFFICES ASSUME Inv, [Next]_vars PROVE Inv'
    OBVIOUS
  <1>1. ASSUME FailsAhead \/ FailsBehind \/ BuildRequest \/ SendFails \/ Responds
               \/ CancelCtx \/ GiveUp \/ Wait \/ UNCHANGED vars
        PROVE  Inv'
    <2>1. UNCHANGED <<retryCount, ctx, span, unheard>>
      BY <1>1 DEF FailsAhead, FailsBehind, BuildRequest, SendFails, Responds, CancelCtx,
                  GiveUp, Wait, vars, config, hookVars, history
    <2>2. SpanInv' /\ CtxInv' /\ Owned'
      BY <2>1, QuietSpans
    <2>3. CASE FailsAhead
      <3>1. Typed'
        BY <2>1, <2>3 DEF Inv, Typed, Attempts, FailsAhead, Outcome
      <3>2. Replaceable' /\ Restored'
        BY <2>1, <2>3 DEF Inv, Replaceable, Restored, Over, FailsAhead, Outcome
      <3> QED
        BY <2>2, <3>1, <3>2 DEF Inv
    <2>4. CASE FailsBehind \/ BuildRequest \/ SendFails \/ Responds \/ GiveUp
      <3>1. Typed'
        BY <2>1, <2>4 DEF Inv, Typed, Attempts, FailsBehind, BuildRequest, SendFails,
                          Responds, GiveUp, Outcome, config
      <3>2. Replaceable' /\ Restored'
        BY <2>1, <2>4 DEF Inv, Replaceable, Restored, Over, FailsBehind,
                          BuildRequest, SendFails, Responds, GiveUp, Outcome
      <3> QED
        BY <2>2, <3>1, <3>2 DEF Inv
    <2>5. CASE Wait
      <3>1. Typed'
        BY <2>1, <2>5 DEF Inv, Typed, Attempts, Wait
      <3>2. Replaceable' /\ Restored'
        BY <2>1, <2>5 DEF Inv, Replaceable, Restored, Over, Wait
      <3> QED
        BY <2>2, <3>1, <3>2 DEF Inv
    <2>6. CASE CancelCtx \/ UNCHANGED vars
      <3>1. UNCHANGED <<pc, attempt, resp>>
        BY <2>6 DEF CancelCtx, vars
      <3>2. Typed'
        BY <2>1, <3>1 DEF Inv, Typed, Attempts
      <3>3. Replaceable' /\ Restored'
        BY <2>1, <3>1 DEF Inv, Replaceable, Restored, Over
      <3> QED
        BY <2>2, <3>2, <3>3 DEF Inv
    <2> QED
      BY <1>1, <2>3, <2>4, <2>5, <2>6
  <1>2. CASE beforeRequest
    <2> DEFINE n == attempt + 1
    <2>1. n \in Attempts /\ n # ctx /\ n # 0
      BY <1>2 DEF Inv, Typed, Attempts, beforeRequest
    <2>2. /\ UNCHANGED <<retryCount, unheard>>
          /\ attempt' = n /\ ctx' = n /\ pc' = "middleware"
          /\ span' = [span EXCEPT ![n] = NewState]
      BY <1>2 DEF beforeRequest, config, history
    <2>3. Attempts' = Attempts
      BY <2>2 DEF Attempts
    <2>4. /\ NewState \in requestState
          /\ NewState.parent = 0 /\ NewState.samples = 0 /\ NewState.ends = 0
          /\ ~NewState.finished
      <3>1. parentCtx = 0
        BY DEF Inv, Typed, Attempts, CtxInv, SpanInv, parentCtx
      <3>2. requestTarget(TRUE, raw) \in BOOLEAN
        BY Zenon DEF requestTarget
      <3> QED
        BY <3>1, <3>2 DEF NewState, requestState, Kinds, Types
    <2> HIDE DEF n
    <2>5. /\ span' \in [Attempts -> requestState \cup {NoSpan}]
          /\ span'[n] = NewState
          /\ \A m \in Attempts \ {n} : span'[m] = span[m]
      BY <2>1, <2>2, <2>4 DEF Inv, Typed
    <2>6. Typed'
      BY <1>2, <2>2, <2>3, <2>5 DEF Inv, Typed, beforeRequest, n
    <2>7. SpanInv'
      BY <2>3, <2>4, <2>5 DEF Inv, SpanInv
    <2>8. CtxInv'
      BY <2>2, <2>4, <2>5 DEF CtxInv
    <2>9. Owned'
      <3> SUFFICES ASSUME NEW m \in Attempts, span'[m] \in requestState, span'[m].ends = 0
                   PROVE  m = ctx' \/ m \in unheard'
        BY <2>3 DEF Owned
      <3>1. CASE m = n
        BY <2>2, <3>1
      <3>2. CASE m # n
        <4>1. m = ctx \/ m \in unheard
          BY <2>5, <3>2 DEF Inv, Owned
        <4>2. ctx # 0 => ctx \in unheard
          BY <1>2 DEF Inv, Replaceable, beforeRequest
        <4>3. m # 0
          BY DEF Attempts, Inv, Typed
        <4> QED
          BY <2>2, <4>1, <4>2, <4>3
      <3> QED
        BY <3>1, <3>2
    <2>10. Replaceable' /\ Restored'
      BY <2>2 DEF Replaceable, Restored, Over
    <2> QED
      BY <2>6, <2>7, <2>8, <2>9, <2>10 DEF Inv
  <1>3. CASE DecideRetry
    <2>1. /\ UNCHANGED <<retryCount, ctx, span, attempt, resp>>
          /\ pc' = "hooks" /\ unheard \subseteq unheard'
          /\ resp = "nil" => attempt \in unheard'
      BY <1>3 DEF DecideRetry, config, hookVars
    <2>2. SpanInv' /\ CtxInv' /\ Owned'
      BY <2>1, QuietSpans
    <2>3. Typed'
      BY <2>1 DEF Inv, Typed, Attempts
    <2>4. Replaceable' /\ Restored'
      BY <2>1 DEF Inv, Replaceable, Restored, Over
    <2> QED
      BY <2>2, <2>3, <2>4 DEF Inv
  <1>4. CASE RetryHooks
    <2>1. /\ UNCHANGED <<retryCount, attempt, resp, unheard>>
          /\ pc = "hooks"
          /\ pc' = IF attempt = retryCount + 1 THEN "final" ELSE "wait"
      BY <1>4 DEF RetryHooks, config, history
    <2>2. \/ Finished
          \/ ctx = 0 /\ UNCHANGED hookVars
          \/ resp = "nil" /\ UNCHANGED hookVars
      BY <1>4, RetryHook DEF RetryHooks
    <2>3. SpanInv' /\ CtxInv' /\ Owned'
      BY <2>1, <2>2, FinishedSpans, QuietSpans DEF hookVars
    <2>4. Typed'
      BY <2>1, <2>2 DEF Inv, Typed, Attempts, Finished, hookVars
    <2>5. Replaceable' /\ Restored'
      BY <2>1, <2>2 DEF Inv, Replaceable, Restored, Over, Finished, hookVars
    <2> QED
      BY <2>3, <2>4, <2>5 DEF Inv
  <1>5. CASE Return \/ Panic
    <2>1. /\ UNCHANGED <<retryCount, attempt, unheard>>
          /\ pc' \in {"done", "panicked"}
      BY <1>5 DEF Return, Panic, config, history
    <2>2. Finished \/ (ctx = 0 /\ UNCHANGED hookVars)
      BY <1>5, LastHooks DEF Return, Panic
    <2>3. SpanInv' /\ CtxInv' /\ Owned'
      BY <2>1, <2>2, FinishedSpans, QuietSpans DEF hookVars
    <2>4. Typed'
      BY <2>1, <2>2 DEF Inv, Typed, Attempts, Finished, hookVars
    <2>5. Replaceable' /\ Restored'
      BY <2>1, <2>2 DEF Replaceable, Restored, Finished, hookVars
    <2> QED
      BY <2>3, <2>4, <2>5 DEF Inv
  <1> QED
    BY <1>1, <1>2, <1>3, <1>4, <1>5 DEF Next, Terminated

\* The invariant holds in every reachable state.
THEOREM Invariant == Spec => []Inv
  <1>1. Init => Inv
    BY InitInv
  <1>2. Inv /\ [Next]_vars => Inv'
    BY NextInv
  <1> QED
    BY <1>1, <1>2, PTL DEF Spec

\* A started attempt's state is a requestState.
LEMMA StartedState ==
  ASSUME Inv, NEW n \in Started PROVE n \in Attempts /\ span[n] \in requestState
  BY DEF Inv, Typed, Started

\* For every budget, an attempt's span ends at most once and with one sample,
\* however many hooks hear of it; and when a request is over no span is open but
\* those of attempts resty retried without giving the retry hook a response.
THEOREM AttemptsEnd == Spec => []EndedIfHeard
  <1>1. Inv => EndedIfHeard
    <2> SUFFICES ASSUME Inv, NEW n \in Started
                 PROVE  /\ span[n].ends <= 1 /\ span[n].samples = span[n].ends
                        /\ Over => span[n].ends = 1 \/ n \in unheard
      BY DEF EndedIfHeard
    <2>1. n \in Attempts /\ span[n] \in requestState
      BY StartedState
    <2>2. span[n].ends <= 1 /\ span[n].samples = span[n].ends
      BY <2>1 DEF Inv, SpanInv
    <2>3. ASSUME Over PROVE span[n].ends = 1 \/ n \in unheard
      <3>1. ctx = 0 /\ n # 0
        BY <2>1, <2>3 DEF Inv, Restored, Attempts, Typed
      <3> QED
        BY <2>1, <3>1 DEF Inv, SpanInv, Owned
    <2> QED
      BY <2>2, <2>3
  <1> QED
    BY <1>1, Invariant, PTL

\* No attempt's span is the child of another's, and a request that is over, by a
\* return or a panic, has its caller's context.
THEOREM AllSiblings == Spec => []Siblings
  <1>1. Inv => Siblings
    BY StartedState DEF Inv, SpanInv, Siblings, Restored
  <1> QED
    BY <1>1, Invariant, PTL

\* For every retry budget, attempts are one span and one sample each, side by side.
THEOREM AttemptsTheorem == Spec => []AttemptsSound
  BY AttemptsEnd, AllSiblings, PTL DEF AttemptsSound

-----------------------------------------------------------------------------
(***************************************************************************)
(* What the spans say.  Every span, ended or not, is in order (SpanSays);  *)
(* the context is the attempt's as long as it has not been ended           *)
(* (InHand); a request that has spent its budget is marked, or its span is *)
(* still open when it returns the error (Spent).                           *)
(***************************************************************************)
NotOfContext(e) == e = NoError \/ e \cap {"canceled", "deadline"} = {}

SpanSays ==
  \A n \in Attempts : span[n] \in requestState =>
    /\ span[n].kind = "client_canceled" <=> span[n].type = "context.Canceled"
    /\ span[n].kind = "client_timeout" <=> span[n].type = "context.DeadlineExceeded"
    /\ span[n].marked => span[n].kind \notin {"client_canceled", "client_timeout"}
    /\ dest \in {"absolute", "based"} => span[n].host
    /\ span[n].marked => n = retryCount + 1 /\ retryCount > 0 /\ span[n].ends = 1

Marked(n) == span[n] \in requestState /\ span[n].marked

EventPerMark == events = IF Marked(retryCount + 1) THEN 1 ELSE 0

InHand ==
  /\ \A n \in Attempts : span[n] \in requestState => n <= attempt
  /\ pc \in {"middleware", "sent", "decide", "hooks"} /\ attempt \in Started => ctx = attempt
  /\ pc \in {"decide", "hooks"} /\ resp = "nil" => err # NoError

Spent ==
  /\ gaveUp => attempt = retryCount + 1 /\ retryCount > 0 /\ pc \in {"hooks", "final", "done", "panicked"}
  /\ gaveUp /\ pc = "final" /\ attempt \in Started /\ NotOfContext(err) =>
       Marked(attempt) \/ (ctx = attempt /\ err # NoError)
  /\ gaveUp /\ pc = "done" /\ attempt \in Started /\ NotOfContext(err) => Marked(attempt)

Says == SpanSays /\ EventPerMark /\ InHand /\ Spent

\* The invariant holds initially.
LEMMA InitSays == Init => Says
  <1> SUFFICES ASSUME Init PROVE Says
    OBVIOUS
  <1>1. retryCount \in Nat /\ \A n \in Attempts : span[n] = NoSpan
    BY RestyAssumption DEF Init
  <1>2. retryCount + 1 \in Attempts
    BY <1>1 DEF Attempts
  <1>3. SpanSays /\ EventPerMark
    BY <1>1, <1>2, RestyAssumption DEF Init, SpanSays, EventPerMark, Marked
  <1>4. InHand /\ Spent
    BY <1>1, RestyAssumption DEF Init, InHand, Spent
  <1> QED
    BY <1>3, <1>4 DEF Says

\* A started attempt is one with a state.
LEMMA StartedIff == ASSUME Typed PROVE \A n : n \in Started <=> n \in Attempts /\ span[n] \in requestState
  BY RestyAssumption DEF Typed, Started

\* What a hook says on the span it ends.
Told(kind, type, exhausted) ==
  /\ span'[ctx].kind = kind /\ span'[ctx].type = type
  /\ span'[ctx].marked <=> exhausted
  /\ dest \in {"absolute", "based"} => span'[ctx].host
  /\ events' = IF exhausted THEN events + 1 ELSE events

\* finish says what it is given.
LEMMA FinishTells ==
  ASSUME Inv, Says, Pending, NEW kind \in Kinds, NEW type \in Types, NEW exhausted \in BOOLEAN,
         finish(ctx, kind, type, exhausted)
  PROVE  Told(kind, type, exhausted)
  <1>1. ctx \in Attempts /\ span[ctx] \in requestState
    BY DEF Inv, Typed, Pending, Attempts, CtxInv
  <1>2. dest \in {"absolute", "based"} => resolvedTarget(ctx)
    BY <1>1 DEF resolvedTarget, requestTarget, Says, SpanSays
  <1> DEFINE s == Ended(ctx, kind, type, exhausted)
  <1>3. /\ s.kind = kind /\ s.type = type /\ s.marked = exhausted
        /\ dest \in {"absolute", "based"} => s.host
    BY <1>2 DEF Ended
  <1>4. span' = [span EXCEPT ![ctx] = s] /\ events' = IF exhausted THEN events + 1 ELSE events
    BY DEF finish
  <1> HIDE DEF s
  <1>5. span'[ctx] = s
    BY <1>1, <1>4 DEF Inv, Typed
  <1> QED
    BY <1>3, <1>4, <1>5 DEF Told

\* Of the attempts only the last of a budget is the last.
LEMMA LastOfBudget ==
  ASSUME Inv, ctx # 0
  PROVE  /\ ctx \in Attempts /\ isLastAttempt(ctx) \in BOOLEAN
         /\ isLastAttempt(ctx) <=> ctx = retryCount + 1 /\ retryCount > 0
  BY DEF Inv, Typed, Attempts, isLastAttempt

\* What any hook makes of the span in the context.
Ending ==
  /\ Finished
  /\ span'[ctx].kind = "client_canceled" <=> span'[ctx].type = "context.Canceled"
  /\ span'[ctx].kind = "client_timeout" <=> span'[ctx].type = "context.DeadlineExceeded"
  /\ span'[ctx].marked => span'[ctx].kind \notin {"client_canceled", "client_timeout"}
  /\ dest \in {"absolute", "based"} => span'[ctx].host
  /\ span'[ctx].marked => isLastAttempt(ctx)
  /\ events' = IF span'[ctx].marked THEN events + 1 ELSE events

\* A response says its status, and is marked if resty would have retried it.
LEMMA ResponseTold ==
  ASSUME Inv, Says, Pending, NEW retryable \in BOOLEAN, finishResponse(ctx, retryable)
  PROVE  Ending /\ (span'[ctx].marked <=> isLastAttempt(ctx) /\ retryable)
  <1> DEFINE kind == IF resp = "timeout" THEN "server_timeout" ELSE "none"
             type == IF resp = "ok" THEN "none" ELSE "status"
             last == isLastAttempt(ctx) /\ retryable
  <1>1. kind \in Kinds /\ type \in Types /\ last \in BOOLEAN
    BY DEF Kinds, Types
  <1>2. finish(ctx, kind, type, last)
    BY DEF finishResponse
  <1>3. /\ kind \notin {"client_canceled", "client_timeout"}
        /\ type \notin {"context.Canceled", "context.DeadlineExceeded"}
        /\ last <=> isLastAttempt(ctx) /\ retryable
    OBVIOUS
  <1> HIDE DEF kind, type, last
  <1>4. Told(kind, type, last)
    BY <1>1, <1>2, FinishTells
  <1> QED
    BY <1>3, <1>4, FinishResponse DEF Ending, Told

\* An error says its kind and its type, which agree, and is not marked when it is
\* the context's.
LEMMA ErrorTold ==
  ASSUME Inv, Says, Pending, NEW e, NEW x \in BOOLEAN, x => isLastAttempt(ctx), finishError(ctx, e, x)
  PROVE  Ending /\ (span'[ctx].marked <=> x /\ e \cap {"canceled", "deadline"} = {})
  <1> DEFINE kind == restyErrorKind(e)
             type == errorType(e)
             last == x /\ e \cap {"canceled", "deadline"} = {}
  <1>1. kind \in Kinds /\ type \in Types
    BY DEF restyErrorKind, errorType, Kinds, Types
  <1>2. finish(ctx, kind, type, last) /\ last \in BOOLEAN
    BY DEF finishError
  <1>3. /\ kind = "client_canceled" <=> type = "context.Canceled"
        /\ kind = "client_timeout" <=> type = "context.DeadlineExceeded"
    BY DEF restyErrorKind, errorType
  <1>4. /\ last => kind \notin {"client_canceled", "client_timeout"}
        /\ last <=> x /\ e \cap {"canceled", "deadline"} = {}
    BY DEF restyErrorKind
  <1> HIDE DEF kind, type, last
  <1>5. Told(kind, type, last)
    BY <1>1, <1>2, FinishTells
  <1> QED
    BY <1>3, <1>4, <1>5, FinishError DEF Ending, Told

\* What ends the span in the context keeps the spans and the events in order.
LEMMA EndingSays ==
  ASSUME Inv, Says, Ending, UNCHANGED <<retryCount, dest>>
  PROVE  SpanSays' /\ EventPerMark'
  <1>1. /\ Attempts' = Attempts /\ ctx # 0 /\ ctx \in Attempts
        /\ span[ctx] \in requestState /\ span[ctx].ends = 0
    BY LastOfBudget DEF Attempts, Ending, Finished, Inv, CtxInv
  <1>2. ASSUME NEW n \in Attempts, span'[n] \in requestState
        PROVE  /\ span'[n].kind = "client_canceled" <=> span'[n].type = "context.Canceled"
               /\ span'[n].kind = "client_timeout" <=> span'[n].type = "context.DeadlineExceeded"
               /\ span'[n].marked => span'[n].kind \notin {"client_canceled", "client_timeout"}
               /\ dest \in {"absolute", "based"} => span'[n].host
               /\ span'[n].marked => n = retryCount + 1 /\ retryCount > 0 /\ span'[n].ends = 1
    <2>1. CASE n = ctx
      BY <1>1, <2>1, LastOfBudget DEF Ending, Finished
    <2>2. CASE n # ctx
      <3>1. span'[n] = span[n]
        BY <1>2, <2>2 DEF Ending, Finished
      <3> QED
        BY <1>2, <3>1 DEF Says, SpanSays
    <2> QED
      BY <2>1, <2>2
  <1>3. SpanSays'
    BY <1>1, <1>2 DEF SpanSays
  <1>4. retryCount \in Nat /\ retryCount + 1 \in Attempts
    BY DEF Inv, Typed, Attempts
  <1>5. retryCount' = retryCount
    OBVIOUS
  <1>6. CASE ctx = retryCount + 1
    <2>1. ~Marked(retryCount + 1)
      BY <1>1, <1>6 DEF Says, SpanSays, Marked
    <2>2. events = 0
      BY <2>1 DEF Says, EventPerMark
    <2>3. (Marked(retryCount + 1))' <=> span'[ctx].marked
      BY <1>5, <1>6 DEF Ending, Finished, Marked
    <2>4. events' = IF (Marked(retryCount + 1))' THEN 1 ELSE 0
      BY <2>2, <2>3 DEF Ending
    <2> QED
      BY <1>3, <2>4 DEF EventPerMark
  <1>7. CASE ctx # retryCount + 1
    <2>1. span'[retryCount + 1] = span[retryCount + 1]
      BY <1>4, <1>7 DEF Ending, Finished
    <2>2. ~span'[ctx].marked
      BY <1>1, <1>7, LastOfBudget DEF Ending
    <2>3. events' = events
      BY <2>2 DEF Ending
    <2>4. (Marked(retryCount + 1))' <=> Marked(retryCount + 1)
      BY <1>5, <2>1 DEF Marked
    <2>5. events = IF Marked(retryCount + 1) THEN 1 ELSE 0
      BY DEF Says, EventPerMark
    <2> QED
      BY <1>3, <2>3, <2>4, <2>5 DEF EventPerMark
  <1> QED
    BY <1>3, <1>6, <1>7

\* Steps that leave the spans alone keep what they say.
LEMMA QuietSays ==
  ASSUME Inv, Says, UNCHANGED <<retryCount, dest, span, events>>
  PROVE  SpanSays' /\ EventPerMark' /\ Attempts' = Attempts /\ Started' = Started
         /\ \A n : (Marked(n))' <=> Marked(n)
  <1>1. Attempts' = Attempts
    BY DEF Attempts
  <1>2. SpanSays'
    BY <1>1 DEF Says, SpanSays
  <1>3. Started' = Started
    BY <1>1 DEF Started
  <1>4. \A n : (Marked(n))' <=> Marked(n)
    BY DEF Marked
  <1>5. EventPerMark'
    <2>1. events = IF Marked(retryCount + 1) THEN 1 ELSE 0
      BY DEF Says, EventPerMark
    <2>2. (Marked(retryCount + 1))' <=> Marked(retryCount + 1)
      BY DEF Marked
    <2> QED
      BY <2>1, <2>2 DEF EventPerMark
  <1> QED
    BY <1>1, <1>2, <1>3, <1>4, <1>5

\* The steps of resty before a hook is called.
LEMMA QuietSteps ==
  ASSUME Inv, Says, FailsBehind \/ BuildRequest \/ SendFails \/ Responds \/ CancelCtx \/ GiveUp
                    \/ Wait \/ UNCHANGED vars
  PROVE  Says'
  <1>1. UNCHANGED <<retryCount, dest, attempt, ctx, span, events, gaveUp>>
    BY DEF FailsBehind, BuildRequest, SendFails, Responds, CancelCtx, GiveUp, Wait, vars, config,
           hookVars, history
  <1>2. /\ SpanSays' /\ EventPerMark' /\ Attempts' = Attempts /\ Started' = Started
        /\ \A n : (Marked(n))' <=> Marked(n)
    BY <1>1, QuietSays
  <1>3. ASSUME FailsBehind \/ SendFails \/ Responds
        PROVE  pc \in {"middleware", "sent"} /\ pc' = "decide" /\ (resp' = "nil" => err' # NoError)
    BY <1>3, RestyAssumption DEF FailsBehind, SendFails, Responds, Outcome
  <1>4. InHand'
    <2>1. CASE FailsBehind \/ SendFails \/ Responds
      BY <1>1, <1>2, <1>3, <2>1 DEF Says, InHand
    <2>2. CASE BuildRequest \/ GiveUp \/ Wait
      BY <1>1, <1>2, <2>2 DEF Says, InHand, BuildRequest, GiveUp, Wait
    <2>3. CASE CancelCtx \/ UNCHANGED vars
      <3>1. UNCHANGED <<pc, resp, err>>
        BY <2>3 DEF CancelCtx, vars
      <3> QED
        BY <1>1, <1>2, <3>1 DEF Says, InHand
    <2> QED
      BY <2>1, <2>2, <2>3
  <1>5. Spent'
    <2>1. CASE FailsBehind \/ SendFails \/ Responds \/ BuildRequest \/ GiveUp \/ Wait
      <3>1. pc \in {"middleware", "sent", "decide", "wait"}
        BY <2>1 DEF FailsBehind, SendFails, Responds, BuildRequest, GiveUp, Wait
      <3>2. ~gaveUp
        BY <3>1 DEF Says, Spent
      <3> QED
        BY <1>1, <3>2 DEF Spent
    <2>2. CASE CancelCtx \/ UNCHANGED vars
      <3>1. UNCHANGED <<pc, err>>
        BY <2>2 DEF CancelCtx, vars
      <3> QED
        BY <1>1, <1>2, <3>1 DEF Says, Spent, NotOfContext
    <2> QED
      BY <2>1, <2>2
  <1> QED
    BY <1>2, <1>4, <1>5 DEF Says

\* An attempt begins: it fails ahead of the wrapper's hook, or has its span.
LEMMA BeginSteps == ASSUME Inv, Says, FailsAhead \/ beforeRequest PROVE Says'
  <1> DEFINE n == attempt + 1
  <1>1. /\ n \in Attempts /\ span[n] = NoSpan /\ ~gaveUp /\ pc = "begin" /\ attempt \in Nat
        /\ retryCount \in Nat
    <2>1. pc = "begin"
      BY DEF FailsAhead, beforeRequest
    <2>2. attempt \in Nat /\ retryCount \in Nat /\ n \in Attempts
      BY <2>1 DEF Inv, Typed, Attempts
    <2>3. span[n] \notin requestState
      BY <2>2 DEF Says, InHand
    <2> QED
      BY <2>1, <2>2, <2>3 DEF Says, Spent, Inv, Typed
  <1>2. /\ UNCHANGED <<retryCount, dest, events, gaveUp>> /\ attempt' = n
        /\ Attempts' = Attempts
    BY DEF FailsAhead, beforeRequest, config, hookVars, history, Attempts
  <1>3. Spent'
    BY <1>1, <1>2 DEF Spent
  <1>4. CASE FailsAhead
    <2>1. /\ UNCHANGED <<span, ctx>> /\ pc' = "decide" /\ err' # NoError
      BY <1>4, RestyAssumption DEF FailsAhead, Outcome, hookVars
    <2>2. SpanSays' /\ EventPerMark' /\ Started' = Started
      BY <1>2, <2>1, QuietSays
    <2>3. n \notin Started
      BY <1>1 DEF Started
    <2>4. \A k \in Attempts : k \in Nat /\ (span[k] \in requestState => k <= attempt)
      BY DEF Says, InHand, Attempts
    <2>5. InHand'
      BY <1>1, <1>2, <2>1, <2>2, <2>3, <2>4 DEF InHand
    <2> QED
      BY <1>3, <2>2, <2>5 DEF Says
  <1>5. CASE beforeRequest
    <2>1. /\ span' = [span EXCEPT ![n] = NewState] /\ ctx' = n /\ pc' = "middleware"
      BY <1>5 DEF beforeRequest
    <2>2. /\ NewState.kind = "none" /\ NewState.type = "none" /\ ~NewState.marked
          /\ dest \in {"absolute", "based"} => NewState.host
      BY DEF NewState, requestTarget
    <2> HIDE DEF n
    <2>3. span'[n] = NewState /\ \A k \in Attempts \ {n} : span'[k] = span[k]
      BY <1>1, <2>1 DEF Inv, Typed
    <2>4. SpanSays'
      <3> SUFFICES ASSUME NEW k \in Attempts, span'[k] \in requestState
                   PROVE  /\ span'[k].kind = "client_canceled" <=> span'[k].type = "context.Canceled"
                          /\ span'[k].kind = "client_timeout" <=> span'[k].type = "context.DeadlineExceeded"
                          /\ span'[k].marked => span'[k].kind \notin {"client_canceled", "client_timeout"}
                          /\ dest \in {"absolute", "based"} => span'[k].host
                          /\ span'[k].marked => k = retryCount + 1 /\ retryCount > 0 /\ span'[k].ends = 1
        BY <1>2 DEF SpanSays
      <3>1. CASE k = n
        BY <2>2, <2>3, <3>1
      <3>2. CASE k # n
        BY <2>3, <3>2 DEF Says, SpanSays
      <3> QED
        BY <3>1, <3>2
    <2>5. EventPerMark'
      <3>1. \A k \in Attempts : (Marked(k))' <=> Marked(k)
        <4> SUFFICES ASSUME NEW k \in Attempts PROVE (Marked(k))' <=> Marked(k)
          OBVIOUS
        <4>1. CASE k = n
          <5>1. ~Marked(k) /\ ~span'[k].marked
            BY <1>1, <2>2, <2>3, <4>1, RestyAssumption DEF Marked
          <5> QED
            BY <5>1 DEF Marked
        <4>2. CASE k # n
          BY <2>3, <4>2 DEF Marked
        <4> QED
          BY <4>1, <4>2
      <3>2. retryCount + 1 \in Attempts
        BY <1>1 DEF Attempts
      <3>3. events = IF Marked(retryCount + 1) THEN 1 ELSE 0
        BY DEF Says, EventPerMark
      <3>4. (Marked(retryCount + 1))' <=> Marked(retryCount + 1)
        BY <1>2, <3>1, <3>2 DEF Marked
      <3> QED
        BY <1>2, <3>3, <3>4 DEF EventPerMark
    <2>6. InHand'
      <3>1. \A k \in Attempts : span'[k] \in requestState => k <= attempt'
        <4>1. \A k \in Attempts : k \in Nat /\ (span[k] \in requestState => k <= attempt)
          BY DEF Says, InHand, Attempts
        <4> QED
          BY <1>1, <1>2, <2>3, <4>1 DEF n
      <3> QED
        BY <1>2, <2>1, <3>1 DEF InHand
    <2> QED
      BY <1>3, <2>4, <2>5, <2>6 DEF Says
  <1> QED
    BY <1>4, <1>5

\* A retry is decided on, the last one too.
LEMMA DecideSays == ASSUME Inv, Says, DecideRetry PROVE Says'
  <1>1. /\ UNCHANGED <<retryCount, dest, attempt, ctx, span, events, resp, err>>
        /\ pc = "decide" /\ pc' = "hooks" /\ retryCount > 0
        /\ gaveUp' = (attempt = retryCount + 1)
    BY DEF DecideRetry, config, hookVars
  <1>2. SpanSays' /\ EventPerMark' /\ Attempts' = Attempts /\ Started' = Started
    BY <1>1, QuietSays
  <1>3. InHand'
    BY <1>1, <1>2 DEF Says, InHand
  <1>4. Spent'
    BY <1>1 DEF Spent
  <1> QED
    BY <1>2, <1>3, <1>4 DEF Says

\* Ending an attempt leaves the same attempts started.
LEMMA EndingStarted ==
  ASSUME Inv, Ending, UNCHANGED retryCount
  PROVE  /\ Attempts' = Attempts /\ Started' = Started
         /\ \A n \in Attempts : span'[n] \in requestState <=> span[n] \in requestState
  <1>1. Attempts' = Attempts
    BY DEF Attempts
  <1>2. \A n \in Attempts : span'[n] \in requestState <=> span[n] \in requestState
    <2>1. ctx \in Attempts /\ span[ctx] \in requestState
      BY LastOfBudget DEF Ending, Finished, Inv, CtxInv
    <2> QED
      BY <2>1 DEF Ending, Finished
  <1>3. \A n \in Attempts : span'[n] # NoSpan <=> span[n] # NoSpan
    BY <1>2, RestyAssumption DEF Ending, Finished, Inv, Typed
  <1> QED
    BY <1>1, <1>2, <1>3 DEF Started

\* The retry hook: a budget that is spent is marked now, or the attempt was not
\* heard of and returns its error.
LEMMA RetrySays == ASSUME Inv, Says, RetryHooks PROVE Says'
  <1>1. /\ UNCHANGED <<retryCount, dest, attempt, resp, err, gaveUp>>
        /\ pc = "hooks" /\ pc' \in {"final", "wait"} /\ retry
    BY DEF RetryHooks, config, history
  <1>2. ASSUME UNCHANGED hookVars, resp = "nil" \/ ctx = 0 PROVE Says'
    <2>1. UNCHANGED <<ctx, span, events>>
      BY <1>2 DEF hookVars
    <2>2. /\ SpanSays' /\ EventPerMark' /\ Attempts' = Attempts /\ Started' = Started
          /\ \A n : (Marked(n))' <=> Marked(n)
      BY <1>1, <2>1, QuietSays
    <2>3. InHand'
      BY <1>1, <2>1, <2>2 DEF Says, InHand
    <2>4. attempt \in Started => ctx = attempt /\ err # NoError
      <3>1. attempt \in Started => ctx = attempt /\ attempt # 0
        BY <1>1 DEF Says, InHand, Started, Attempts
      <3> QED
        BY <1>1, <1>2, <3>1 DEF Says, InHand
    <2>5. gaveUp => attempt = retryCount + 1 /\ retryCount > 0 /\ pc' = "final"
      BY <1>1 DEF Says, Spent, RetryHooks
    <2>6. Spent'
      BY <1>1, <2>1, <2>2, <2>4, <2>5 DEF Spent
    <2> QED
      BY <2>2, <2>3, <2>6 DEF Says
  <1>3. ASSUME Ending, NotOfContext(err) => (span'[ctx].marked <=> isLastAttempt(ctx)) PROVE Says'
    <2>1. /\ SpanSays' /\ EventPerMark'
      BY <1>1, <1>3, EndingSays
    <2>2. /\ Attempts' = Attempts /\ Started' = Started
          /\ \A n \in Attempts : span'[n] \in requestState <=> span[n] \in requestState
      BY <1>1, <1>3, EndingStarted
    <2>3. InHand'
      BY <1>1, <2>2 DEF Says, InHand
    <2>4. gaveUp => attempt = retryCount + 1 /\ retryCount > 0 /\ pc' = "final"
      BY <1>1 DEF Says, Spent, RetryHooks
    <2>5. ASSUME gaveUp, attempt \in Started, NotOfContext(err) PROVE (Marked(attempt))'
      <3>1. ctx = attempt
        BY <1>1, <2>5 DEF Says, InHand
      <3>2. span'[ctx].marked
        BY <1>3, <2>4, <2>5, <3>1, LastOfBudget DEF Ending, Finished
      <3> QED
        BY <1>1, <1>3, <3>1, <3>2 DEF Marked, Ending, Finished
    <2>6. Spent'
      BY <1>1, <2>2, <2>4, <2>5 DEF Spent, NotOfContext
    <2> QED
      BY <2>1, <2>3, <2>6 DEF Says
  <1>4. CASE resp = "nil"
    BY <1>1, <1>2, <1>4 DEF retry
  <1>5. CASE Ignore
    BY <1>2, <1>5, IgnoreEffect
  <1>6. CASE Pending /\ finishResponse(ctx, TRUE)
    BY <1>3, <1>6, ResponseTold
  <1>7. CASE Pending /\ err # NoError /\ finishError(ctx, err, isLastAttempt(ctx))
    <2>1. ctx # 0
      BY <1>7 DEF Pending
    <2>2. Ending /\ (span'[ctx].marked <=> isLastAttempt(ctx) /\ err \cap {"canceled", "deadline"} = {})
      BY <1>7, <2>1, LastOfBudget, ErrorTold
    <2> QED
      BY <1>3, <1>7, <2>2 DEF NotOfContext
  <1> QED
    BY <1>1, <1>4, <1>5, <1>6, <1>7 DEF retry

\* What the success, error and panic hooks do to a request that is over.
LEMMA LastSays ==
  ASSUME Inv, Says, UNCHANGED <<retryCount, dest, attempt, gaveUp>>, pc' \in {"done", "panicked"},
         Ending \/ (ctx = 0 /\ UNCHANGED hookVars),
         gaveUp /\ pc' = "done" /\ attempt \in Started /\ NotOfContext(err') => (Marked(attempt))',
         gaveUp => pc \in {"hooks", "final", "done", "panicked"}
  PROVE  Says'
  <1>1. /\ SpanSays' /\ EventPerMark' /\ Attempts' = Attempts /\ Started' = Started
        /\ \A n \in Attempts : span'[n] \in requestState <=> span[n] \in requestState
    <2>1. CASE Ending
      BY <2>1, EndingSays, EndingStarted
    <2>2. CASE UNCHANGED hookVars
      <3>1. UNCHANGED <<span, events>>
        BY <2>2 DEF hookVars
      <3> QED
        BY <3>1, QuietSays
    <2> QED
      BY <2>1, <2>2
  <1>2. InHand'
    BY <1>1 DEF Says, InHand
  <1>3. gaveUp => attempt = retryCount + 1 /\ retryCount > 0
    BY DEF Says, Spent
  <1>4. Spent'
    BY <1>1, <1>3 DEF Spent, NotOfContext
  <1> QED
    BY <1>1, <1>2, <1>4 DEF Says

\* The request returns or panics.
LEMMA ReturnSays == ASSUME Inv, Says, Return \/ Panic PROVE Says'
  <1>1. /\ UNCHANGED <<retryCount, dest, attempt, err, gaveUp>>
        /\ pc' \in {"done", "panicked"}
    BY DEF Return, Panic, config, history
  <1>2. gaveUp => pc \in {"hooks", "final", "done", "panicked"}
    BY DEF Says, Spent
  <1>3. CASE Panic
    <2>1. PICK e : panicked(e)
      BY <1>3 DEF Panic
    <2>2. Ending \/ (ctx = 0 /\ UNCHANGED hookVars)
      BY <2>1, ErrorTold, IgnoreEffect DEF panicked
    <2>3. pc' # "done"
      BY <1>3 DEF Panic
    <2> QED
      BY <1>1, <1>2, <2>2, <2>3, LastSays
  <1>4. CASE Return
    <2>1. pc = "final" /\ ((err = NoError /\ success) \/ (err # NoError /\ error))
      BY <1>4 DEF Return
    <2>2. \/ ctx = 0 /\ UNCHANGED hookVars
          \/ Ending /\ err = NoError
          \/ /\ Ending /\ ctx # 0 /\ err # NoError
             /\ span'[ctx].marked <=> isLastAttempt(ctx) /\ err \cap {"canceled", "deadline"} = {}
      <3>1. CASE Ignore
        BY <3>1, IgnoreEffect
      <3>2. CASE err = NoError /\ Pending /\ finishResponse(ctx, FALSE)
        BY <3>2, ResponseTold
      <3>3. CASE err # NoError /\ Pending /\ finishError(ctx, err, isLastAttempt(ctx))
        <4>1. ctx # 0
          BY <3>3 DEF Pending
        <4> QED
          BY <3>3, <4>1, LastOfBudget, ErrorTold
      <3> QED
        BY <2>1, <3>1, <3>2, <3>3 DEF success, error
    <2>3. ASSUME gaveUp, attempt \in Started, NotOfContext(err) PROVE (Marked(attempt))'
      <3>1. attempt \in Attempts /\ attempt # 0 /\ attempt = retryCount + 1 /\ retryCount > 0
        BY <2>3 DEF Started, Attempts, Says, Spent
      <3>2. Marked(attempt) \/ (ctx = attempt /\ err # NoError)
        BY <2>1, <2>3 DEF Says, Spent
      <3>3. CASE Marked(attempt)
        <4>1. ctx # attempt
          BY <3>1, <3>3 DEF Marked, Says, SpanSays, Inv, CtxInv
        <4>2. span'[attempt] = span[attempt]
          BY <2>2, <3>1, <4>1 DEF Ending, Finished, hookVars
        <4> QED
          BY <1>1, <3>3, <4>2 DEF Marked
      <3>4. CASE ctx = attempt /\ err # NoError
        <4>1. Ending /\ span'[ctx].marked
          BY <2>2, <2>3, <3>1, <3>4, LastOfBudget DEF NotOfContext
        <4> QED
          BY <1>1, <3>4, <4>1 DEF Marked, Ending, Finished
      <3> QED
        BY <3>2, <3>3, <3>4
    <2> QED
      BY <1>1, <1>2, <2>2, <2>3, LastSays DEF NotOfContext
  <1> QED
    BY <1>3, <1>4

\* For every retry budget and every set of errors: the marker is on the last attempt
\* of a spent budget and there alone, with its event; the two keys of an error agree;
\* and every ended attempt names its server.
THEOREM OutcomeTheorem == Spec => []OutcomeDescribed
  <1>1. Inv /\ Says /\ [Next]_vars => Says'
    BY QuietSteps, BeginSteps, DecideSays, RetrySays, ReturnSays DEF Next, Terminated
  <1>2. Inv /\ Says => OutcomeDescribed
    <2> SUFFICES ASSUME Inv, Says PROVE OutcomeDescribed
      OBVIOUS
    <2>1. \A n \in Started : n \in Attempts /\ span[n] \in requestState
      BY StartedState
    <2>2. ContextErrorsAgree /\ AddressKept
      BY <2>1 DEF Says, SpanSays, ContextErrorsAgree, AddressKept
    <2>3. retryCount \in Nat /\ retryCount + 1 \in Attempts
      BY DEF Inv, Typed, Attempts
    <2>4. \A n \in Started : span[n].marked => n = retryCount + 1 /\ retryCount > 0
      BY <2>1 DEF Says, SpanSays
    <2>5. (\E n \in Started : span[n].marked) <=> Marked(retryCount + 1)
      <3>1. Marked(retryCount + 1) => retryCount + 1 \in Started
        BY <2>3, RestyAssumption DEF Marked, Started
      <3> QED
        BY <2>1, <2>4, <3>1 DEF Marked
    <2>6. events = IF \E n \in Started : span[n].marked THEN 1 ELSE 0
      <3>1. events = IF Marked(retryCount + 1) THEN 1 ELSE 0
        BY DEF Says, EventPerMark
      <3> QED
        BY <2>5, <3>1
    <2>7. pc = "done" /\ gaveUp /\ attempt \in Started
            /\ (err = NoError \/ err \cap {"canceled", "deadline"} = {})
          => span[attempt].marked
      BY DEF Says, Spent, NotOfContext, Marked
    <2> QED
      BY <2>2, <2>4, <2>6, <2>7 DEF OutcomeDescribed, MarkedWhenSpent
  <1> QED
    BY <1>1, <1>2, InitSays, Invariant, PTL DEF Spec

-----------------------------------------------------------------------------
(***************************************************************************)
(* MongoDB's pool tracker.  What is on the gauges is what the state has    *)
(* counted (Sound); the state counts the open pools and their checkouts    *)
(* (Tracks), and for the pools of one client each connection (Alone).      *)
(***************************************************************************)

\* A count of each member of S, as a set.
Slots(f, S) == UNION {{n} \X (1..f[n]) : n \in S}

\* What the set of slots has in it.
LEMMA SlotsHas ==
  ASSUME NEW S, NEW f, NEW x
  PROVE  x \in Slots(f, S) <=> \E n \in S : \E i \in 1..f[n] : x = <<n, i>>
  BY DEF Slots

\* One more.
LEMMA SlotsUp ==
  ASSUME NEW S, NEW f \in [S -> Nat], NEW n \in S, IsFiniteSet(Slots(f, S))
  PROVE  LET g == [f EXCEPT ![n] = @ + 1]
         IN  /\ IsFiniteSet(Slots(g, S))
             /\ Cardinality(Slots(g, S)) = Cardinality(Slots(f, S)) + 1
<1>. DEFINE g == [f EXCEPT ![n] = @ + 1]
           y == <<n, f[n] + 1>>
<1>1. g \in [S -> Nat] /\ g[n] = f[n] + 1 /\ \A m \in S \ {n} : g[m] = f[m]
  OBVIOUS
<1>. HIDE DEF g
<1>2. y \notin Slots(f, S)
  BY SlotsHas
<1>3. Slots(g, S) = Slots(f, S) \cup {y}
  <2>1. ASSUME NEW x \in Slots(g, S) PROVE x \in Slots(f, S) \cup {y}
    <3>1. PICK m \in S : \E i \in 1..g[m] : x = <<m, i>>
      BY <2>1, SlotsHas
    <3>2. PICK i \in 1..g[m] : x = <<m, i>>
      BY <3>1
    <3>3. i \in 1..f[m] \/ (m = n /\ i = f[n] + 1)
      BY <1>1
    <3>. QED
      BY <3>2, <3>3, SlotsHas
  <2>2. ASSUME NEW x \in Slots(f, S) PROVE x \in Slots(g, S)
    <3>1. PICK m \in S : \E i \in 1..f[m] : x = <<m, i>>
      BY <2>2, SlotsHas
    <3>2. PICK i \in 1..f[m] : x = <<m, i>>
      BY <3>1
    <3>3. i \in 1..g[m]
      BY <1>1
    <3>. QED
      BY <3>2, <3>3, SlotsHas
  <2>3. y \in Slots(g, S)
    <3>1. f[n] + 1 \in 1..g[n]
      BY <1>1
    <3>. QED
      BY <3>1, SlotsHas
  <2>. QED
    BY <2>1, <2>2, <2>3
<1>4. IsFiniteSet(Slots(g, S)) /\ Cardinality(Slots(g, S)) = Cardinality(Slots(f, S)) + 1
  BY <1>2, <1>3, FS_AddElement
<1>. QED
  BY <1>4 DEF g

\* One fewer.
LEMMA SlotsDown ==
  ASSUME NEW S, NEW f \in [S -> Nat], NEW n \in S, f[n] > 0, IsFiniteSet(Slots(f, S))
  PROVE  LET g == [f EXCEPT ![n] = @ - 1]
         IN  /\ IsFiniteSet(Slots(g, S))
             /\ Cardinality(Slots(g, S)) = Cardinality(Slots(f, S)) - 1
             /\ Cardinality(Slots(g, S)) \in Nat
<1>. DEFINE g == [f EXCEPT ![n] = @ - 1]
           y == <<n, f[n]>>
<1>1. g \in [S -> Nat] /\ g[n] = f[n] - 1 /\ \A m \in S \ {n} : g[m] = f[m]
  OBVIOUS
<1>. HIDE DEF g
<1>2. y \in Slots(f, S)
  BY SlotsHas
<1>3. Slots(g, S) = Slots(f, S) \ {y}
  <2>1. ASSUME NEW x \in Slots(g, S) PROVE x \in Slots(f, S) \ {y}
    <3>1. PICK m \in S : \E i \in 1..g[m] : x = <<m, i>>
      BY <2>1, SlotsHas
    <3>2. PICK i \in 1..g[m] : x = <<m, i>>
      BY <3>1
    <3>3. i \in 1..f[m] /\ ~(m = n /\ i = f[n])
      BY <1>1
    <3>. QED
      BY <3>2, <3>3, SlotsHas
  <2>2. ASSUME NEW x \in Slots(f, S) \ {y} PROVE x \in Slots(g, S)
    <3>1. PICK m \in S : \E i \in 1..f[m] : x = <<m, i>>
      BY <2>2, SlotsHas
    <3>2. PICK i \in 1..f[m] : x = <<m, i>>
      BY <3>1
    <3>3. ~(m = n /\ i = f[n])
      BY <2>2, <3>2
    <3>4. i \in 1..g[m]
      BY <1>1, <3>3
    <3>. QED
      BY <3>2, <3>4, SlotsHas
  <2>. QED
    BY <2>1, <2>2
<1>4. IsFiniteSet(Slots(g, S)) /\ Cardinality(Slots(g, S)) = Cardinality(Slots(f, S)) - 1
  BY <1>2, <1>3, FS_RemoveElement
<1>. QED
  BY <1>4, FS_CardinalityType DEF g

\* Nothing counted, no slots.
LEMMA SlotsNone ==
  ASSUME NEW S, NEW f, \A n \in S : f[n] = 0
  PROVE  IsFiniteSet(Slots(f, S)) /\ Cardinality(Slots(f, S)) = 0
<1>1. Slots(f, S) = {}
  <2>. SUFFICES ASSUME NEW x \in Slots(f, S) PROVE FALSE
    OBVIOUS
  <2>1. PICK m \in S : \E i \in 1..f[m] : x = <<m, i>>
    BY SlotsHas
  <2>2. PICK i \in 1..f[m] : x = <<m, i>>
    BY <2>1
  <2>. QED
    BY <2>2
<1>. QED
  BY <1>1, FS_EmptySet

-----------------------------------------------------------------------------
LiveRec == [byID : [IDs -> Nat], total : Nat]

LiveOK(l) ==
  /\ l \in LiveRec
  /\ IsFiniteSet(Slots(l.byID, IDs)) /\ l.total = Cardinality(Slots(l.byID, IDs))

\* liveConnections starts with nothing.
LEMMA NoneLiveOK == LiveOK(Pool!NoneLive) /\ Pool!NoneLive.total = 0 /\ \A n \in IDs : Pool!NoneLive.byID[n] = 0
<1>. DEFINE l == Pool!NoneLive
<1>1. l \in LiveRec /\ l.total = 0 /\ \A n \in IDs : l.byID[n] = 0
  BY DEF Pool!NoneLive, LiveRec
<1>. QED
  BY <1>1, SlotsNone DEF LiveOK

\* add keeps the total the sum of the counts.
LEMMA AddLiveOK ==
  ASSUME NEW l, LiveOK(l), NEW n \in IDs
  PROVE  /\ LiveOK(Pool!AddLive(l, n))
         /\ Pool!AddLive(l, n).total = l.total + 1
         /\ Pool!AddLive(l, n).byID[n] = l.byID[n] + 1
         /\ \A m \in IDs \ {n} : Pool!AddLive(l, n).byID[m] = l.byID[m]
<1>. DEFINE f == l.byID
           g == [f EXCEPT ![n] = @ + 1]
<1>1. f \in [IDs -> Nat] /\ l.total \in Nat
  BY DEF LiveOK, LiveRec
<1>2. /\ Pool!AddLive(l, n) = [byID |-> g, total |-> l.total + 1]
      /\ g \in [IDs -> Nat] /\ g[n] = f[n] + 1 /\ \A m \in IDs \ {n} : g[m] = f[m]
  BY <1>1 DEF Pool!AddLive
<1>3. IsFiniteSet(Slots(g, IDs)) /\ Cardinality(Slots(g, IDs)) = Cardinality(Slots(f, IDs)) + 1
  BY <1>1, SlotsUp DEF LiveOK
<1>. HIDE DEF g
<1>4. /\ Pool!AddLive(l, n).byID = g /\ Pool!AddLive(l, n).total = l.total + 1
      /\ Pool!AddLive(l, n) \in LiveRec
  BY <1>1, <1>2 DEF LiveRec
<1>. QED
  BY <1>2, <1>3, <1>4 DEF LiveOK

\* remove, of a connection that is counted.
LEMMA RemoveLiveOK ==
  ASSUME NEW l, LiveOK(l), NEW n \in IDs, Pool!HasLive(l, n)
  PROVE  /\ LiveOK(Pool!RemoveLive(l, n))
         /\ Pool!RemoveLive(l, n).total = l.total - 1
         /\ Pool!RemoveLive(l, n).byID[n] = l.byID[n] - 1
         /\ \A m \in IDs \ {n} : Pool!RemoveLive(l, n).byID[m] = l.byID[m]
<1>. DEFINE f == l.byID
           g == [f EXCEPT ![n] = @ - 1]
<1>1. f \in [IDs -> Nat] /\ l.total \in Nat /\ f[n] > 0
  BY DEF LiveOK, LiveRec, Pool!HasLive
<1>2. /\ Pool!RemoveLive(l, n) = [byID |-> g, total |-> l.total - 1]
      /\ g \in [IDs -> Nat] /\ g[n] = f[n] - 1 /\ \A m \in IDs \ {n} : g[m] = f[m]
  BY <1>1 DEF Pool!RemoveLive
<1>3. /\ IsFiniteSet(Slots(g, IDs)) /\ Cardinality(Slots(g, IDs)) = Cardinality(Slots(f, IDs)) - 1
      /\ Cardinality(Slots(g, IDs)) \in Nat
  BY <1>1, SlotsDown DEF LiveOK
<1>4. l.total - 1 \in Nat /\ l.total - 1 = Cardinality(Slots(g, IDs))
  BY <1>3 DEF LiveOK
<1>. HIDE DEF g
<1>5. /\ Pool!RemoveLive(l, n).byID = g /\ Pool!RemoveLive(l, n).total = l.total - 1
      /\ Pool!RemoveLive(l, n) \in LiveRec
  BY <1>1, <1>2, <1>4 DEF LiveRec
<1>. QED
  BY <1>2, <1>3, <1>4, <1>5 DEF LiveOK

-----------------------------------------------------------------------------
StateRec ==
  [ready : LiveRec, checkedOut : LiveRec, livePools : Nat, pending : Nat, emittedMin : Nat,
   emittedMax : Nat, seenCreated : BOOLEAN, created : [min : Nat, max : Nat]]

GaugeRec == [idle : Int, used : Int, pending : Int, min : Int, max : Int]

TrackerRec == [s : StateRec, g : GaugeRec]

\* The gauges have what the state has counted.
Sound(t) ==
  /\ t \in TrackerRec
  /\ LiveOK(t.s.ready) /\ LiveOK(t.s.checkedOut)
  /\ t.g.used = t.s.checkedOut.total /\ t.g.pending = t.s.pending
  /\ t.g.min = t.s.emittedMin /\ t.g.max = t.s.emittedMax

\* The connections, the pools and the checkouts counted, and the idle gauge.
Counted(t, ready, out, pools, pending, idle) ==
  /\ t.s.ready = ready /\ t.s.checkedOut = out /\ t.s.livePools = pools /\ t.s.pending = pending
  /\ t.g.idle = idle

Alike(t, u) == Counted(u, t.s.ready, t.s.checkedOut, t.s.livePools, t.s.pending, t.g.idle)

\* The state of an address is not none of them.
LEMMA NotNone == Pool!None \notin StateRec
<1>1. \A r \in StateRec : DOMAIN r = DOMAIN [ready |-> 1, checkedOut |-> 1, livePools |-> 1, pending |-> 1,
         emittedMin |-> 1, emittedMax |-> 1, seenCreated |-> 1, created |-> 1]
  BY DEF StateRec
<1>2. \A r \in StateRec : "ready" \in DOMAIN r
  BY <1>1
<1>3. DOMAIN Pool!None = {"none"}
  BY DEF Pool!None
<1>. QED
  BY <1>2, <1>3

\* A new state, and the gauges of one.
LEMMA NewStateOK == Pool!NewState \in StateRec
  BY NoneLiveOK DEF Pool!NewState, StateRec, LiveOK

\* The fields of a tracker.
LEMMA TrackerFields ==
  ASSUME NEW t \in TrackerRec
  PROVE  /\ t.s \in StateRec /\ t.g \in GaugeRec
         /\ t.s.ready \in LiveRec /\ t.s.checkedOut \in LiveRec
         /\ t.s.livePools \in Nat /\ t.s.pending \in Nat
         /\ t.s.emittedMin \in Nat /\ t.s.emittedMax \in Nat
         /\ t.s.seenCreated \in BOOLEAN /\ t.s.created \in [min : Nat, max : Nat]
         /\ t.g.idle \in Int /\ t.g.used \in Int /\ t.g.pending \in Int
         /\ t.g.min \in Int /\ t.g.max \in Int
         /\ t.s.ready.total \in Nat /\ t.s.checkedOut.total \in Nat
  BY DEF TrackerRec, StateRec, GaugeRec, LiveRec

\* The sizes: Created and Ready move the size gauges and nothing else.
LEMMA EmitOK ==
  ASSUME NEW t, Sound(t), NEW sz \in [min : Nat, max : Nat]
  PROVE  Sound(Pool!EmitSizes(t, sz)) /\ Alike(t, Pool!EmitSizes(t, sz))
<1>. DEFINE u == Pool!EmitSizes(t, sz)
           a == t.g.min + (sz.min - t.s.emittedMin)
           b == t.g.max + (sz.max - t.s.emittedMax)
<1>1. t \in TrackerRec /\ sz.min \in Nat /\ sz.max \in Nat
  BY DEF Sound
<1>2. a = sz.min /\ b = sz.max /\ a \in Int /\ b \in Int
  BY <1>1, TrackerFields DEF Sound
<1>3. /\ u.s = [t.s EXCEPT !.emittedMin = sz.min, !.emittedMax = sz.max]
      /\ u.g = [t.g EXCEPT !.min = a, !.max = b]
  BY <1>1 DEF Pool!EmitSizes, TrackerRec
<1>. HIDE DEF u, a, b
<1>4. /\ u.s \in StateRec /\ u.s.ready = t.s.ready /\ u.s.checkedOut = t.s.checkedOut
      /\ u.s.livePools = t.s.livePools /\ u.s.pending = t.s.pending
      /\ u.s.emittedMin = sz.min /\ u.s.emittedMax = sz.max
  BY <1>1, <1>3, TrackerFields DEF StateRec
<1>5. /\ u.g \in GaugeRec /\ u.g.idle = t.g.idle /\ u.g.used = t.g.used /\ u.g.pending = t.g.pending
      /\ u.g.min = a /\ u.g.max = b
  BY <1>1, <1>2, <1>3, TrackerFields DEF GaugeRec
<1>6. u \in TrackerRec
  BY <1>1, <1>4, <1>5 DEF TrackerRec, u, Pool!EmitSizes
<1>. QED
  BY <1>2, <1>4, <1>5, <1>6 DEF Sound, Alike, Counted, u

\* The sizes of the last pool again.
LEMMA RestateOK ==
  ASSUME NEW t, Sound(t)
  PROVE  Sound(Pool!RestateOptions(t)) /\ Alike(t, Pool!RestateOptions(t))
<1>1. t.s.created \in [min : Nat, max : Nat]
  BY TrackerFields DEF Sound
<1>. QED
  BY <1>1, EmitOK DEF Pool!RestateOptions, Alike, Counted

\* A pool is counted, and its sizes kept.
LEMMA CreatedOK ==
  ASSUME NEW t, Sound(t), NEW sz \in [min : Nat, max : Nat]
  PROVE  LET u == Pool!SetOptions([t EXCEPT !.s.livePools = @ + 1], sz)
         IN  Sound(u) /\ Counted(u, t.s.ready, t.s.checkedOut, t.s.livePools + 1, t.s.pending, t.g.idle)
<1>. DEFINE v == [t EXCEPT !.s.livePools = @ + 1]
           w == [v EXCEPT !.s.seenCreated = TRUE, !.s.created = sz]
<1>1. t \in TrackerRec
  BY DEF Sound
<1>2. t.s.livePools + 1 \in Nat
  BY <1>1, TrackerFields
<1>3. v.s = [t.s EXCEPT !.livePools = t.s.livePools + 1] /\ v.g = t.g
  BY <1>1 DEF TrackerRec
<1>4. v.s \in StateRec /\ v.g \in GaugeRec
  BY <1>1, <1>2, <1>3, TrackerFields DEF StateRec
<1>5. v \in TrackerRec
  BY <1>1, <1>4 DEF TrackerRec
<1>6. /\ v.s.ready = t.s.ready /\ v.s.checkedOut = t.s.checkedOut /\ v.s.livePools = t.s.livePools + 1
      /\ v.s.pending = t.s.pending /\ v.s.emittedMin = t.s.emittedMin /\ v.s.emittedMax = t.s.emittedMax
  BY <1>1, <1>3, TrackerFields DEF StateRec
<1>. HIDE DEF v
<1>7. w.s = [v.s EXCEPT !.seenCreated = TRUE, !.created = sz] /\ w.g = v.g
  BY <1>5 DEF TrackerRec
<1>. HIDE DEF w
<1>8. /\ w.s \in StateRec /\ w.g \in GaugeRec
      /\ w.s.ready = v.s.ready /\ w.s.checkedOut = v.s.checkedOut /\ w.s.livePools = v.s.livePools
      /\ w.s.pending = v.s.pending /\ w.s.emittedMin = v.s.emittedMin /\ w.s.emittedMax = v.s.emittedMax
  BY <1>5, <1>7, TrackerFields DEF StateRec
<1>9. w \in TrackerRec
  BY <1>5, <1>8 DEF TrackerRec, w
<1>10. Sound(w)
  BY <1>3, <1>6, <1>7, <1>8, <1>9 DEF Sound
<1>11. Counted(w, t.s.ready, t.s.checkedOut, t.s.livePools + 1, t.s.pending, t.g.idle)
  BY <1>3, <1>6, <1>7, <1>8 DEF Counted
<1>. QED
  BY <1>10, <1>11, EmitOK DEF Pool!SetOptions, v, w, Alike, Counted

\* A connection becomes ready.
LEMMA ReadyOK ==
  ASSUME NEW t, Sound(t), NEW n \in IDs
  PROVE  LET u == Pool!ReadyConnection(t, n)
         IN  /\ Sound(u)
             /\ Counted(u, Pool!AddLive(t.s.ready, n), t.s.checkedOut, t.s.livePools, t.s.pending, t.g.idle + 1)
<1>. DEFINE u == Pool!ReadyConnection(t, n)
           l == Pool!AddLive(t.s.ready, n)
           i == t.g.idle + 1
<1>1. t \in TrackerRec
  BY DEF Sound
<1>2. i \in Int /\ LiveOK(l) /\ l \in LiveRec
  BY <1>1, TrackerFields, AddLiveOK DEF Sound, LiveOK
<1>3. /\ u.s = [t.s EXCEPT !.ready = l]
      /\ u.g = [t.g EXCEPT !.idle = i]
  BY <1>1 DEF Pool!ReadyConnection, TrackerRec
<1>. HIDE DEF u, l, i
<1>4. /\ u.s \in StateRec /\ u.s.ready = l /\ u.s.checkedOut = t.s.checkedOut
      /\ u.s.livePools = t.s.livePools /\ u.s.pending = t.s.pending
      /\ u.s.emittedMin = t.s.emittedMin /\ u.s.emittedMax = t.s.emittedMax
  BY <1>1, <1>2, <1>3, TrackerFields DEF StateRec
<1>5. /\ u.g \in GaugeRec /\ u.g.idle = i /\ u.g.used = t.g.used /\ u.g.pending = t.g.pending
      /\ u.g.min = t.g.min /\ u.g.max = t.g.max
  BY <1>1, <1>2, <1>3, TrackerFields DEF GaugeRec
<1>6. u \in TrackerRec
  BY <1>1, <1>4, <1>5 DEF TrackerRec, u, Pool!ReadyConnection
<1>7. Sound(u)
  BY <1>2, <1>4, <1>5, <1>6 DEF Sound
<1>8. Counted(u, Pool!AddLive(t.s.ready, n), t.s.checkedOut, t.s.livePools, t.s.pending, t.g.idle + 1)
  BY <1>4, <1>5 DEF Counted, l, i
<1>. QED
  BY <1>7, <1>8 DEF u

\* A connection is checked out.
LEMMA CheckOutOK ==
  ASSUME NEW t, Sound(t), NEW n \in IDs
  PROVE  LET u == Pool!CheckOutConnection(t, n)
         IN  /\ Sound(u)
             /\ Counted(u, t.s.ready, Pool!AddLive(t.s.checkedOut, n), t.s.livePools, t.s.pending,
                        IF t.s.ready.total > t.s.checkedOut.total THEN t.g.idle - 1 ELSE t.g.idle)
<1>. DEFINE u == Pool!CheckOutConnection(t, n)
           l == Pool!AddLive(t.s.checkedOut, n)
           x == t.g.used + 1
           i == IF t.s.ready.total > t.s.checkedOut.total THEN t.g.idle - 1 ELSE t.g.idle
<1>1. t \in TrackerRec
  BY DEF Sound
<1>2. i \in Int /\ x \in Int /\ LiveOK(l) /\ l \in LiveRec /\ x = l.total
  BY <1>1, TrackerFields, AddLiveOK DEF Sound, LiveOK
<1>3. /\ u.s = [t.s EXCEPT !.checkedOut = l]
      /\ u.g = [t.g EXCEPT !.used = x, !.idle = i]
  BY <1>1 DEF Pool!CheckOutConnection, TrackerRec
<1>. HIDE DEF u, l, x, i
<1>4. /\ u.s \in StateRec /\ u.s.ready = t.s.ready /\ u.s.checkedOut = l
      /\ u.s.livePools = t.s.livePools /\ u.s.pending = t.s.pending
      /\ u.s.emittedMin = t.s.emittedMin /\ u.s.emittedMax = t.s.emittedMax
  BY <1>1, <1>2, <1>3, TrackerFields DEF StateRec
<1>5. /\ u.g \in GaugeRec /\ u.g.idle = i /\ u.g.used = x /\ u.g.pending = t.g.pending
      /\ u.g.min = t.g.min /\ u.g.max = t.g.max
  BY <1>1, <1>2, <1>3, TrackerFields DEF GaugeRec
<1>6. u \in TrackerRec
  BY <1>1, <1>4, <1>5 DEF TrackerRec, u, Pool!CheckOutConnection
<1>7. Sound(u)
  BY <1>2, <1>4, <1>5, <1>6 DEF Sound
<1>8. Counted(u, t.s.ready, Pool!AddLive(t.s.checkedOut, n), t.s.livePools, t.s.pending,
                        IF t.s.ready.total > t.s.checkedOut.total THEN t.g.idle - 1 ELSE t.g.idle)
  BY <1>4, <1>5 DEF Counted, l, i
<1>. QED
  BY <1>7, <1>8 DEF u

\* A connection that was counted as checked out is checked in.
LEMMA CheckInOK ==
  ASSUME NEW t, Sound(t), NEW n \in IDs, Pool!HasLive(t.s.checkedOut, n)
  PROVE  LET u == Pool!CheckInConnection(t, n)
         IN  /\ Sound(u)
             /\ Counted(u, t.s.ready, Pool!RemoveLive(t.s.checkedOut, n), t.s.livePools, t.s.pending, t.g.idle + 1)
<1>. DEFINE u == Pool!CheckInConnection(t, n)
           l == Pool!RemoveLive(t.s.checkedOut, n)
           x == t.g.used - 1
           i == t.g.idle + 1
<1>1. t \in TrackerRec
  BY DEF Sound
<1>2. i \in Int /\ x \in Int /\ LiveOK(l) /\ l \in LiveRec /\ x = l.total
  BY <1>1, TrackerFields, RemoveLiveOK DEF Sound, LiveOK
<1>3. /\ u.s = [t.s EXCEPT !.checkedOut = l]
      /\ u.g = [t.g EXCEPT !.used = x, !.idle = i]
  BY <1>1 DEF Pool!CheckInConnection, TrackerRec
<1>. HIDE DEF u, l, x, i
<1>4. /\ u.s \in StateRec /\ u.s.ready = t.s.ready /\ u.s.checkedOut = l
      /\ u.s.livePools = t.s.livePools /\ u.s.pending = t.s.pending
      /\ u.s.emittedMin = t.s.emittedMin /\ u.s.emittedMax = t.s.emittedMax
  BY <1>1, <1>2, <1>3, TrackerFields DEF StateRec
<1>5. /\ u.g \in GaugeRec /\ u.g.idle = i /\ u.g.used = x /\ u.g.pending = t.g.pending
      /\ u.g.min = t.g.min /\ u.g.max = t.g.max
  BY <1>1, <1>2, <1>3, TrackerFields DEF GaugeRec
<1>6. u \in TrackerRec
  BY <1>1, <1>4, <1>5 DEF TrackerRec, u, Pool!CheckInConnection
<1>7. Sound(u)
  BY <1>2, <1>4, <1>5, <1>6 DEF Sound
<1>8. Counted(u, t.s.ready, Pool!RemoveLive(t.s.checkedOut, n), t.s.livePools, t.s.pending, t.g.idle + 1)
  BY <1>4, <1>5 DEF Counted, l, i
<1>. QED
  BY <1>7, <1>8 DEF u

\* A connection in use is closed, and one that is idle.
LEMMA CloseUsedOK ==
  ASSUME NEW t, Sound(t), NEW n \in IDs, Pool!HasLive(t.s.ready, n), Pool!HasLive(t.s.checkedOut, n)
  PROVE  LET u == Pool!CloseConnection(t, n)
         IN  Sound(u) /\ Counted(u, Pool!RemoveLive(t.s.ready, n), Pool!RemoveLive(t.s.checkedOut, n), t.s.livePools,
                        t.s.pending, t.g.idle)
<1>. DEFINE u == Pool!CloseConnection(t, n)
           l == Pool!RemoveLive(t.s.ready, n)
           k == Pool!RemoveLive(t.s.checkedOut, n)
           x == t.g.used - 1
<1>1. t \in TrackerRec
  BY DEF Sound
<1>2. /\ LiveOK(l) /\ l \in LiveRec /\ LiveOK(k) /\ k \in LiveRec
      /\ x \in Int /\ x = k.total
  BY <1>1, TrackerFields, RemoveLiveOK DEF Sound, LiveOK
<1>3. /\ u.s = [t.s EXCEPT !.ready = l, !.checkedOut = k]
      /\ u.g = [t.g EXCEPT !.used = x]
  BY <1>1 DEF Pool!CloseConnection, TrackerRec
<1>. HIDE DEF u, l, k, x
<1>4. /\ u.s \in StateRec /\ u.s.ready = l /\ u.s.checkedOut = k
      /\ u.s.livePools = t.s.livePools /\ u.s.pending = t.s.pending
      /\ u.s.emittedMin = t.s.emittedMin /\ u.s.emittedMax = t.s.emittedMax
  BY <1>1, <1>2, <1>3, TrackerFields DEF StateRec
<1>5. /\ u.g \in GaugeRec /\ u.g.idle = t.g.idle /\ u.g.used = x /\ u.g.pending = t.g.pending
      /\ u.g.min = t.g.min /\ u.g.max = t.g.max
  BY <1>1, <1>2, <1>3, TrackerFields DEF GaugeRec
<1>6. u \in TrackerRec
  BY <1>1, <1>4, <1>5 DEF TrackerRec, u, Pool!CloseConnection
<1>7. Sound(u)
  BY <1>2, <1>4, <1>5, <1>6 DEF Sound
<1>8. Counted(u, Pool!RemoveLive(t.s.ready, n), Pool!RemoveLive(t.s.checkedOut, n), t.s.livePools,
                        t.s.pending, t.g.idle)
  BY <1>4, <1>5 DEF Counted, l, k, x
<1>. QED
  BY <1>7, <1>8 DEF u

\* An idle one.
LEMMA CloseIdleOK ==
  ASSUME NEW t, Sound(t), NEW n \in IDs, Pool!HasLive(t.s.ready, n), ~Pool!HasLive(t.s.checkedOut, n)
  PROVE  LET u == Pool!CloseConnection(t, n)
         IN  Sound(u) /\ Counted(u, Pool!RemoveLive(t.s.ready, n), t.s.checkedOut, t.s.livePools, t.s.pending,
                        t.g.idle - 1)
<1>. DEFINE u == Pool!CloseConnection(t, n)
           l == Pool!RemoveLive(t.s.ready, n)
           i == t.g.idle - 1
<1>1. t \in TrackerRec
  BY DEF Sound
<1>2. LiveOK(l) /\ l \in LiveRec /\ i \in Int
  BY <1>1, TrackerFields, RemoveLiveOK DEF Sound, LiveOK
<1>3. /\ u.s = [t.s EXCEPT !.ready = l]
      /\ u.g = [t.g EXCEPT !.idle = i]
  BY <1>1 DEF Pool!CloseConnection, TrackerRec
<1>. HIDE DEF u, l, i
<1>4. /\ u.s \in StateRec /\ u.s.ready = l /\ u.s.checkedOut = t.s.checkedOut
      /\ u.s.livePools = t.s.livePools /\ u.s.pending = t.s.pending
      /\ u.s.emittedMin = t.s.emittedMin /\ u.s.emittedMax = t.s.emittedMax
  BY <1>1, <1>2, <1>3, TrackerFields DEF StateRec
<1>5. /\ u.g \in GaugeRec /\ u.g.idle = i /\ u.g.used = t.g.used /\ u.g.pending = t.g.pending
      /\ u.g.min = t.g.min /\ u.g.max = t.g.max
  BY <1>1, <1>2, <1>3, TrackerFields DEF GaugeRec
<1>6. u \in TrackerRec
  BY <1>1, <1>4, <1>5 DEF TrackerRec, u, Pool!CloseConnection
<1>7. Sound(u)
  BY <1>2, <1>4, <1>5, <1>6 DEF Sound
<1>8. Counted(u, Pool!RemoveLive(t.s.ready, n), t.s.checkedOut, t.s.livePools, t.s.pending,
                        t.g.idle - 1)
  BY <1>4, <1>5 DEF Counted, l, i
<1>. QED
  BY <1>7, <1>8 DEF u

\* A checkout starts to wait, and one has waited.
LEMMA StartOK ==
  ASSUME NEW t, Sound(t)
  PROVE  LET u == Pool!StartPending(t)
         IN  Sound(u) /\ Counted(u, t.s.ready, t.s.checkedOut, t.s.livePools, t.s.pending + 1, t.g.idle)
<1>. DEFINE u == Pool!StartPending(t)
           k == t.s.pending + 1
           i == t.g.pending + 1
<1>1. t \in TrackerRec
  BY DEF Sound
<1>2. k \in Nat /\ i \in Int /\ i = k
  BY <1>1, TrackerFields DEF Sound
<1>3. /\ u.s = [t.s EXCEPT !.pending = k]
      /\ u.g = [t.g EXCEPT !.pending = i]
  BY <1>1 DEF Pool!StartPending, TrackerRec
<1>. HIDE DEF u, k, i
<1>4. /\ u.s \in StateRec /\ u.s.ready = t.s.ready /\ u.s.checkedOut = t.s.checkedOut
      /\ u.s.livePools = t.s.livePools /\ u.s.pending = k
      /\ u.s.emittedMin = t.s.emittedMin /\ u.s.emittedMax = t.s.emittedMax
  BY <1>1, <1>2, <1>3, TrackerFields DEF StateRec
<1>5. /\ u.g \in GaugeRec /\ u.g.idle = t.g.idle /\ u.g.used = t.g.used /\ u.g.pending = i
      /\ u.g.min = t.g.min /\ u.g.max = t.g.max
  BY <1>1, <1>2, <1>3, TrackerFields DEF GaugeRec
<1>6. u \in TrackerRec
  BY <1>1, <1>4, <1>5 DEF TrackerRec, u, Pool!StartPending
<1>7. Sound(u)
  BY <1>2, <1>4, <1>5, <1>6 DEF Sound
<1>8. Counted(u, t.s.ready, t.s.checkedOut, t.s.livePools, t.s.pending + 1, t.g.idle)
  BY <1>4, <1>5 DEF Counted, k, i
<1>. QED
  BY <1>7, <1>8 DEF u

\* One of those that wait, if there is one.
LEMMA DecrementOK ==
  ASSUME NEW t, Sound(t), t.s.pending # 0
  PROVE  LET u == Pool!DecrementPending(t)
         IN  Sound(u) /\ Counted(u, t.s.ready, t.s.checkedOut, t.s.livePools, t.s.pending - 1, t.g.idle)
<1>. DEFINE u == Pool!DecrementPending(t)
           k == t.s.pending - 1
           i == t.g.pending - 1
<1>1. t \in TrackerRec
  BY DEF Sound
<1>2. k \in Nat /\ i \in Int /\ i = k
  BY <1>1, TrackerFields DEF Sound
<1>3. /\ u.s = [t.s EXCEPT !.pending = k]
      /\ u.g = [t.g EXCEPT !.pending = i]
  BY <1>1 DEF Pool!DecrementPending, TrackerRec
<1>. HIDE DEF u, k, i
<1>4. /\ u.s \in StateRec /\ u.s.ready = t.s.ready /\ u.s.checkedOut = t.s.checkedOut
      /\ u.s.livePools = t.s.livePools /\ u.s.pending = k
      /\ u.s.emittedMin = t.s.emittedMin /\ u.s.emittedMax = t.s.emittedMax
  BY <1>1, <1>2, <1>3, TrackerFields DEF StateRec
<1>5. /\ u.g \in GaugeRec /\ u.g.idle = t.g.idle /\ u.g.used = t.g.used /\ u.g.pending = i
      /\ u.g.min = t.g.min /\ u.g.max = t.g.max
  BY <1>1, <1>2, <1>3, TrackerFields DEF GaugeRec
<1>6. u \in TrackerRec
  BY <1>1, <1>4, <1>5 DEF TrackerRec, u, Pool!DecrementPending
<1>7. Sound(u)
  BY <1>2, <1>4, <1>5, <1>6 DEF Sound
<1>8. Counted(u, t.s.ready, t.s.checkedOut, t.s.livePools, t.s.pending - 1, t.g.idle)
  BY <1>4, <1>5 DEF Counted, k, i
<1>. QED
  BY <1>7, <1>8 DEF u

\* A pool closes beside others.
LEMMA NotLastOK ==
  ASSUME NEW t, Sound(t), t.s.livePools > 1
  PROVE  LET u == Pool!PoolClosed(t)
         IN  Sound(u) /\ Counted(u, t.s.ready, t.s.checkedOut, t.s.livePools - 1, t.s.pending, t.g.idle)
<1>. DEFINE u == Pool!PoolClosed(t)
           v == [t EXCEPT !.s.livePools = IF @ > 0 THEN @ - 1 ELSE @]
           k == t.s.livePools - 1
<1>1. t \in TrackerRec
  BY DEF Sound
<1>2. k \in Nat /\ k # 0 /\ t.s.livePools > 0
  BY <1>1, TrackerFields
<1>3. /\ v.s = [t.s EXCEPT !.livePools = k] /\ v.g = t.g
  BY <1>1, <1>2 DEF TrackerRec
<1>. HIDE DEF v, k
<1>4. /\ v.s \in StateRec /\ v.s.ready = t.s.ready /\ v.s.checkedOut = t.s.checkedOut
      /\ v.s.livePools = k /\ v.s.pending = t.s.pending
      /\ v.s.emittedMin = t.s.emittedMin /\ v.s.emittedMax = t.s.emittedMax
  BY <1>1, <1>2, <1>3, TrackerFields DEF StateRec
<1>5. v \in TrackerRec
  BY <1>1, <1>3, <1>4, TrackerFields DEF TrackerRec, v
<1>6. u = v
  BY <1>2, <1>4 DEF Pool!PoolClosed, v
<1>7. Sound(v)
  BY <1>3, <1>4, <1>5 DEF Sound
<1>8. Counted(v, t.s.ready, t.s.checkedOut, t.s.livePools - 1, t.s.pending, t.g.idle)
  BY <1>3, <1>4 DEF Counted, k
<1>. QED
  BY <1>6, <1>7, <1>8

\* The last one takes everything with it.
LEMMA LastOK ==
  ASSUME NEW t, Sound(t), t.s.livePools = 1
  PROVE  LET u == Pool!PoolClosed(t)
         IN  /\ u.s = Pool!None /\ u.g \in GaugeRec
             /\ u.g.used = 0 /\ u.g.pending = 0 /\ u.g.min = 0 /\ u.g.max = 0
             /\ t.g.idle = t.s.ready.total - t.s.checkedOut.total /\ t.g.idle >= 0 => u.g.idle = 0
<1>. DEFINE u == Pool!PoolClosed(t)
           v == [t EXCEPT !.s.livePools = IF @ > 0 THEN @ - 1 ELSE @]
           w == Pool!ClosePool(v)
           d == t.s.ready.total - t.s.checkedOut.total
           i == IF d > 0 THEN t.g.idle - d ELSE t.g.idle
<1>1. t \in TrackerRec
  BY DEF Sound
<1>2. i \in Int /\ (t.g.idle = d /\ t.g.idle >= 0 => i = 0)
  BY <1>1, TrackerFields
<1>3. /\ v.s = [t.s EXCEPT !.livePools = 0] /\ v.g = t.g
  BY <1>1 DEF TrackerRec
<1>. HIDE DEF v
<1>4. /\ v.s \in StateRec /\ v.s.ready = t.s.ready /\ v.s.checkedOut = t.s.checkedOut
      /\ v.s.livePools = 0 /\ v.s.pending = t.s.pending
      /\ v.s.emittedMin = t.s.emittedMin /\ v.s.emittedMax = t.s.emittedMax
  BY <1>1, <1>3, TrackerFields DEF StateRec
<1>5. v \in TrackerRec
  BY <1>1, <1>3, <1>4, TrackerFields DEF TrackerRec, v
<1>6. u = [w EXCEPT !.s = Pool!None]
  BY <1>4 DEF Pool!PoolClosed, v
<1>7. w.g = [v.g EXCEPT !.used = @ - v.s.checkedOut.total, !.idle = i, !.pending = @ - v.s.pending,
                       !.min = @ - v.s.emittedMin, !.max = @ - v.s.emittedMax]
  BY <1>3, <1>4, <1>5 DEF Pool!ClosePool, TrackerRec
<1>8. w \in [s : StateRec, g : {w.g}]
  BY <1>5 DEF Pool!ClosePool, TrackerRec
<1>. HIDE DEF u, w, i
<1>9. u.s = Pool!None /\ u.g = w.g
  BY <1>6, <1>8
<1>10. /\ t.g.used - t.s.checkedOut.total = 0 /\ t.g.pending - t.s.pending = 0
       /\ t.g.min - t.s.emittedMin = 0 /\ t.g.max - t.s.emittedMax = 0
  BY <1>1, TrackerFields DEF Sound
<1>11. w.g = [t.g EXCEPT !.used = 0, !.idle = i, !.pending = 0, !.min = 0, !.max = 0]
  BY <1>1, <1>3, <1>4, <1>7, <1>10, TrackerFields DEF GaugeRec
<1>12. t.g \in GaugeRec /\ i \in Int
  BY <1>1, <1>2, TrackerFields
<1>13. /\ w.g \in GaugeRec /\ w.g.used = 0 /\ w.g.pending = 0
       /\ w.g.min = 0 /\ w.g.max = 0 /\ w.g.idle = i
  <2>1. PICK z \in Int, g \in GaugeRec, j \in Int : z = 0 /\ g = t.g /\ j = i
    BY <1>12
  <2>0. PICK h : h = w.g
    OBVIOUS
  <2>2. h = [g EXCEPT !.used = z, !.idle = j, !.pending = z, !.min = z, !.max = z]
    BY <1>11, <2>0, <2>1
  <2>3. h \in GaugeRec /\ h.idle = j /\ h.used = z /\ h.pending = z /\ h.min = z /\ h.max = z
    BY <2>2 DEF GaugeRec
  <2>. QED
    BY <2>0, <2>1, <2>3
<1>. QED
  BY <1>2, <1>9, <1>13 DEF u

-----------------------------------------------------------------------------
Drained(q) == waiting[q] = 0 /\ \A n \in IDs : conn[q][n] \in {"none", "gone"}

DriverTypes ==
  /\ pool \in [Pools -> {"new", "open", "closed"}]
  /\ conn \in [Pools -> [IDs -> {"none", "created", "ready", "out", "gone"}]]
  /\ waiting \in [Pools -> Nat]

\* A pool that is not open yet has nothing; for one client at most one pool is open,
\* and the others have nothing any more.
DriverInv ==
  /\ \A p \in Pools : pool[p] = "new" => waiting[p] = 0 /\ \A n \in IDs : conn[p][n] = "none"
  /\ ~shared => \A p, q \in Pools : pool[p] = "open" /\ q # p => pool[q] # "open" /\ Drained(q)

DriverFinite == IsFiniteSet(Pool!OpenPools) /\ IsFiniteSet(Pool!Checkouts)

Cur == Pool!StateOf(Pool!Tracker)

GaugesOK ==
  /\ gauge \in GaugeRec
  /\ gauge.used >= 0 /\ gauge.pending >= 0 /\ gauge.min >= 0 /\ gauge.max >= 0

Tracks ==
  ~disabled =>
    /\ state = Pool!None \/ state \in StateRec
    /\ Sound(Cur)
    /\ Cur.s.livePools = Cardinality(Pool!OpenPools)
    /\ Pool!OpenPools # {} => Cur.s.pending = Cardinality(Pool!Checkouts)
    /\ Pool!OpenPools = {} => Cur.s = Pool!NewState

Holds(l, p, C) == \A n \in IDs : l.byID[n] = IF conn[p][n] \in C THEN 1 ELSE 0

Alone ==
  ~disabled /\ ~shared =>
    /\ IsFiniteSet(Pool!InState("ready")) /\ IsFiniteSet(Pool!InState("out"))
    /\ gauge.idle = Cardinality(Pool!InState("ready"))
    /\ gauge.used = Cardinality(Pool!InState("out"))
    /\ gauge.idle = Cur.s.ready.total - Cur.s.checkedOut.total
    /\ \A p \in Pool!OpenPools :
         Holds(Cur.s.ready, p, {"ready", "out"}) /\ Holds(Cur.s.checkedOut, p, {"out"})

PoolInv == DriverTypes /\ DriverInv /\ DriverFinite /\ GaugesOK /\ Tracks /\ Alone

\* The tracker with the state of its address.
LEMMA CurIs ==
  ASSUME state = Pool!None \/ state \in StateRec, gauge \in GaugeRec
  PROVE  /\ Cur = [s |-> IF state = Pool!None THEN Pool!NewState ELSE state, g |-> gauge]
         /\ Cur \in TrackerRec /\ Cur.g = gauge
         /\ Cur.s = IF state = Pool!None THEN Pool!NewState ELSE state
<1>1. Cur = [s |-> IF state = Pool!None THEN Pool!NewState ELSE state, g |-> gauge]
  BY DEF Cur, Pool!StateOf, Pool!Tracker
<1>. QED
  BY <1>1, NewStateOK DEF TrackerRec

\* What handle makes of it.
LEMMA CurNext ==
  ASSUME NEW u, Sound(u), state' = u.s, gauge' = u.g
  PROVE  state' \in StateRec /\ Cur' = u /\ GaugesOK'
<1>1. u \in TrackerRec /\ u.s \in StateRec /\ u.g \in GaugeRec
  BY TrackerFields DEF Sound
<1>2. Cur' = [s |-> IF state' = Pool!None THEN Pool!NewState ELSE state', g |-> gauge']
  BY DEF Cur, Pool!StateOf, Pool!Tracker
<1>3. state' # Pool!None
  BY <1>1, NotNone
<1>4. u = [s |-> u.s, g |-> u.g]
  BY <1>1 DEF TrackerRec
<1>5. Cur' = u
  BY <1>2, <1>3, <1>4
<1>6. u.g.used >= 0 /\ u.g.pending >= 0 /\ u.g.min >= 0 /\ u.g.max >= 0
  BY <1>1, TrackerFields DEF Sound
<1>. QED
  BY <1>1, <1>5, <1>6 DEF GaugesOK

\* The state of an address no pool is open at.
LEMMA NewCur ==
  ASSUME state = Pool!None, gauge \in GaugeRec,
         gauge.used = 0 /\ gauge.pending = 0 /\ gauge.min = 0 /\ gauge.max = 0
  PROVE  Sound(Cur) /\ Cur.s = Pool!NewState /\ Cur.g = gauge /\ GaugesOK
<1>1. Cur \in TrackerRec /\ Cur.g = gauge /\ Cur.s = Pool!NewState
  BY CurIs
<1>2. /\ Pool!NewState.ready = Pool!NoneLive /\ Pool!NewState.checkedOut = Pool!NoneLive
      /\ Pool!NewState.pending = 0 /\ Pool!NewState.emittedMin = 0 /\ Pool!NewState.emittedMax = 0
  BY DEF Pool!NewState
<1>. QED
  BY <1>1, <1>2, NoneLiveOK DEF Sound, GaugesOK

\* The same of the next state.
LEMMA NextNewCur ==
  ASSUME state' = Pool!None, gauge' \in GaugeRec,
         gauge'.used = 0 /\ gauge'.pending = 0 /\ gauge'.min = 0 /\ gauge'.max = 0
  PROVE  Sound(Cur') /\ Cur'.s = Pool!NewState /\ Cur'.g = gauge' /\ GaugesOK'
<1>0. Cur' = [s |-> Pool!NewState, g |-> gauge']
  BY DEF Cur, Pool!StateOf, Pool!Tracker
<1>1. Cur' \in TrackerRec /\ Cur'.g = gauge' /\ Cur'.s = Pool!NewState
  BY <1>0, NewStateOK DEF TrackerRec
<1>2. /\ Pool!NewState.ready = Pool!NoneLive /\ Pool!NewState.checkedOut = Pool!NoneLive
      /\ Pool!NewState.pending = 0 /\ Pool!NewState.emittedMin = 0 /\ Pool!NewState.emittedMax = 0
  BY DEF Pool!NewState
<1>. QED
  BY <1>1, <1>2, NoneLiveOK DEF Sound, GaugesOK

\* Nothing has happened yet.
LEMMA PoolInit == Pool!Init => PoolInv
<1>. SUFFICES ASSUME Pool!Init PROVE PoolInv
  OBVIOUS
<1>1. DriverTypes /\ DriverInv
  BY DEF Pool!Init, DriverTypes, DriverInv
<1>2. Pool!OpenPools = {} /\ \A c : Pool!InState(c) = {}
  BY DEF Pool!Init, Pool!OpenPools, Pool!InState
<1>3. Pool!Checkouts = Slots(waiting, Pools) /\ \A p \in Pools : waiting[p] = 0
  BY DEF Pool!Init, Pool!Checkouts, Slots
<1>4. DriverFinite
  BY <1>2, <1>3, SlotsNone, FS_EmptySet DEF DriverFinite
<1>5. /\ state = Pool!None /\ gauge \in GaugeRec /\ gauge.used = 0 /\ gauge.pending = 0
      /\ gauge.min = 0 /\ gauge.max = 0 /\ gauge.idle = 0
  BY DEF Pool!Init, GaugeRec
<1>6. Sound(Cur) /\ Cur.s = Pool!NewState /\ GaugesOK
  BY <1>5, NewCur
<1>7. /\ Pool!NewState.ready = Pool!NoneLive /\ Pool!NewState.checkedOut = Pool!NoneLive
      /\ Pool!NewState.livePools = 0
  BY DEF Pool!NewState
<1>8. Tracks
  BY <1>2, <1>5, <1>6, <1>7, FS_EmptySet DEF Tracks
<1>9. Alone
  BY <1>2, <1>5, <1>6, <1>7, NoneLiveOK, FS_EmptySet DEF Alone
<1>. QED
  BY <1>1, <1>4, <1>6, <1>8, <1>9 DEF PoolInv

-----------------------------------------------------------------------------
\* The checkouts as slots.
LEMMA CheckoutSlots == Pool!Checkouts = Slots(waiting, Pools)
  BY DEF Pool!Checkouts, Slots

\* One more pool is open.
LEMMA OpenOne ==
  ASSUME DriverTypes, NEW p \in Pools, pool[p] # "open", pool' = [pool EXCEPT ![p] = "open"]
  PROVE  Pool!OpenPools' = Pool!OpenPools \cup {p} /\ p \notin Pool!OpenPools
  BY DEF DriverTypes, Pool!OpenPools

\* One of them closes.
LEMMA CloseOne ==
  ASSUME DriverTypes, NEW p \in Pools, pool[p] = "open", pool' = [pool EXCEPT ![p] = "closed"]
  PROVE  Pool!OpenPools' = Pool!OpenPools \ {p} /\ p \in Pool!OpenPools
  BY DEF DriverTypes, Pool!OpenPools

\* A checkout more.
LEMMA WaitUp ==
  ASSUME DriverTypes, IsFiniteSet(Pool!Checkouts), NEW p \in Pools, waiting' = [waiting EXCEPT ![p] = @ + 1]
  PROVE  IsFiniteSet(Pool!Checkouts') /\ Cardinality(Pool!Checkouts') = Cardinality(Pool!Checkouts) + 1
<1>1. Pool!Checkouts' = Slots(waiting', Pools) /\ Pool!Checkouts = Slots(waiting, Pools)
  BY DEF Pool!Checkouts, Slots
<1>. QED
  BY <1>1, SlotsUp DEF DriverTypes

\* A checkout has waited.
LEMMA WaitDown ==
  ASSUME DriverTypes, IsFiniteSet(Pool!Checkouts), NEW p \in Pools, waiting[p] > 0,
         waiting' = [waiting EXCEPT ![p] = @ - 1]
  PROVE  /\ IsFiniteSet(Pool!Checkouts') /\ Cardinality(Pool!Checkouts') = Cardinality(Pool!Checkouts) - 1
         /\ Cardinality(Pool!Checkouts') \in Nat
<1>1. Pool!Checkouts' = Slots(waiting', Pools) /\ Pool!Checkouts = Slots(waiting, Pools)
  BY DEF Pool!Checkouts, Slots
<1>. QED
  BY <1>1, SlotsDown DEF DriverTypes

\* An event of a connection.
LEMMA ConnEdit ==
  ASSUME DriverTypes, NEW p \in Pools, NEW n \in IDs,
         NEW c \in {"none", "created", "ready", "out", "gone"}, conn' = [conn EXCEPT ![p][n] = c]
  PROVE  /\ conn' \in [Pools -> [IDs -> {"none", "created", "ready", "out", "gone"}]]
         /\ conn'[p][n] = c /\ \A m \in IDs \ {n} : conn'[p][m] = conn[p][m]
         /\ \A q \in Pools \ {p} : conn'[q] = conn[q]
  BY DEF DriverTypes

\* Events of one pool, which is open or has events to come.
LEMMA OnePoolMoves ==
  ASSUME DriverTypes, DriverInv, NEW p \in Pools, UNCHANGED <<pool, shared>>,
         pool[p] = "open" \/ (pool[p] = "closed" /\ ~Drained(p)),
         \A q \in Pools \ {p} : conn'[q] = conn[q] /\ waiting'[q] = waiting[q]
  PROVE  DriverInv'
<1>1. \A q \in Pools \ {p} : Drained(q) => Drained(q)'
  BY DEF Drained
<1>2. \A q \in Pools : pool'[q] = "new" => waiting'[q] = 0 /\ \A n \in IDs : conn'[q][n] = "none"
  BY DEF DriverInv
<1>3. ASSUME ~shared, NEW o, NEW q, o \in Pools, q \in Pools, pool[o] = "open", q # o
      PROVE  pool[q] # "open" /\ Drained(q)'
  <2>1. pool[q] # "open" /\ Drained(q)
    BY <1>3 DEF DriverInv
  <2>2. q # p
    BY <1>3, <2>1 DEF DriverInv
  <2>. QED
    BY <1>1, <1>3, <2>1, <2>2
<1>. QED
  BY <1>2, <1>3 DEF DriverInv

\* What the driver does keeps its part of the invariant, tracked or not.
LEMMA DriverStep ==
  ASSUME DriverTypes, DriverInv, DriverFinite, [Pool!Next]_Pool!vars
  PROVE  DriverTypes' /\ DriverInv' /\ DriverFinite'
<1>. DEFINE Kept == DriverTypes' /\ DriverInv' /\ DriverFinite'
<1>1. ASSUME NEW p \in Pools, NEW sz, Pool!Created(p, sz) PROVE Kept
  <2>1. /\ Pool!MayOpen(p) /\ pool' = [pool EXCEPT ![p] = "open"] /\ UNCHANGED <<conn, waiting, shared>>
        /\ pool[p] = "new"
    BY <1>1 DEF Pool!Created, Pool!Handle, Pool!MayOpen
  <2>2. DriverTypes' /\ pool'[p] = "open" /\ \A q \in Pools \ {p} : pool'[q] = pool[q]
    BY <2>1 DEF DriverTypes
  <2>3. \A q : Drained(q)' <=> Drained(q)
    BY <2>1 DEF Drained
  <2>4. ASSUME ~shared PROVE \A q \in Pools \ {p} : pool[q] # "open" /\ Drained(q)
    <3>1. \A q \in Pools : pool[q] # "open"
      BY <2>1, <2>4 DEF Pool!MayOpen
    <3>. QED
      BY <2>1, <2>4, <3>1 DEF Pool!MayOpen, Drained, DriverInv
  <2>5. DriverInv'
    <3>1. \A q \in Pools : pool'[q] = "new" => pool[q] = "new"
      BY <2>1, <2>2
    <3>2. ~shared => \A o, q \in Pools : pool'[o] = "open" /\ q # o => pool'[q] # "open" /\ Drained(q)'
      BY <2>2, <2>3, <2>4
    <3>. QED
      BY <2>1, <3>1, <3>2 DEF DriverInv
  <2>6. DriverFinite'
    <3>1. Pool!OpenPools' = Pool!OpenPools \cup {p}
      BY <2>1, OpenOne
    <3>2. Pool!Checkouts' = Pool!Checkouts
      BY <2>1 DEF Pool!Checkouts
    <3>. QED
      BY <3>1, <3>2, FS_AddElement DEF DriverFinite
  <2>. QED
    BY <2>2, <2>5, <2>6
<1>2. ASSUME NEW p \in Pools, Pool!Closed(p) PROVE Kept
  <2>1. /\ pool' = [pool EXCEPT ![p] = "closed"] /\ UNCHANGED <<conn, waiting, shared>>
        /\ pool[p] = "open"
    BY <1>2 DEF Pool!Closed, Pool!Handle
  <2>2. DriverTypes' /\ pool'[p] = "closed" /\ \A q \in Pools \ {p} : pool'[q] = pool[q]
    BY <2>1 DEF DriverTypes
  <2>3. \A q : Drained(q)' <=> Drained(q)
    BY <2>1 DEF Drained
  <2>4. DriverInv'
    <3>1. \A q \in Pools : pool'[q] = "new" => pool[q] = "new"
      BY <2>1, <2>2
    <3>2. ~shared => \A o \in Pools : pool'[o] # "open"
      BY <2>1, <2>2 DEF DriverInv
    <3>. QED
      BY <2>1, <3>1, <3>2 DEF DriverInv
  <2>5. DriverFinite'
    <3>1. Pool!OpenPools' = Pool!OpenPools \ {p}
      BY <2>1, CloseOne
    <3>2. Pool!Checkouts' = Pool!Checkouts
      BY <2>1 DEF Pool!Checkouts
    <3>. QED
      BY <3>1, <3>2, FS_RemoveElement DEF DriverFinite
  <2>. QED
    BY <2>2, <2>4, <2>5
<1>3. ASSUME UNCHANGED <<pool, conn, waiting, shared>> PROVE Kept
  BY <1>3 DEF DriverTypes, DriverInv, DriverFinite, Drained, Pool!OpenPools, Pool!Checkouts
<1>4. ASSUME NEW p \in Pools, NEW n \in IDs, Pool!ConnectionStep(p, n) PROVE Kept
  <2>1. PICK c \in {"none", "created", "ready", "out", "gone"} : conn' = [conn EXCEPT ![p][n] = c]
    BY <1>4 DEF Pool!ConnectionStep, Pool!ConnectionCreated, Pool!ConnectionReady, Pool!ConnectionClosed,
                Pool!CheckedOut, Pool!CheckedIn
  <2>2. /\ UNCHANGED <<pool, shared>>
        /\ pool[p] = "open" \/ conn[p][n] \in {"created", "ready", "out"}
        /\ waiting' = waiting \/ (waiting[p] > 0 /\ waiting' = [waiting EXCEPT ![p] = @ - 1])
    BY <1>4 DEF Pool!ConnectionStep, Pool!ConnectionCreated, Pool!ConnectionReady, Pool!ConnectionClosed,
                Pool!CheckedOut, Pool!CheckedIn, Pool!Handle
  <2>3. pool[p] = "open" \/ (pool[p] = "closed" /\ ~Drained(p))
    BY <2>2 DEF DriverTypes, DriverInv, Drained
  <2>4. /\ conn' \in [Pools -> [IDs -> {"none", "created", "ready", "out", "gone"}]]
        /\ \A q \in Pools \ {p} : conn'[q] = conn[q]
    BY <2>1, ConnEdit
  <2>5. /\ waiting' \in [Pools -> Nat] /\ \A q \in Pools \ {p} : waiting'[q] = waiting[q]
    BY <2>2 DEF DriverTypes
  <2>6. DriverTypes' /\ DriverInv'
    BY <2>2, <2>3, <2>4, <2>5, OnePoolMoves DEF DriverTypes
  <2>7. Pool!OpenPools' = Pool!OpenPools /\ (waiting' = waiting => Pool!Checkouts' = Pool!Checkouts)
    BY <2>2 DEF Pool!OpenPools, Pool!Checkouts
  <2>8. DriverFinite'
    BY <2>2, <2>7, WaitDown DEF DriverFinite
  <2>. QED
    BY <2>6, <2>8
<1>5. ASSUME NEW p \in Pools, Pool!CheckOutStarted(p) \/ Pool!CheckOutFailed(p) PROVE Kept
  <2>1. /\ UNCHANGED <<pool, conn, shared>>
        /\ \/ pool[p] = "open" /\ waiting' = [waiting EXCEPT ![p] = @ + 1]
           \/ waiting[p] > 0 /\ waiting' = [waiting EXCEPT ![p] = @ - 1]
    BY <1>5 DEF Pool!CheckOutStarted, Pool!CheckOutFailed, Pool!Handle
  <2>2. pool[p] = "open" \/ (pool[p] = "closed" /\ ~Drained(p))
    BY <2>1 DEF DriverTypes, DriverInv, Drained
  <2>3. /\ waiting' \in [Pools -> Nat] /\ \A q \in Pools \ {p} : waiting'[q] = waiting[q]
    BY <2>1 DEF DriverTypes
  <2>4. DriverTypes' /\ DriverInv'
    BY <2>1, <2>2, <2>3, OnePoolMoves DEF DriverTypes
  <2>5. Pool!OpenPools' = Pool!OpenPools
    BY <2>1 DEF Pool!OpenPools
  <2>6. DriverFinite'
    BY <2>1, <2>5, WaitUp, WaitDown DEF DriverFinite
  <2>. QED
    BY <2>4, <2>6
<1>. HIDE DEF Kept
<1>6. ASSUME NEW p \in Pools, Pool!PoolStep(p) PROVE Kept
  <2>1. CASE Pool!Ready(p) \/ Pool!Cleared(p)
    BY <1>3, <2>1 DEF Pool!Ready, Pool!Cleared, Pool!driver, Pool!Handle
  <2>. QED
    BY <1>1, <1>2, <1>5, <1>6, <2>1 DEF Pool!PoolStep
<1>7. ASSUME Pool!Cleanup \/ Pool!Terminated \/ UNCHANGED Pool!vars PROVE Kept
  BY <1>3, <1>7 DEF Pool!Cleanup, Pool!Terminated, Pool!vars, Pool!driver
<1>8. Kept
  BY <1>4, <1>6, <1>7 DEF Pool!Next
<1>. QED
  BY <1>8 DEF Kept

-----------------------------------------------------------------------------
One(b) == IF b THEN 1 ELSE 0

\* What is known of the tracker before an event.
LEMMA CurFacts ==
  ASSUME PoolInv, ~disabled
  PROVE  /\ Sound(Cur) /\ Cur \in TrackerRec /\ Cur.g = gauge
         /\ Cur.s.ready.total \in Nat /\ Cur.s.checkedOut.total \in Nat
         /\ Cur.s.ready.byID \in [IDs -> Nat] /\ Cur.s.checkedOut.byID \in [IDs -> Nat]
         /\ Cur.s.livePools = Cardinality(Pool!OpenPools)
         /\ Pool!OpenPools # {} => Cur.s.pending = Cardinality(Pool!Checkouts)
         /\ Pool!OpenPools = {} => Cur.s = Pool!NewState
         /\ Cardinality(Pool!OpenPools) \in Nat /\ Cardinality(Pool!Checkouts) \in Nat
<1>1. Sound(Cur) /\ Cur \in TrackerRec /\ Cur.g = gauge
  BY CurIs DEF PoolInv, Tracks, GaugesOK
<1>2. Cur.s.ready \in LiveRec /\ Cur.s.checkedOut \in LiveRec
  BY <1>1, TrackerFields
<1>3. /\ Cur.s.ready.total \in Nat /\ Cur.s.checkedOut.total \in Nat
      /\ Cur.s.ready.byID \in [IDs -> Nat] /\ Cur.s.checkedOut.byID \in [IDs -> Nat]
  BY <1>2 DEF LiveRec
<1>4. Cardinality(Pool!OpenPools) \in Nat /\ Cardinality(Pool!Checkouts) \in Nat
  BY FS_CardinalityType DEF PoolInv, DriverFinite
<1>. QED
  BY <1>1, <1>3, <1>4 DEF PoolInv, Tracks

\* What handle leaves.
LEMMA Handled ==
  ASSUME ~disabled, NEW u, Sound(u), Pool!Handle(u)
  PROVE  /\ ~disabled' /\ shared' = shared /\ state' \in StateRec /\ Cur' = u /\ gauge' = u.g
         /\ GaugesOK'
<1>1. state' = u.s /\ gauge' = u.g /\ ~disabled' /\ shared' = shared
  BY DEF Pool!Handle
<1>. QED
  BY <1>1, CurNext

\* An event that the tracker counts, with pools open after it.
LEMMA TracksStep ==
  ASSUME ~disabled, NEW u, Sound(u), Pool!Handle(u), Pool!OpenPools' # {},
         u.s.livePools = Cardinality(Pool!OpenPools'), u.s.pending = Cardinality(Pool!Checkouts')
  PROVE  GaugesOK' /\ Tracks'
  BY Handled DEF Tracks

\* The connections that are in state d.
Within(open, cn, d) == {x \in open \X IDs : cn[x[1]][x[2]] = d}

\* One connection of an open pool goes from one state to another.
LEMMA WithinCount ==
  ASSUME NEW open, NEW p \in open, NEW n \in IDs, NEW cn, NEW cm, NEW d, IsFiniteSet(Within(open, cn, d)),
         cm[p][n] # cn[p][n],
         \A q \in open, m \in IDs : <<q, m>> # <<p, n>> => cm[q][m] = cn[q][m]
  PROVE  /\ IsFiniteSet(Within(open, cm, d))
         /\ cm[p][n] = d => Cardinality(Within(open, cm, d)) = Cardinality(Within(open, cn, d)) + 1
         /\ cn[p][n] = d => Cardinality(Within(open, cm, d)) = Cardinality(Within(open, cn, d)) - 1
         /\ cm[p][n] # d /\ cn[p][n] # d => Within(open, cm, d) = Within(open, cn, d)
<1>. DEFINE x == <<p, n>>
           A == Within(open, cn, d)
           B == Within(open, cm, d)
<1>1. \A q \in open, m \in IDs :
        (<<q, m>> \in A <=> cn[q][m] = d) /\ (<<q, m>> \in B <=> cm[q][m] = d)
  BY DEF Within
<1>2. \A y : y \in A \cup B => \E q \in open, m \in IDs : y = <<q, m>>
  BY DEF Within
<1>3. \A y : y # x => (y \in B <=> y \in A)
  <2>. SUFFICES ASSUME NEW q \in open, NEW m \in IDs, <<q, m>> # x
                PROVE  <<q, m>> \in B <=> <<q, m>> \in A
    BY <1>2
  <2>. QED
    BY <1>1
<1>. HIDE DEF A, B
<1>4. CASE cm[p][n] = d
  <2>1. x \notin A /\ x \in B
    BY <1>1, <1>4
  <2>2. B = A \cup {x}
    BY <1>3, <2>1
  <2>3. IsFiniteSet(B) /\ Cardinality(B) = Cardinality(A) + 1
    BY <2>1, <2>2, FS_AddElement DEF A
  <2>. QED
    BY <1>4, <2>3 DEF A, B
<1>5. CASE cn[p][n] = d
  <2>1. x \in A /\ x \notin B
    BY <1>1, <1>5
  <2>2. B = A \ {x}
    BY <1>3, <2>1
  <2>3. IsFiniteSet(B) /\ Cardinality(B) = Cardinality(A) - 1
    BY <2>1, <2>2, FS_RemoveElement DEF A
  <2>. QED
    BY <1>5, <2>3 DEF A, B
<1>6. CASE cm[p][n] # d /\ cn[p][n] # d
  <2>1. x \notin A /\ x \notin B
    BY <1>1, <1>6
  <2>2. B = A
    <3>1. \A y : y \in B <=> y \in A
      BY <1>3, <2>1
    <3>. QED
      BY <3>1
  <2>. QED
    BY <1>6, <2>2 DEF A, B
<1>. QED
  BY <1>4, <1>5, <1>6

\* How a count of connections follows one of them.
Follows(l, k, n, b) == k.byID[n] = One(b) /\ \A m \in IDs \ {n} : k.byID[m] = l.byID[m]

MovedWith(u, p, n, c) ==
  /\ Follows(Cur.s.ready, u.s.ready, n, c \in {"ready", "out"})
  /\ Follows(Cur.s.checkedOut, u.s.checkedOut, n, c = "out")
  /\ u.g.idle = u.s.ready.total - u.s.checkedOut.total
  /\ u.g.idle = gauge.idle + One(c = "ready") - One(conn[p][n] = "ready")
  /\ u.g.used = gauge.used + One(c = "out") - One(conn[p][n] = "out")

\* The gauges of one client follow the event of a connection.
LEMMA AloneStep ==
  ASSUME PoolInv, ~disabled, ~shared, NEW p \in Pool!OpenPools, NEW n \in IDs, UNCHANGED pool,
         NEW c \in {"none", "created", "ready", "out", "gone"}, conn' = [conn EXCEPT ![p][n] = c],
         c # conn[p][n], NEW u, Sound(u), Pool!Handle(u), MovedWith(u, p, n, c)
  PROVE  Alone'
<1>1. /\ IsFiniteSet(Pool!InState("ready")) /\ IsFiniteSet(Pool!InState("out"))
      /\ gauge.idle = Cardinality(Pool!InState("ready"))
      /\ gauge.used = Cardinality(Pool!InState("out"))
      /\ Holds(Cur.s.ready, p, {"ready", "out"}) /\ Holds(Cur.s.checkedOut, p, {"out"})
      /\ DriverTypes
  BY DEF PoolInv, Alone
<1>2. /\ IsFiniteSet(Pool!InState("ready")') /\ IsFiniteSet(Pool!InState("out")')
      /\ u.g.idle = Cardinality(Pool!InState("ready")')
      /\ u.g.used = Cardinality(Pool!InState("out")')
  <2>1. /\ Pool!InState("ready") = Within(Pool!OpenPools, conn, "ready")
        /\ Pool!InState("out") = Within(Pool!OpenPools, conn, "out")
        /\ Pool!InState("ready")' = Within(Pool!OpenPools, conn', "ready")
        /\ Pool!InState("out")' = Within(Pool!OpenPools, conn', "out")
    BY DEF Pool!InState, Within, Pool!OpenPools
  <2>2. /\ conn'[p][n] = c /\ conn'[p][n] # conn[p][n]
        /\ \A q \in Pool!OpenPools, m \in IDs : <<q, m>> # <<p, n>> => conn'[q][m] = conn[q][m]
    <3>1. p \in Pools /\ \A q \in Pool!OpenPools : q \in Pools
      BY DEF Pool!OpenPools
    <3>2. /\ conn'[p][n] = c /\ \A m \in IDs \ {n} : conn'[p][m] = conn[p][m]
          /\ \A q \in Pools \ {p} : conn'[q] = conn[q]
      BY <1>1, <3>1, ConnEdit, ZenonT(60)
    <3>. QED
      BY <3>1, <3>2
  <2>. DEFINE Counts(d) ==
         /\ IsFiniteSet(Within(Pool!OpenPools, conn', d))
         /\ c = d => Cardinality(Within(Pool!OpenPools, conn', d)) = Cardinality(Within(Pool!OpenPools, conn, d)) + 1
         /\ conn[p][n] = d => Cardinality(Within(Pool!OpenPools, conn', d)) = Cardinality(Within(Pool!OpenPools, conn, d)) - 1
         /\ c # d /\ conn[p][n] # d => Within(Pool!OpenPools, conn', d) = Within(Pool!OpenPools, conn, d)
  <2>3. ASSUME NEW d, IsFiniteSet(Within(Pool!OpenPools, conn, d)) PROVE Counts(d)
    <3>1. PICK open, cn, cm : open = Pool!OpenPools /\ cn = conn /\ cm = conn'
      OBVIOUS
    <3>2. p \in open /\ IsFiniteSet(Within(open, cn, d)) /\ cm[p][n] # cn[p][n]
      BY <2>2, <2>3, <3>1
    <3>3. \A q \in open, m \in IDs : <<q, m>> # <<p, n>> => cm[q][m] = cn[q][m]
      BY <2>2, <3>1
    <3>4. /\ IsFiniteSet(Within(open, cm, d))
          /\ cm[p][n] = d => Cardinality(Within(open, cm, d)) = Cardinality(Within(open, cn, d)) + 1
          /\ cn[p][n] = d => Cardinality(Within(open, cm, d)) = Cardinality(Within(open, cn, d)) - 1
          /\ cm[p][n] # d /\ cn[p][n] # d => Within(open, cm, d) = Within(open, cn, d)
      BY <3>2, <3>3, WithinCount
    <3>. QED
      BY <2>2, <3>1, <3>4
  <2>. HIDE DEF Counts
  <2>4. Counts("ready") /\ Counts("out")
    BY <1>1, <2>1, <2>3
  <2>. QED
    BY <1>1, <2>1, <2>4, FS_CardinalityType, SMTT(60) DEF MovedWith, One, Counts
<1>3. Cur' = u /\ gauge' = u.g
  BY Handled
<1>4. \A q \in Pool!OpenPools' : q = p
  BY DEF Pool!OpenPools, PoolInv, DriverInv
<1>5. p \in Pools
  BY DEF Pool!OpenPools
<1>6. conn'[p][n] = c /\ \A m \in IDs \ {n} : conn'[p][m] = conn[p][m]
  BY <1>1, <1>5, ConnEdit, ZenonT(60)
<1>7. Holds(u.s.ready, p, {"ready", "out"})' /\ Holds(u.s.checkedOut, p, {"out"})'
  <2>1. \A m \in IDs : u.s.ready.byID[m] = IF conn'[p][m] \in {"ready", "out"} THEN 1 ELSE 0
    BY <1>1, <1>6 DEF Holds, MovedWith, Follows, One
  <2>2. \A m \in IDs : u.s.checkedOut.byID[m] = IF conn'[p][m] \in {"out"} THEN 1 ELSE 0
    BY <1>1, <1>6 DEF Holds, MovedWith, Follows, One
  <2>. QED
    BY <2>1, <2>2 DEF Holds
<1>8. \A q \in Pool!OpenPools' : (Holds(Cur.s.ready, q, {"ready", "out"}) /\ Holds(Cur.s.checkedOut, q, {"out"}))'
  BY <1>3, <1>4, <1>7 DEF Holds
<1>. QED
  BY <1>2, <1>3, <1>8 DEF Alone, MovedWith

\* Events that come when no pool is open change nothing.
LEMMA NoPoolStep ==
  ASSUME PoolInv, ~disabled, Pool!OpenPools = {}, UNCHANGED pool, Pool!Handle(Cur)
  PROVE  GaugesOK' /\ Tracks' /\ Alone'
<1>1. Sound(Cur) /\ Cur.g = gauge /\ Cur.s = Pool!NewState /\ Cur.s.livePools = Cardinality(Pool!OpenPools)
  BY CurFacts
<1>2. Cur' = Cur /\ gauge' = gauge /\ ~disabled' /\ shared' = shared /\ state' \in StateRec /\ GaugesOK'
  BY <1>1, Handled
<1>3. Pool!OpenPools' = {} /\ Pool!OpenPools' = Pool!OpenPools
  BY DEF Pool!OpenPools
<1>4. Tracks'
  BY <1>1, <1>2, <1>3 DEF Tracks
<1>5. \A d : Pool!InState(d) = {} /\ Pool!InState(d)' = {}
  BY <1>3 DEF Pool!InState
<1>6. Alone'
  BY <1>2, <1>3, <1>5 DEF PoolInv, Alone
<1>. QED
  BY <1>2, <1>4, <1>6

-----------------------------------------------------------------------------
\* Nothing is counted at an address no pool is open at.
LEMMA NewCounts ==
  /\ \A n \in IDs : ~Pool!HasLive(Pool!NewState.ready, n) /\ ~Pool!HasLive(Pool!NewState.checkedOut, n)
  /\ Pool!NewState.pending = 0 /\ Pool!NewState.livePools = 0
  /\ Pool!NewState.ready.total = 0 /\ Pool!NewState.checkedOut.total = 0
  /\ \A n \in IDs : Pool!NewState.ready.byID[n] = 0 /\ Pool!NewState.checkedOut.byID[n] = 0
<1>1. /\ Pool!NewState.ready = Pool!NoneLive /\ Pool!NewState.checkedOut = Pool!NoneLive
      /\ Pool!NewState.pending = 0 /\ Pool!NewState.livePools = 0
  BY DEF Pool!NewState
<1>. QED
  BY <1>1, NoneLiveOK DEF Pool!HasLive

\* For one client, what is counted of a connection of the open pool.
LEMMA OneClient ==
  ASSUME PoolInv, ~disabled, ~shared, NEW p \in Pool!OpenPools, NEW n \in IDs
  PROVE  /\ Cur.s.ready.byID[n] = One(conn[p][n] \in {"ready", "out"})
         /\ Cur.s.checkedOut.byID[n] = One(conn[p][n] = "out")
         /\ Pool!HasLive(Cur.s.ready, n) <=> conn[p][n] \in {"ready", "out"}
         /\ Pool!HasLive(Cur.s.checkedOut, n) <=> conn[p][n] = "out"
         /\ gauge.idle = Cur.s.ready.total - Cur.s.checkedOut.total
         /\ gauge.used = Cur.s.checkedOut.total
         /\ Cur.s.ready.total \in Nat /\ Cur.s.checkedOut.total \in Nat
         /\ conn[p][n] = "ready" => gauge.idle > 0
<1>1. Holds(Cur.s.ready, p, {"ready", "out"}) /\ Holds(Cur.s.checkedOut, p, {"out"})
  BY DEF PoolInv, Alone
<1>2. /\ Cur.s.ready.byID[n] = One(conn[p][n] \in {"ready", "out"})
      /\ Cur.s.checkedOut.byID[n] = One(conn[p][n] = "out")
  BY <1>1 DEF Holds, One
<1>3. /\ gauge.idle = Cur.s.ready.total - Cur.s.checkedOut.total
      /\ gauge.used = Cur.s.checkedOut.total
      /\ Cur.s.ready.total \in Nat /\ Cur.s.checkedOut.total \in Nat
  BY CurFacts DEF PoolInv, Alone, Sound
<1>4. ASSUME conn[p][n] = "ready" PROVE gauge.idle > 0
  <2>1. <<p, n>> \in Pool!InState("ready")
    BY <1>4 DEF Pool!InState
  <2>2. IsFiniteSet(Pool!InState("ready")) /\ gauge.idle = Cardinality(Pool!InState("ready"))
    BY DEF PoolInv, Alone
  <2>3. Cardinality(Pool!InState("ready")) \in Nat /\ Cardinality(Pool!InState("ready")) # 0
    BY <2>1, <2>2, FS_CardinalityType, FS_EmptySet
  <2>. QED
    BY <2>2, <2>3
<1>. QED
  BY <1>2, <1>3, <1>4 DEF Pool!HasLive, One

\* For one client, the pool an event is about is the open one.
LEMMA TheOpenPool ==
  ASSUME PoolInv, ~shared, NEW p \in Pools, ~Drained(p), Pool!OpenPools # {}
  PROVE  p \in Pool!OpenPools
  BY DEF PoolInv, DriverInv, Pool!OpenPools

\* ConnectionReady is counted.
LEMMA ReadyStep ==
  ASSUME PoolInv, ~disabled, NEW p \in Pools, NEW n \in IDs, Pool!ConnectionReady(p, n)
  PROVE  GaugesOK' /\ Tracks' /\ Alone'
<1>. DEFINE u == Pool!ReadyConnection(Cur, n)
<1>1. /\ p \in Pool!OpenPools /\ conn[p][n] = "created" /\ conn' = [conn EXCEPT ![p][n] = "ready"]
      /\ UNCHANGED <<pool, waiting>> /\ Pool!Handle(u)
      /\ Pool!OpenPools' = Pool!OpenPools /\ Pool!Checkouts' = Pool!Checkouts
  BY DEF Pool!ConnectionReady, Pool!OpenPools, Pool!Checkouts, Cur
<1>2. Sound(Cur) /\ Cur.g = gauge /\ LiveOK(Cur.s.ready)
  BY CurFacts DEF Sound
<1>3. /\ Sound(u)
      /\ Counted(u, Pool!AddLive(Cur.s.ready, n), Cur.s.checkedOut, Cur.s.livePools, Cur.s.pending, Cur.g.idle + 1)
  BY <1>2, ReadyOK
<1>. HIDE DEF u
<1>4. GaugesOK' /\ Tracks'
  BY <1>1, <1>3, CurFacts, TracksStep DEF Counted
<1>5. ASSUME ~shared PROVE Alone'
  <2>1. /\ Pool!AddLive(Cur.s.ready, n).total = Cur.s.ready.total + 1
        /\ Pool!AddLive(Cur.s.ready, n).byID[n] = Cur.s.ready.byID[n] + 1
        /\ \A m \in IDs \ {n} : Pool!AddLive(Cur.s.ready, n).byID[m] = Cur.s.ready.byID[m]
    BY <1>2, AddLiveOK
  <2>2. /\ Cur.s.ready.byID[n] = 0 /\ Cur.s.checkedOut.byID[n] = 0
        /\ gauge.idle = Cur.s.ready.total - Cur.s.checkedOut.total /\ gauge.used = Cur.s.checkedOut.total
        /\ Cur.s.ready.total \in Nat /\ Cur.s.checkedOut.total \in Nat
    BY <1>1, <1>5, OneClient DEF One
  <2>3. u.g.used = u.s.checkedOut.total
    BY <1>3 DEF Sound
  <2>4. MovedWith(u, p, n, "ready")
    BY <1>1, <1>2, <1>3, <2>1, <2>2, <2>3 DEF MovedWith, Follows, Counted, One
  <2>. QED
    BY <1>1, <1>3, <1>5, <2>4, AloneStep
<1>6. CASE shared
  BY <1>1, <1>4, <1>6 DEF Alone, Pool!Handle
<1>. QED
  BY <1>4, <1>5, <1>6

\* ConnectionCreated is not.
LEMMA CreatedStep ==
  ASSUME PoolInv, ~disabled, NEW p \in Pools, NEW n \in IDs, Pool!ConnectionCreated(p, n)
  PROVE  GaugesOK' /\ Tracks' /\ Alone'
<1>1. /\ p \in Pool!OpenPools /\ conn[p][n] = "none" /\ conn' = [conn EXCEPT ![p][n] = "created"]
      /\ UNCHANGED <<pool, waiting>> /\ Pool!Handle(Cur)
      /\ Pool!OpenPools' = Pool!OpenPools /\ Pool!Checkouts' = Pool!Checkouts
  BY DEF Pool!ConnectionCreated, Pool!OpenPools, Pool!Checkouts, Cur
<1>2. Sound(Cur) /\ Cur.g = gauge
  BY CurFacts
<1>3. GaugesOK' /\ Tracks'
  BY <1>1, <1>2, CurFacts, TracksStep
<1>4. ASSUME ~shared PROVE Alone'
  <2>1. MovedWith(Cur, p, n, "created")
    BY <1>1, <1>2, <1>4, OneClient DEF MovedWith, Follows, One
  <2>. QED
    BY <1>1, <1>2, <1>4, <2>1, AloneStep
<1>5. CASE shared
  BY <1>1, <1>3, <1>5 DEF Alone, Pool!Handle
<1>. QED
  BY <1>3, <1>4, <1>5

\* ConnectionClosed takes a connection off where it was counted.
LEMMA ClosedStep ==
  ASSUME PoolInv, ~disabled, NEW p \in Pools, NEW n \in IDs, Pool!ConnectionClosed(p, n)
  PROVE  GaugesOK' /\ Tracks' /\ Alone'
<1>. DEFINE u == Pool!CloseConnection(Cur, n)
<1>1. /\ conn[p][n] \in {"created", "ready", "out"} /\ conn' = [conn EXCEPT ![p][n] = "gone"]
      /\ UNCHANGED <<pool, waiting>> /\ Pool!Handle(u)
      /\ Pool!OpenPools' = Pool!OpenPools /\ Pool!Checkouts' = Pool!Checkouts
  BY DEF Pool!ConnectionClosed, Pool!OpenPools, Pool!Checkouts, Cur
<1>2. Sound(Cur) /\ Cur.g = gauge /\ LiveOK(Cur.s.ready) /\ LiveOK(Cur.s.checkedOut)
  BY CurFacts DEF Sound
<1>3. CASE Pool!OpenPools = {}
  <2>1. u = Cur
    BY <1>3, CurFacts, NewCounts DEF Pool!CloseConnection
  <2>. QED
    BY <1>1, <1>3, <2>1, NoPoolStep
<1>4. CASE Pool!OpenPools # {}
  <2>. DEFINE l == Pool!RemoveLive(Cur.s.ready, n)
             k == Pool!RemoveLive(Cur.s.checkedOut, n)
             R == Pool!HasLive(Cur.s.ready, n)
             C == Pool!HasLive(Cur.s.checkedOut, n)
  <2>1. ~R => u = Cur
    BY DEF Pool!CloseConnection
  <2>2. R /\ C => Sound(u) /\ Counted(u, l, k, Cur.s.livePools, Cur.s.pending, Cur.g.idle)
    BY <1>2, CloseUsedOK
  <2>3. R /\ ~C => Sound(u) /\ Counted(u, l, Cur.s.checkedOut, Cur.s.livePools, Cur.s.pending, Cur.g.idle - 1)
    BY <1>2, CloseIdleOK
  <2>4. R => /\ l.total = Cur.s.ready.total - 1 /\ l.byID[n] = Cur.s.ready.byID[n] - 1
             /\ \A m \in IDs \ {n} : l.byID[m] = Cur.s.ready.byID[m]
    BY <1>2, RemoveLiveOK
  <2>5. C => /\ k.total = Cur.s.checkedOut.total - 1 /\ k.byID[n] = Cur.s.checkedOut.byID[n] - 1
             /\ \A m \in IDs \ {n} : k.byID[m] = Cur.s.checkedOut.byID[m]
    BY <1>2, RemoveLiveOK
  <2>. HIDE DEF u, l, k, R, C
  <2>6. Sound(u) /\ u.s.livePools = Cur.s.livePools /\ u.s.pending = Cur.s.pending
    BY <1>2, <2>1, <2>2, <2>3 DEF Counted
  <2>7. GaugesOK' /\ Tracks'
    BY <1>1, <1>4, <2>6, CurFacts, TracksStep
  <2>8. ASSUME ~shared PROVE Alone'
    <3>1. p \in Pool!OpenPools
      BY <1>1, <1>4, <2>8, TheOpenPool DEF Drained
    <3>2. /\ Cur.s.ready.byID[n] = One(conn[p][n] \in {"ready", "out"})
          /\ Cur.s.checkedOut.byID[n] = One(conn[p][n] = "out")
          /\ R <=> conn[p][n] \in {"ready", "out"}
          /\ C <=> conn[p][n] = "out"
          /\ gauge.idle = Cur.s.ready.total - Cur.s.checkedOut.total /\ gauge.used = Cur.s.checkedOut.total
          /\ Cur.s.ready.total \in Nat /\ Cur.s.checkedOut.total \in Nat
      BY <2>8, <3>1, OneClient DEF R, C
    <3>3. u.g.used = u.s.checkedOut.total
      BY <2>6 DEF Sound
    <3>4. MovedWith(u, p, n, "gone")
      <4>1. CASE conn[p][n] = "created"
        BY <1>2, <2>1, <3>2, <4>1 DEF MovedWith, Follows, One
      <4>2. CASE conn[p][n] = "ready"
        BY <1>2, <2>3, <2>4, <3>2, <3>3, <4>2 DEF MovedWith, Follows, One, Counted
      <4>3. CASE conn[p][n] = "out"
        BY <1>2, <2>2, <2>4, <2>5, <3>2, <3>3, <4>3 DEF MovedWith, Follows, One, Counted
      <4>. QED
        BY <1>1, <4>1, <4>2, <4>3
    <3>. QED
      BY <1>1, <2>6, <2>8, <3>1, <3>4, AloneStep
  <2>9. CASE shared
    BY <1>1, <2>7, <2>9 DEF Alone, Pool!Handle
  <2>. QED
    BY <2>7, <2>8, <2>9
<1>. QED
  BY <1>3, <1>4

\* ConnectionCheckedIn moves a connection back where it was counted out.
LEMMA CheckedInStep ==
  ASSUME PoolInv, ~disabled, NEW p \in Pools, NEW n \in IDs, Pool!CheckedIn(p, n)
  PROVE  GaugesOK' /\ Tracks' /\ Alone'
<1>. DEFINE u == Pool!CheckInConnection(Cur, n)
<1>1. /\ conn[p][n] = "out" /\ conn' = [conn EXCEPT ![p][n] = "ready"]
      /\ UNCHANGED <<pool, waiting>> /\ Pool!Handle(u)
      /\ Pool!OpenPools' = Pool!OpenPools /\ Pool!Checkouts' = Pool!Checkouts
  BY DEF Pool!CheckedIn, Pool!OpenPools, Pool!Checkouts, Cur
<1>2. Sound(Cur) /\ Cur.g = gauge /\ LiveOK(Cur.s.checkedOut)
  BY CurFacts DEF Sound
<1>3. CASE Pool!OpenPools = {}
  <2>1. u = Cur
    BY <1>3, CurFacts, NewCounts DEF Pool!CheckInConnection
  <2>. QED
    BY <1>1, <1>3, <2>1, NoPoolStep
<1>4. CASE Pool!OpenPools # {}
  <2>. DEFINE k == Pool!RemoveLive(Cur.s.checkedOut, n)
             C == Pool!HasLive(Cur.s.checkedOut, n)
  <2>1. ~C => u = Cur
    BY DEF Pool!CheckInConnection
  <2>2. C => Sound(u) /\ Counted(u, Cur.s.ready, k, Cur.s.livePools, Cur.s.pending, Cur.g.idle + 1)
    BY <1>2, CheckInOK
  <2>3. C => /\ k.total = Cur.s.checkedOut.total - 1 /\ k.byID[n] = Cur.s.checkedOut.byID[n] - 1
             /\ \A m \in IDs \ {n} : k.byID[m] = Cur.s.checkedOut.byID[m]
    BY <1>2, RemoveLiveOK
  <2>. HIDE DEF u, k, C
  <2>4. Sound(u) /\ u.s.livePools = Cur.s.livePools /\ u.s.pending = Cur.s.pending
    BY <1>2, <2>1, <2>2 DEF Counted
  <2>5. GaugesOK' /\ Tracks'
    BY <1>1, <1>4, <2>4, CurFacts, TracksStep
  <2>6. ASSUME ~shared PROVE Alone'
    <3>1. p \in Pool!OpenPools
      BY <1>1, <1>4, <2>6, TheOpenPool DEF Drained
    <3>2. /\ Cur.s.ready.byID[n] = 1 /\ Cur.s.checkedOut.byID[n] = 1 /\ C
          /\ gauge.idle = Cur.s.ready.total - Cur.s.checkedOut.total /\ gauge.used = Cur.s.checkedOut.total
          /\ Cur.s.ready.total \in Nat /\ Cur.s.checkedOut.total \in Nat
      BY <1>1, <2>6, <3>1, OneClient DEF C, One
    <3>3. u.g.used = u.s.checkedOut.total
      BY <2>4 DEF Sound
    <3>4. MovedWith(u, p, n, "ready")
      BY <1>1, <1>2, <2>2, <2>3, <3>2, <3>3 DEF MovedWith, Follows, One, Counted
    <3>. QED
      BY <1>1, <2>4, <2>6, <3>1, <3>4, AloneStep
  <2>7. CASE shared
    BY <1>1, <2>5, <2>7 DEF Alone, Pool!Handle
  <2>. QED
    BY <2>5, <2>6, <2>7
<1>. QED
  BY <1>3, <1>4

\* ConnectionCheckedOut ends a wait and counts the connection out.
LEMMA CheckedOutStep ==
  ASSUME PoolInv, ~disabled, NEW p \in Pools, NEW n \in IDs, Pool!CheckedOut(p, n)
  PROVE  GaugesOK' /\ Tracks' /\ Alone'
<1>. DEFINE d == Pool!DecrementPending(Cur)
           u == Pool!CheckOutConnection(d, n)
           k == Pool!AddLive(Cur.s.checkedOut, n)
<1>1. /\ p \in Pool!OpenPools /\ conn[p][n] = "ready" /\ conn' = [conn EXCEPT ![p][n] = "out"]
      /\ waiting[p] > 0 /\ waiting' = [waiting EXCEPT ![p] = @ - 1]
      /\ UNCHANGED pool /\ Pool!Handle(u) /\ Pool!OpenPools' = Pool!OpenPools
  BY DEF Pool!CheckedOut, Pool!OpenPools, Cur
<1>2. /\ Sound(Cur) /\ Cur.g = gauge /\ LiveOK(Cur.s.checkedOut)
      /\ Cur.s.pending = Cardinality(Pool!Checkouts) /\ Cardinality(Pool!Checkouts) \in Nat
  BY <1>1, CurFacts DEF Sound
<1>3. /\ Cardinality(Pool!Checkouts') = Cardinality(Pool!Checkouts) - 1
      /\ Cardinality(Pool!Checkouts') \in Nat
  BY <1>1, WaitDown DEF PoolInv, DriverFinite
<1>4. Cur.s.pending # 0
  BY <1>2, <1>3
<1>5. Sound(d) /\ Counted(d, Cur.s.ready, Cur.s.checkedOut, Cur.s.livePools, Cur.s.pending - 1, Cur.g.idle)
  BY <1>2, <1>4, DecrementOK
<1>. HIDE DEF d
<1>6. /\ Sound(u)
      /\ Counted(u, Cur.s.ready, k, Cur.s.livePools, Cur.s.pending - 1,
                 IF Cur.s.ready.total > Cur.s.checkedOut.total THEN Cur.g.idle - 1 ELSE Cur.g.idle)
  BY <1>5, CheckOutOK DEF Counted
<1>7. /\ k.total = Cur.s.checkedOut.total + 1 /\ k.byID[n] = Cur.s.checkedOut.byID[n] + 1
      /\ \A m \in IDs \ {n} : k.byID[m] = Cur.s.checkedOut.byID[m]
  BY <1>2, AddLiveOK
<1>. HIDE DEF u, k
<1>8. GaugesOK' /\ Tracks'
  BY <1>1, <1>2, <1>3, <1>6, CurFacts, TracksStep DEF Counted
<1>9. ASSUME ~shared PROVE Alone'
  <2>1. /\ Cur.s.ready.byID[n] = 1 /\ Cur.s.checkedOut.byID[n] = 0 /\ gauge.idle > 0
        /\ gauge.idle = Cur.s.ready.total - Cur.s.checkedOut.total /\ gauge.used = Cur.s.checkedOut.total
        /\ Cur.s.ready.total \in Nat /\ Cur.s.checkedOut.total \in Nat
    BY <1>1, <1>9, OneClient DEF One
  <2>2. u.g.used = u.s.checkedOut.total
    BY <1>6 DEF Sound
  <2>3. MovedWith(u, p, n, "out")
    BY <1>1, <1>2, <1>6, <1>7, <2>1, <2>2 DEF MovedWith, Follows, Counted, One
  <2>. QED
    BY <1>1, <1>6, <1>9, <2>3, AloneStep
<1>10. CASE shared
  BY <1>1, <1>8, <1>10 DEF Alone, Pool!Handle
<1>. QED
  BY <1>8, <1>9, <1>10

\* Events that leave the connections alone, as their counts and the open pools.
LEMMA AloneStill ==
  ASSUME PoolInv, ~disabled, NEW u, Sound(u), Pool!Handle(u), UNCHANGED <<pool, conn>>,
         u.s.ready = Cur.s.ready, u.s.checkedOut = Cur.s.checkedOut, u.g.idle = Cur.g.idle
  PROVE  Alone'
<1>1. Cur' = u /\ gauge' = u.g /\ shared' = shared
  BY Handled
<1>2. /\ Pool!OpenPools' = Pool!OpenPools
      /\ Pool!InState("ready")' = Pool!InState("ready") /\ Pool!InState("out")' = Pool!InState("out")
  BY DEF Pool!OpenPools, Pool!InState
<1>3. u.g.idle = gauge.idle /\ u.g.used = gauge.used
  BY CurFacts DEF Sound
<1>4. ASSUME ~shared, NEW q \in Pool!OpenPools
      PROVE  Holds(u.s.ready, q, {"ready", "out"})' /\ Holds(u.s.checkedOut, q, {"out"})'
  <2>1. Holds(Cur.s.ready, q, {"ready", "out"}) /\ Holds(Cur.s.checkedOut, q, {"out"})
    BY <1>4 DEF PoolInv, Alone
  <2>. QED
    BY <2>1 DEF Holds
<1>5. ~shared => \A q \in Pool!OpenPools' :
        (Holds(Cur.s.ready, q, {"ready", "out"}) /\ Holds(Cur.s.checkedOut, q, {"out"}))'
  BY <1>1, <1>2, <1>4 DEF Holds
<1>. QED
  BY <1>1, <1>2, <1>3, <1>5 DEF PoolInv, Alone

\* ConnectionCheckOutStarted is one more that waits.
LEMMA StartedStep ==
  ASSUME PoolInv, ~disabled, NEW p \in Pools, Pool!CheckOutStarted(p)
  PROVE  GaugesOK' /\ Tracks' /\ Alone'
<1>. DEFINE u == Pool!StartPending(Cur)
<1>1. /\ p \in Pool!OpenPools /\ waiting' = [waiting EXCEPT ![p] = @ + 1]
      /\ UNCHANGED <<pool, conn>> /\ Pool!Handle(u) /\ Pool!OpenPools' = Pool!OpenPools
  BY DEF Pool!CheckOutStarted, Pool!OpenPools, Cur
<1>2. /\ Sound(Cur) /\ Cur.s.pending = Cardinality(Pool!Checkouts)
  BY <1>1, CurFacts
<1>3. Cardinality(Pool!Checkouts') = Cardinality(Pool!Checkouts) + 1
  BY <1>1, WaitUp DEF PoolInv, DriverFinite
<1>4. Sound(u) /\ Counted(u, Cur.s.ready, Cur.s.checkedOut, Cur.s.livePools, Cur.s.pending + 1, Cur.g.idle)
  BY <1>2, StartOK
<1>. HIDE DEF u
<1>5. GaugesOK' /\ Tracks'
  BY <1>1, <1>2, <1>3, <1>4, CurFacts, TracksStep DEF Counted
<1>6. Alone'
  BY <1>1, <1>4, AloneStill DEF Counted
<1>. QED
  BY <1>5, <1>6

\* ConnectionCheckOutFailed is one fewer that waits, where it was counted.
LEMMA FailedStep ==
  ASSUME PoolInv, ~disabled, NEW p \in Pools, Pool!CheckOutFailed(p)
  PROVE  GaugesOK' /\ Tracks' /\ Alone'
<1>. DEFINE u == Pool!DecrementPending(Cur)
<1>1. /\ waiting[p] > 0 /\ waiting' = [waiting EXCEPT ![p] = @ - 1]
      /\ UNCHANGED <<pool, conn>> /\ Pool!Handle(u) /\ Pool!OpenPools' = Pool!OpenPools
  BY DEF Pool!CheckOutFailed, Pool!OpenPools, Cur
<1>2. CASE Pool!OpenPools = {}
  <2>1. u = Cur
    BY <1>2, CurFacts, NewCounts DEF Pool!DecrementPending
  <2>. QED
    BY <1>1, <1>2, <2>1, NoPoolStep
<1>3. CASE Pool!OpenPools # {}
  <2>1. /\ Sound(Cur) /\ Cur.s.pending = Cardinality(Pool!Checkouts) /\ Cardinality(Pool!Checkouts) \in Nat
    BY <1>3, CurFacts
  <2>2. /\ Cardinality(Pool!Checkouts') = Cardinality(Pool!Checkouts) - 1
        /\ Cardinality(Pool!Checkouts') \in Nat
    BY <1>1, WaitDown DEF PoolInv, DriverFinite
  <2>3. Cur.s.pending # 0
    BY <2>1, <2>2
  <2>4. Sound(u) /\ Counted(u, Cur.s.ready, Cur.s.checkedOut, Cur.s.livePools, Cur.s.pending - 1, Cur.g.idle)
    BY <2>1, <2>3, DecrementOK
  <2>. HIDE DEF u
  <2>5. GaugesOK' /\ Tracks'
    BY <1>1, <1>3, <2>1, <2>2, <2>4, CurFacts, TracksStep DEF Counted
  <2>6. Alone'
    BY <1>1, <2>4, AloneStill DEF Counted
  <2>. QED
    BY <2>5, <2>6
<1>. QED
  BY <1>2, <1>3

\* ConnectionPoolReady and ConnectionPoolCleared move at most the sizes.
LEMMA RestatedStep ==
  ASSUME PoolInv, ~disabled, NEW p \in Pools, Pool!Ready(p) \/ Pool!Cleared(p)
  PROVE  GaugesOK' /\ Tracks' /\ Alone'
<1>1. PICK u : Pool!Handle(u) /\ (u = Pool!RestateOptions(Cur) \/ u = Cur)
  BY DEF Pool!Ready, Pool!Cleared, Cur
<1>2. /\ p \in Pool!OpenPools /\ UNCHANGED <<pool, conn, waiting>>
      /\ Pool!OpenPools' = Pool!OpenPools /\ Pool!Checkouts' = Pool!Checkouts
  BY DEF Pool!Ready, Pool!Cleared, Pool!driver, Pool!OpenPools, Pool!Checkouts
<1>3. Sound(u) /\ Alike(Cur, u)
  BY <1>1, CurFacts, RestateOK DEF Alike, Counted
<1>4. GaugesOK' /\ Tracks'
  BY <1>1, <1>2, <1>3, CurFacts, TracksStep DEF Alike, Counted
<1>5. Alone'
  BY <1>1, <1>2, <1>3, AloneStill DEF Alike, Counted
<1>. QED
  BY <1>4, <1>5

\* ConnectionPoolCreated: one more pool, with nothing in it yet.
LEMMA OpenedStep ==
  ASSUME PoolInv, ~disabled, NEW p \in Pools, NEW sz \in Sizes, Pool!Created(p, sz)
  PROVE  GaugesOK' /\ Tracks' /\ Alone'
<1>. DEFINE u == Pool!SetOptions([Cur EXCEPT !.s.livePools = @ + 1], sz)
<1>1. /\ Pool!MayOpen(p) /\ pool[p] = "new" /\ pool' = [pool EXCEPT ![p] = "open"]
      /\ UNCHANGED <<conn, waiting>> /\ Pool!Handle(u) /\ Pool!Checkouts' = Pool!Checkouts
  BY DEF Pool!Created, Pool!MayOpen, Pool!Checkouts, Cur
<1>2. sz \in [min : Nat, max : Nat]
  BY SizesAssumption
<1>3. Sound(Cur) /\ Cur.g = gauge
  BY CurFacts
<1>4. Sound(u) /\ Counted(u, Cur.s.ready, Cur.s.checkedOut, Cur.s.livePools + 1, Cur.s.pending, Cur.g.idle)
  BY <1>2, <1>3, CreatedOK
<1>. HIDE DEF u
<1>5. Pool!OpenPools' = Pool!OpenPools \cup {p} /\ p \notin Pool!OpenPools
  BY <1>1, OpenOne DEF PoolInv
<1>6. Cardinality(Pool!OpenPools') = Cardinality(Pool!OpenPools) + 1
  BY <1>5, FS_AddElement DEF PoolInv, DriverFinite
<1>7. Cur.s.pending = Cardinality(Pool!Checkouts)
  <2>1. CASE Pool!OpenPools = {}
    <3>1. \A q \in Pools : waiting[q] = 0
      BY <1>1, <2>1 DEF Pool!MayOpen, Pool!OpenPools, PoolInv, DriverInv
    <3>2. Cardinality(Pool!Checkouts) = 0
      BY <3>1, CheckoutSlots, SlotsNone
    <3>. QED
      BY <2>1, <3>2, CurFacts, NewCounts
  <2>. QED
    BY <2>1, CurFacts
<1>8. GaugesOK' /\ Tracks'
  BY <1>1, <1>4, <1>5, <1>6, <1>7, CurFacts, TracksStep DEF Counted
<1>9. ASSUME ~shared PROVE Alone'
  <2>1. Pool!OpenPools = {}
    BY <1>1, <1>9 DEF Pool!MayOpen, Pool!OpenPools
  <2>2. Pool!OpenPools' = {p} /\ \A n \in IDs : conn'[p][n] = "none"
    BY <1>1, <1>5, <2>1 DEF PoolInv, DriverInv
  <2>3. /\ Pool!InState("ready") = {} /\ Pool!InState("out") = {}
        /\ Pool!InState("ready")' = {} /\ Pool!InState("out")' = {}
    BY <2>1, <2>2 DEF Pool!InState
  <2>4. /\ u.s.ready = Pool!NewState.ready /\ u.s.checkedOut = Pool!NewState.checkedOut
        /\ u.g.idle = gauge.idle /\ gauge.idle = Cardinality(Pool!InState("ready"))
        /\ u.g.used = u.s.checkedOut.total
    BY <1>3, <1>4, <1>9, <2>1, CurFacts DEF Counted, Sound, PoolInv, Alone
  <2>5. u.g.idle = 0 /\ u.g.used = 0
    BY <2>3, <2>4, NewCounts, FS_EmptySet
  <2>6. Cur' = u /\ gauge' = u.g
    BY <1>1, <1>4, Handled
  <2>7. \A n \in IDs : u.s.ready.byID[n] = 0 /\ u.s.checkedOut.byID[n] = 0
    BY <2>4, NewCounts
  <2>8. \A q \in Pool!OpenPools' :
          (Holds(Cur.s.ready, q, {"ready", "out"}) /\ Holds(Cur.s.checkedOut, q, {"out"}))'
    BY <2>2, <2>6, <2>7 DEF Holds
  <2>9. u.g.idle = u.s.ready.total - u.s.checkedOut.total
    BY <2>4, <2>5, NewCounts
  <2>. QED
    BY <2>3, <2>5, <2>6, <2>8, <2>9, FS_EmptySet DEF Alone
<1>10. CASE shared
  BY <1>1, <1>8, <1>10 DEF Alone, Pool!Handle
<1>. QED
  BY <1>8, <1>9, <1>10

\* ConnectionPoolClosed: one pool fewer, and with the last one everything goes.
LEMMA ShutStep ==
  ASSUME PoolInv, ~disabled, NEW p \in Pools, Pool!Closed(p)
  PROVE  GaugesOK' /\ Tracks' /\ Alone'
<1>. DEFINE u == Pool!PoolClosed(Cur)
<1>1. /\ pool[p] = "open" /\ pool' = [pool EXCEPT ![p] = "closed"]
      /\ UNCHANGED <<conn, waiting>> /\ Pool!Handle(u) /\ Pool!Checkouts' = Pool!Checkouts
  BY DEF Pool!Closed, Pool!Checkouts, Cur
<1>2. /\ Sound(Cur) /\ Cur.g = gauge
      /\ Cur.s.livePools = Cardinality(Pool!OpenPools) /\ Cardinality(Pool!OpenPools) \in Nat
  BY CurFacts
<1>3. Pool!OpenPools' = Pool!OpenPools \ {p} /\ p \in Pool!OpenPools
  BY <1>1, CloseOne DEF PoolInv
<1>4. /\ IsFiniteSet(Pool!OpenPools') /\ Cardinality(Pool!OpenPools') = Cardinality(Pool!OpenPools) - 1
      /\ Cardinality(Pool!OpenPools') \in Nat
  BY <1>3, FS_RemoveElement, FS_CardinalityType DEF PoolInv, DriverFinite
<1>5. Pool!OpenPools' = {} <=> Cardinality(Pool!OpenPools') = 0
  BY <1>4, FS_EmptySet
<1>6. Cur.s.pending = Cardinality(Pool!Checkouts)
  BY <1>3, CurFacts
<1>7. CASE Pool!OpenPools' # {}
  <2>1. Cur.s.livePools > 1
    BY <1>2, <1>4, <1>5, <1>7
  <2>2. Sound(u) /\ Counted(u, Cur.s.ready, Cur.s.checkedOut, Cur.s.livePools - 1, Cur.s.pending, Cur.g.idle)
    BY <1>2, <2>1, NotLastOK
  <2>. HIDE DEF u
  <2>3. GaugesOK' /\ Tracks'
    BY <1>1, <1>2, <1>4, <1>6, <1>7, <2>2, TracksStep DEF Counted
  <2>4. shared
    BY <1>3, <1>7 DEF PoolInv, DriverInv, Pool!OpenPools
  <2>. QED
    BY <1>1, <2>3, <2>4 DEF Alone, Pool!Handle
<1>8. CASE Pool!OpenPools' = {}
  <2>1. Cur.s.livePools = 1
    BY <1>2, <1>4, <1>5, <1>8
  <2>2. /\ u.s = Pool!None /\ u.g \in GaugeRec
        /\ u.g.used = 0 /\ u.g.pending = 0 /\ u.g.min = 0 /\ u.g.max = 0
        /\ Cur.g.idle = Cur.s.ready.total - Cur.s.checkedOut.total /\ Cur.g.idle >= 0 => u.g.idle = 0
    BY <1>2, <2>1, LastOK
  <2>. HIDE DEF u
  <2>3. state' = u.s /\ gauge' = u.g /\ ~disabled' /\ shared' = shared
    BY <1>1 DEF Pool!Handle
  <2>4. Sound(Cur') /\ Cur'.s = Pool!NewState /\ Cur'.g = gauge' /\ GaugesOK'
    BY <2>2, <2>3, NextNewCur
  <2>5. Tracks'
    BY <1>5, <1>8, <2>2, <2>3, <2>4, NewCounts DEF Tracks
  <2>6. ASSUME ~shared PROVE Alone'
    <3>1. Pool!InState("ready")' = {} /\ Pool!InState("out")' = {}
      BY <1>8 DEF Pool!InState
    <3>2. /\ gauge.idle = Cardinality(Pool!InState("ready")) /\ IsFiniteSet(Pool!InState("ready"))
          /\ gauge.idle = Cur.s.ready.total - Cur.s.checkedOut.total
      BY <2>6 DEF PoolInv, Alone
    <3>3. u.g.idle = 0
      BY <1>2, <2>2, <3>2, FS_CardinalityType
    <3>4. Cur'.s = Pool!NewState
      BY <2>4
    <3>. QED
      BY <1>8, <2>2, <2>3, <3>1, <3>3, <3>4, NewCounts, FS_EmptySet DEF Alone
  <2>7. CASE shared
    BY <2>3, <2>4, <2>5, <2>7 DEF Alone
  <2>. QED
    BY <2>4, <2>5, <2>6, <2>7
<1>. QED
  BY <1>7, <1>8

-----------------------------------------------------------------------------
\* The gauges, and what the tracker knows, after every step.
LEMMA PoolNext == PoolInv /\ [Pool!Next]_Pool!vars => PoolInv'
<1>. SUFFICES ASSUME PoolInv, [Pool!Next]_Pool!vars PROVE PoolInv'
  OBVIOUS
<1>1. DriverTypes' /\ DriverInv' /\ DriverFinite'
  BY DriverStep DEF PoolInv
<1>2. GaugesOK' /\ Tracks' /\ Alone'
  <2>1. CASE disabled
    <3>1. UNCHANGED gauge /\ disabled'
      BY <2>1 DEF Pool!Next, Pool!vars, Pool!PoolStep, Pool!ConnectionStep, Pool!Created, Pool!Ready, Pool!Cleared,
             Pool!Closed, Pool!CheckOutStarted, Pool!CheckOutFailed, Pool!ConnectionCreated, Pool!ConnectionReady,
             Pool!ConnectionClosed, Pool!CheckedOut, Pool!CheckedIn, Pool!Cleanup, Pool!Terminated, Pool!Handle
    <3>. QED
      BY <3>1 DEF PoolInv, GaugesOK, Tracks, Alone
  <2>2. CASE ~disabled
    <3>1. ASSUME NEW p \in Pools, Pool!PoolStep(p) PROVE GaugesOK' /\ Tracks' /\ Alone'
      BY <2>2, <3>1, OpenedStep, RestatedStep, ShutStep, StartedStep, FailedStep DEF Pool!PoolStep
    <3>2. ASSUME NEW p \in Pools, NEW n \in IDs, Pool!ConnectionStep(p, n) PROVE GaugesOK' /\ Tracks' /\ Alone'
      BY <2>2, <3>2, CreatedStep, ReadyStep, ClosedStep, CheckedOutStep, CheckedInStep DEF Pool!ConnectionStep
    <3>3. CASE Pool!Cleanup
      <4>1. gauge' = gauge /\ disabled'
        BY <3>3 DEF Pool!Cleanup
      <4>. QED
        BY <4>1 DEF PoolInv, GaugesOK, Tracks, Alone
    <3>4. CASE Pool!Terminated \/ UNCHANGED Pool!vars
      <4>1. UNCHANGED <<shared, pool, conn, waiting, state, gauge, disabled>>
        BY <3>4 DEF Pool!Terminated, Pool!vars, Pool!driver
      <4>2. Cur' = Cur
        BY <4>1 DEF Cur, Pool!Tracker, Pool!StateOf
      <4>3. /\ Pool!OpenPools' = Pool!OpenPools /\ Pool!Checkouts' = Pool!Checkouts
            /\ Pool!InState("ready")' = Pool!InState("ready") /\ Pool!InState("out")' = Pool!InState("out")
        BY <4>1 DEF Pool!OpenPools, Pool!Checkouts, Pool!InState
      <4>. QED
        BY <4>1, <4>2, <4>3 DEF PoolInv, GaugesOK, Tracks, Alone, Holds
    <3>. QED
      BY <3>1, <3>2, <3>3, <3>4 DEF Pool!Next
  <2>. QED
    BY <2>1, <2>2
<1>. QED
  BY <1>1, <1>2 DEF PoolInv

\* The component's Cardinality is the library's.
LEMMA PoolCardinality == ASSUME NEW S PROVE Pool!Cardinality(S) = Cardinality(S)
  BY DEF Pool!Cardinality, Cardinality

\* What the invariant says of the gauges.
LEMMA PoolTruth == PoolInv => PoolGaugesExact
<1>. SUFFICES ASSUME PoolInv PROVE PoolGaugesExact
  OBVIOUS
<1>1. Pool!GaugesMatchPool
  BY PoolCardinality DEF PoolInv, Alone, Pool!GaugesMatchPool
<1>2. ~disabled => /\ gauge.used = Cur.s.checkedOut.total /\ gauge.pending = Cur.s.pending
                   /\ gauge.min = Cur.s.emittedMin /\ gauge.max = Cur.s.emittedMax
                   /\ Pool!OpenPools # {} => Cur.s.pending = Cardinality(Pool!Checkouts)
                   /\ Pool!OpenPools = {} => Cur.s = Pool!NewState
  BY CurFacts DEF Sound
<1>3. Pool!PendingExact
  BY <1>2, PoolCardinality DEF PoolInv, GaugesOK, Pool!PendingExact
<1>4. /\ Pool!NewState.checkedOut.total = 0 /\ Pool!NewState.pending = 0
      /\ Pool!NewState.emittedMin = 0 /\ Pool!NewState.emittedMax = 0
  BY NewCounts DEF Pool!NewState
<1>5. Pool!LastCloseClears
  BY <1>2, <1>4 DEF Pool!LastCloseClears
<1>. QED
  BY <1>1, <1>3, <1>5 DEF PoolGaugesExact

\* MongoDB: the gauges say what the pools hold, for any number of pools, connections
\* and checkouts, whether clients share the options or not.
THEOREM PoolTheorem == Pool!Spec => []PoolGaugesExact
<1>1. Pool!Init => PoolInv
  BY PoolInit
<1>2. PoolInv /\ [Pool!Next]_Pool!vars => PoolInv'
  BY PoolNext
<1>3. PoolInv => PoolGaugesExact
  BY PoolTruth
<1>. QED
  BY <1>1, <1>2, <1>3, PTL DEF Pool!Spec
==============================================================================
