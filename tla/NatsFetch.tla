------------------------------ MODULE NatsFetch ------------------------------
(***************************************************************************)
(* One batch of Consumer.Fetch, FetchBytes or FetchNoWait of               *)
(* nats/jetstream.go: the native pull, the goroutine of wrapMessageBatch   *)
(* that forwards its messages into a buffered channel, the application     *)
(* that reads the channel or abandons it and asks for Error, and the calls *)
(* of Stop.  Messages are counted: channels keep their order.              *)
(*                                                                         *)
(* External: the pull below oteljetstream.  It ends when it has delivered  *)
(* what was asked for, when it expires, or, if it was given the fetch      *)
(* context, when that is cancelled; its channel is closed once what        *)
(* arrived was taken, or when the upstream batch was stopped.              *)
(***************************************************************************)
EXTENDS Naturals

CONSTANTS
  Requests,            \* the calls an application may make
  fetchBytesBatchBuf,  \* the channel's size for FetchBytes
  Stoppers             \* goroutines that call Stop

\* cap: how many messages the pull may deliver; bounded: cap is the batch the
\* caller asked for, and not what fits its number of bytes; waits: the pull
\* waits for messages; maxWait: opts has FetchMaxWait.
Request == [cap : Nat \ {0}, bounded : BOOLEAN, waits : BOOLEAN, maxWait : BOOLEAN]

ASSUME FetchAssumption ==
  /\ Requests \subseteq Request
  /\ fetchBytesBatchBuf \in Nat \ {0}

VARIABLES
  req,        \* the request
  phase,      \* the Fetch call: "call", "retry", "returned", "failed"
  wired,      \* the pull has the fetch context
  ctxDone,    \* the caller's context is cancelled
  cancelled,  \* cancel() was called
  pull,       \* the native pull: "none", "waiting", "ended"
  err,        \* its terminal error
  mbStopped,  \* Stop was called upstream
  arrived,    \* messages the pull delivered
  taken,      \* of those, received by the forwarding goroutine
  sent,       \* of those, sent to the channel
  got,        \* of those, read by the application
  forward,    \* the forwarding goroutine
  closed,     \* the channel is closed
  done,       \* done is closed
  stop,       \* where each call of Stop is
  reader,     \* the application
  seen        \* the error Error has seen, then what it returned

pullVars == <<pull, err, mbStopped, arrived>>
chanVars == <<taken, sent, got, forward, closed>>
userVars == <<done, stop, reader, seen>>
vars == <<req, phase, wired, ctxDone, cancelled, pullVars, chanVars, userVars>>

fixed == <<req, phase, wired>>

\* Faulty variant: one size for all.
BufSizeFixed == fetchBytesBatchBuf

\* The size of the channel.
BufSize == IF req.bounded THEN req.cap ELSE fetchBytesBatchBuf
-----------------------------------------------------------------------------
(***************************************************************************)
(* Fetch, FetchBytes, FetchNoWait.                                         *)
(***************************************************************************)
Start(w) ==
  /\ phase' = "returned"
  /\ wired' = w
  /\ pull' = "waiting"
  /\ forward' = "receive"
  /\ UNCHANGED cancelled

Fail ==
  /\ phase' = "failed"
  /\ cancelled' = TRUE
  /\ UNCHANGED <<wired, pull, forward>>

\* The native call with the fetch context, or without one (FetchNoWait), after
\* the caller's context was found alive.  FetchMaxWait is refused next to it.
CallFetch ==
  /\ phase = "call"
  /\ \/ ctxDone /\ Fail
     \/ ~ctxDone /\ ~req.maxWait /\ Start(req.waits)
     \/ ~ctxDone /\ Fail
     \/ /\ ~ctxDone /\ req.maxWait
        /\ phase' = "retry"
        /\ UNCHANGED <<wired, cancelled, pull, forward>>
  /\ UNCHANGED <<req, ctxDone, err, mbStopped, arrived, taken, sent, got, closed, userVars>>

\* Faulty variant: the error path forgets the fetch context.
RetryFetchLeaks ==
  /\ phase = "retry"
  /\ \/ Start(FALSE)
     \/ phase' = "failed" /\ UNCHANGED <<wired, pull, forward, cancelled>>
  /\ UNCHANGED <<req, ctxDone, err, mbStopped, arrived, taken, sent, got, closed, userVars>>

\* fetchWithCtxFallback calls again without the fetch context.
RetryFetch ==
  /\ phase = "retry"
  /\ Start(FALSE) \/ Fail
  /\ UNCHANGED <<req, ctxDone, err, mbStopped, arrived, taken, sent, got, closed, userVars>>
-----------------------------------------------------------------------------
(***************************************************************************)
(* The caller's context and the native pull.                               *)
(***************************************************************************)
CancelCtx ==
  /\ ~ctxDone
  /\ ctxDone' = TRUE
  /\ UNCHANGED <<fixed, cancelled, pullVars, chanVars, userVars>>

Arrive ==
  /\ pull = "waiting"
  /\ arrived < req.cap
  /\ arrived' = arrived + 1
  /\ UNCHANGED <<fixed, ctxDone, cancelled, pull, err, mbStopped, chanVars, userVars>>

FetchCtxDone == wired /\ (ctxDone \/ cancelled)

\* The fetch context ends the pull.
PullCancelled ==
  /\ pull = "waiting" /\ FetchCtxDone
  /\ pull' = "ended" /\ err' = "canceled"
  /\ UNCHANGED <<fixed, ctxDone, cancelled, mbStopped, arrived, chanVars, userVars>>

\* The pull is complete, or expires; a fetch context without a deadline need
\* not make it.
PullExpires ==
  /\ pull = "waiting"
  /\ pull' = "ended"
  /\ UNCHANGED <<fixed, ctxDone, cancelled, err, mbStopped, arrived, chanVars, userVars>>
-----------------------------------------------------------------------------
(***************************************************************************)
(* wrapMessageBatch's goroutine.                                           *)
(***************************************************************************)

\* Faulty variant: it does not notice that there will be no more messages.
ReceiveSpins ==
  /\ forward = "receive"
  /\ \/ /\ taken < arrived
        /\ taken' = taken + 1
        /\ forward' = "send"
     \/ /\ done
        /\ forward' = "cancel"
        /\ UNCHANGED taken
     \/ /\ pull = "ended" /\ taken = arrived
        /\ UNCHANGED <<taken, forward>>
  /\ UNCHANGED <<fixed, ctxDone, cancelled, pullVars, sent, got, closed, userVars>>

\* The outer select: a message, the end of the messages, or done.
Receive ==
  /\ forward = "receive"
  /\ \/ /\ taken < arrived
        /\ taken' = taken + 1
        /\ forward' = "send"
     \/ /\ (pull = "ended" /\ taken = arrived) \/ mbStopped \/ done
        /\ forward' = "cancel"
        /\ UNCHANGED taken
  /\ UNCHANGED <<fixed, ctxDone, cancelled, pullVars, sent, got, closed, userVars>>

\* Faulty variant: it also gives up when the fetch context is done.
SendCancelled ==
  /\ forward = "send"
  /\ \/ /\ sent - got < BufSize
        /\ sent' = sent + 1
        /\ forward' = "receive"
     \/ /\ done \/ FetchCtxDone
        /\ forward' = "cancel"
        /\ UNCHANGED sent
  /\ UNCHANGED <<fixed, ctxDone, cancelled, pullVars, taken, got, closed, userVars>>

\* The inner select: the channel has room, or done.
Send ==
  /\ forward = "send"
  /\ \/ /\ sent - got < BufSize
        /\ sent' = sent + 1
        /\ forward' = "receive"
     \/ /\ done
        /\ forward' = "cancel"
        /\ UNCHANGED sent
  /\ UNCHANGED <<fixed, ctxDone, cancelled, pullVars, taken, got, closed, userVars>>

\* The deferred calls, last first.
DeferredCancel ==
  /\ forward = "cancel"
  /\ forward' = "close"
  /\ cancelled' = TRUE
  /\ UNCHANGED <<fixed, ctxDone, pullVars, taken, sent, got, closed, userVars>>

DeferredClose ==
  /\ forward = "close"
  /\ forward' = "exited"
  /\ closed' = TRUE
  /\ UNCHANGED <<fixed, ctxDone, cancelled, pullVars, taken, sent, got, userVars>>
-----------------------------------------------------------------------------
(***************************************************************************)
(* The application: Messages, Error and Stop.                              *)
(***************************************************************************)
Read ==
  /\ reader = "reading" /\ phase = "returned"
  /\ \/ /\ got < sent
        /\ got' = got + 1
        /\ UNCHANGED reader
     \/ /\ got = sent /\ closed
        /\ reader' = "finished"
        /\ UNCHANGED got
  /\ UNCHANGED <<fixed, ctxDone, cancelled, pullVars, taken, sent, forward, closed, done, stop, seen>>

Abandon ==
  /\ reader = "reading" /\ phase = "returned"
  /\ reader' = "abandoned"
  /\ UNCHANGED <<fixed, ctxDone, cancelled, pullVars, chanVars, done, stop, seen>>

\* Error reads the upstream error first ...
CallError ==
  /\ reader \in {"finished", "abandoned"}
  /\ reader' = "error"
  /\ seen' = err
  /\ UNCHANGED <<fixed, ctxDone, cancelled, pullVars, chanVars, done, stop>>

\* ... and done after it.
ErrorReturns ==
  /\ reader = "error"
  /\ reader' = "told"
  /\ seen' = IF seen = "canceled" /\ done THEN "none" ELSE seen
  /\ UNCHANGED <<fixed, ctxDone, cancelled, pullVars, chanVars, done, stop>>

StopGoes(t, pc) == stop' = [stop EXCEPT ![t] = pc]

\* stopOnce: the first call does it, the others wait for it and return.
EnterStop(t) ==
  /\ stop[t] = "idle" /\ phase = "returned"
  /\ \/ (\A u \in Stoppers : stop[u] = "idle") /\ StopGoes(t, "close")
     \/ (\E u \in Stoppers : stop[u] = "stopped") /\ StopGoes(t, "stopped")
  /\ UNCHANGED <<fixed, ctxDone, cancelled, pullVars, chanVars, done, reader, seen>>

\* Faulty variant: the pull is cancelled before done is closed.
StopClosesSecond(t) ==
  /\ stop[t] = "close"
  /\ cancelled' = TRUE
  /\ StopGoes(t, "cancel")
  /\ UNCHANGED <<fixed, ctxDone, pullVars, chanVars, done, reader, seen>>

StopCloses(t) ==
  /\ stop[t] = "close"
  /\ done' = TRUE
  /\ StopGoes(t, "cancel")
  /\ UNCHANGED <<fixed, ctxDone, cancelled, pullVars, chanVars, reader, seen>>

StopCancels(t) ==
  /\ stop[t] = "cancel"
  /\ cancelled' = TRUE
  /\ StopGoes(t, "upstream")
  /\ UNCHANGED <<fixed, ctxDone, pullVars, chanVars, done, reader, seen>>

StopUpstream(t) ==
  /\ stop[t] = "upstream"
  /\ mbStopped' = TRUE
  /\ StopGoes(t, "stopped")
  /\ UNCHANGED <<fixed, ctxDone, cancelled, pull, err, arrived, chanVars, done, reader, seen>>
-----------------------------------------------------------------------------
Init ==
  /\ req \in Requests
  /\ phase = "call" /\ wired = FALSE /\ ctxDone \in BOOLEAN /\ cancelled = FALSE
  /\ pull = "none" /\ err = "none" /\ mbStopped = FALSE /\ arrived = 0
  /\ taken = 0 /\ sent = 0 /\ got = 0 /\ forward = "none" /\ closed = FALSE
  /\ done = FALSE /\ stop = [t \in Stoppers |-> "idle"]
  /\ reader = "reading" /\ seen = "none"

Forward == Receive \/ Send \/ DeferredCancel \/ DeferredClose

StopStep(t) == StopCloses(t) \/ StopCancels(t) \/ StopUpstream(t)

\* Nothing is left to do: the call failed, or the batch is over.
Terminated ==
  /\ phase = "failed" \/ forward = "exited"
  /\ UNCHANGED vars

Next ==
  \/ CallFetch \/ RetryFetch
  \/ CancelCtx \/ Arrive \/ PullCancelled \/ PullExpires
  \/ Forward
  \/ Read \/ Abandon \/ CallError \/ ErrorReturns
  \/ \E t \in Stoppers : EnterStop(t) \/ StopStep(t)
  \/ Terminated

Spec == Init /\ [][Next]_vars

(***************************************************************************)
(* Fairness: goroutines that can run do; a pull reacts to its context,     *)
(* ends with FetchMaxWait where that was given, and by itself if it does   *)
(* not wait.  Nothing is asked of the reader, of the server or of any      *)
(* other pull.                                                             *)
(***************************************************************************)
Fairness ==
  /\ WF_vars(Forward)
  /\ \A t \in Stoppers : WF_vars(StopStep(t))
  /\ WF_vars(PullCancelled)
  /\ WF_vars((req.maxWait \/ ~req.waits) /\ PullExpires)

-----------------------------------------------------------------------------
(***************************************************************************)
(* Properties.                                                             *)
(***************************************************************************)
TypeOK ==
  /\ req \in Requests
  /\ phase \in {"call", "retry", "returned", "failed"}
  /\ wired \in BOOLEAN /\ ctxDone \in BOOLEAN /\ cancelled \in BOOLEAN
  /\ pull \in {"none", "waiting", "ended"} /\ err \in {"none", "canceled"}
  /\ mbStopped \in BOOLEAN
  /\ arrived \in Nat /\ taken \in Nat /\ sent \in Nat /\ got \in Nat
  /\ forward \in {"none", "receive", "send", "cancel", "close", "exited"}
  /\ closed \in BOOLEAN /\ done \in BOOLEAN
  /\ stop \in [Stoppers -> {"idle", "close", "cancel", "upstream", "stopped"}]
  /\ reader \in {"reading", "finished", "abandoned", "error", "told"}
  /\ seen \in {"none", "canceled"}

\* Abandoning a batch with a message-count bound is safe: the goroutine never
\* waits for room in the channel, whether or not anybody reads.
NeverBlocks == req.bounded /\ forward = "send" => sent - got < BufSize

\* The channel of a batch nobody stopped is closed only when every message the
\* server counts as delivered is in it, also when the caller's context ended.
NothingLost == closed /\ ~done => sent = arrived

\* Error reports a cancellation only if the caller's own context was cancelled,
\* never the one Stop makes, at whatever moments the two calls overlap.
ErrorBlamesCaller == reader = "told" /\ seen = "canceled" => ctxDone

\* The fetch context does not outlive its use: it is cancelled when Fetch has
\* failed and when the forwarding goroutine is gone.
NoContextLeak == phase = "failed" \/ forward = "exited" => cancelled

\* A batch keeps what the package says of it, whoever reads or stops it: its
\* goroutine and its context are not left behind, no delivered message is lost,
\* and Error blames nobody for a Stop.
BatchSound == NeverBlocks /\ NothingLost /\ ErrorBlamesCaller /\ NoContextLeak

\* A batch ends without its reader: once stopped, or once a bounded one's pull
\* is over, the goroutine exits and the channel is closed; and that, like Stop,
\* ends the native pull, also one that waits for messages that never come.
BatchEnds ==
  /\ done \/ (req.bounded /\ pull = "ended") ~> forward = "exited" /\ closed
  /\ done \/ forward = "exited" ~> pull = "ended"
=============================================================================
