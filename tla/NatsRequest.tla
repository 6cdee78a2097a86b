----------------------------- MODULE NatsRequest -----------------------------
(***************************************************************************)
(* Conn.Request and RequestMsg (nats/conn.go, withRequestTimeout) in the   *)
(* loop the godoc has in mind: a caller with a budget, its context's       *)
(* deadline, asks again while the error is nats.ErrTimeout.  Time is       *)
(* discrete, passes at any moment, and a context's timer fires at its      *)
(* deadline or later.                                                      *)
(***************************************************************************)
EXTENDS Naturals

CONSTANTS Timeouts,    \* timeouts a call may give
          MaxTime      \* the last instant, a bound of the model

None == "none"

VARIABLES
  now,          \* the clock
  budget,       \* the deadline of the caller's context
  ctxErr,       \* its Err(): None, "deadline" or "canceled"
  pc,           \* "idle", "entered", "created", "waiting", "returned" or "stopped"
  deadline,     \* of the call's own context
  reqErr,       \* its Err()
  noTimeLeft,   \* the variable of the same name
  sent,         \* the request went out
  entered,      \* the instant of the call
  err           \* what the call returned: a set of the sentinels errors.Is finds

vars == <<now, budget, ctxErr, pc, deadline, reqErr, noTimeLeft, sent, entered, err>>

Init ==
  /\ now = 0 /\ budget \in 1..MaxTime /\ ctxErr = None /\ pc = "idle"
  /\ deadline = 0 /\ reqErr = None /\ noTimeLeft = FALSE /\ sent = FALSE /\ entered = 0 /\ err = {}

Tick ==
  /\ now < MaxTime /\ now' = now + 1
  /\ UNCHANGED <<budget, ctxErr, pc, deadline, reqErr, noTimeLeft, sent, entered, err>>

\* The caller's context ends, and the call's own with it.
CtxEnds(why) ==
  /\ ctxErr = None /\ why \in {"deadline", "canceled"}
  /\ why = "deadline" => now >= budget
  /\ ctxErr' = why
  /\ reqErr' = IF reqErr = None /\ pc \in {"created", "waiting"} THEN why ELSE reqErr
  /\ UNCHANGED <<now, budget, pc, deadline, noTimeLeft, sent, entered, err>>

\* The timer of the call's own context.
ReqTimer ==
  /\ pc \in {"created", "waiting"} /\ reqErr = None /\ now >= deadline
  /\ reqErr' = "deadline"
  /\ UNCHANGED <<now, budget, ctxErr, pc, deadline, noTimeLeft, sent, entered, err>>

-----------------------------------------------------------------------------

\* Faulty variant: the timeout alone, the caller's deadline left to its context.
DeadlineOfTimeout(timeout) == now + timeout

\* The earlier of the two deadlines.
DeadlineOf(timeout) == IF budget < now + timeout THEN budget ELSE now + timeout

\* The call, up to the deadline.
Request(timeout) ==
  /\ pc = "idle"
  /\ pc' = "entered" /\ deadline' = DeadlineOf(timeout) /\ entered' = now /\ sent' = FALSE
  /\ UNCHANGED <<now, budget, ctxErr, reqErr, noTimeLeft, err>>

\* context.WithDeadline: a parent with an earlier deadline keeps its own timer
\* (external), else a deadline already past ends the new context at once.
WithDeadline ==
  /\ pc = "entered"
  /\ pc' = "created"
  /\ reqErr' = IF ctxErr # None THEN ctxErr
               ELSE IF budget >= deadline /\ now >= deadline THEN "deadline" ELSE None
  /\ noTimeLeft' = (reqErr' # None)
  /\ UNCHANGED <<now, budget, ctxErr, deadline, sent, entered, err>>

\* Faulty variant: every deadline error is a timeout.
ReturnsAlways(e) ==
  /\ pc' = "returned"
  /\ err' = IF e = "deadline" THEN {"deadline", "timeout"} ELSE {e}

\* What withRequestTimeout makes of the error of nats.go.
Returns(e) ==
  /\ pc' = "returned"
  /\ err' = IF ~noTimeLeft /\ e = "deadline" THEN {"deadline", "timeout"} ELSE {e}

\* nats.go looks at the context, and sends (external).
Send ==
  /\ pc = "created"
  /\ IF reqErr # None THEN Returns(reqErr) /\ UNCHANGED sent
     ELSE pc' = "waiting" /\ sent' = TRUE /\ UNCHANGED err
  /\ UNCHANGED <<now, budget, ctxErr, deadline, reqErr, noTimeLeft, entered>>

\* The wait ends: the context, a reply, or another error, such as no responders.
WaitEnds ==
  /\ pc = "waiting"
  /\ \E e \in {reqErr, "reply", "other"} : e # None /\ Returns(e)
  /\ UNCHANGED <<now, budget, ctxErr, deadline, reqErr, noTimeLeft, sent, entered>>

\* The caller's loop.
Again ==
  /\ pc = "returned"
  /\ pc' = IF "timeout" \in err THEN "idle" ELSE "stopped"
  /\ UNCHANGED <<now, budget, ctxErr, deadline, reqErr, noTimeLeft, sent, entered, err>>

Step == WithDeadline \/ Send \/ WaitEnds \/ Again \/ \E t \in Timeouts : Request(t)

Next == Tick \/ ReqTimer \/ Step \/ \E why \in {"deadline", "canceled"} : CtxEnds(why)

Spec == Init /\ [][Next]_vars

\* Time passes, timers fire, and nats.go returns when the context has ended.
Fairness ==
  /\ WF_vars(Tick) /\ WF_vars(ReqTimer) /\ WF_vars(CtxEnds("deadline"))
  /\ WF_vars(WithDeadline \/ Send \/ Again \/ \E t \in Timeouts : Request(t))
  /\ WF_vars(WaitEnds /\ reqErr # None)

-----------------------------------------------------------------------------

(***************************************************************************)
(* nats.ErrTimeout says what it says in nats.go: the call had time when it *)
(* began, its deadline passed, and the caller did not cancel it; and a     *)
(* request that was sent and ran out of time always says so.  A call made  *)
(* once the budget is spent never does, even while the caller's context    *)
(* has not noticed yet, so a loop that asks again on a timeout stops.      *)
(***************************************************************************)
TimeoutHonest ==
  pc \in {"returned", "stopped"} =>
    /\ "timeout" \in err => now >= deadline /\ reqErr = "deadline"
    /\ sent /\ "deadline" \in err => "timeout" \in err
    /\ "timeout" \in err => entered < budget /\ (~sent => entered < deadline)

\* The loop ends once the budget is spent, whatever the timers' lag.
LoopEnds == <>(pc = "stopped")
=============================================================================
