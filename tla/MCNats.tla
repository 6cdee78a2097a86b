------------------------------- MODULE MCNats -------------------------------
(***************************************************************************)
(* The NATS package: a pull (NatsFetch), a caller's requests (NatsRequest) *)
(* and a message's headers (NatsPropagation), each with variables of its   *)
(* own.  In the run each moves by itself.                                  *)
(***************************************************************************)
EXTENDS NatsFetch

CONSTANTS Timeouts,    \* timeouts a call of Request may give
          MaxTime,     \* the last instant, a bound of the model
          MaxHops      \* times a message is sent on, a bound of the model

\* Time and hops are counted in whole numbers.
ASSUME NatsAssumption == Timeouts \subseteq Nat /\ MaxTime \in Nat /\ MaxHops \in Nat

VARIABLES
  now, budget, ctxErr, pc, deadline, reqErr, noTimeLeft, reqSent, entered, reqReturn,
  conn, settings, header, injected, traced, flipped, handler

callVars == <<now, budget, ctxErr, pc, deadline, reqErr, noTimeLeft, reqSent, entered, reqReturn>>
msgVars  == <<conn, settings, header, injected, traced, flipped, handler>>

Call == INSTANCE NatsRequest WITH sent <- reqSent, err <- reqReturn

Msg == INSTANCE NatsPropagation

-----------------------------------------------------------------------------

\* Request: nats.ErrTimeout says the request ran out of its own time.
TimeoutHonest == Call!TimeoutHonest

\* A message: Extract finds the last injection of this package, or of the older
\* SDKs that alone wrote it, and a Subscribe handler gets that one's baggage with
\* its span.
ContextArrives == Msg!ContextArrives

-----------------------------------------------------------------------------
(***************************************************************************)
(* The instance the run checks.  Fetch, Fetch with FetchMaxWait,           *)
(* FetchNoWait, and FetchBytes with more messages than its channel holds.  *)
(***************************************************************************)

CONSTANTS t1, t2

Fetch       == [cap |-> 3, bounded |-> TRUE, waits |-> TRUE, maxWait |-> FALSE]
FetchNoWait == [Fetch EXCEPT !.waits = FALSE]
FetchBytes  == [Fetch EXCEPT !.bounded = FALSE]

AllRequests == {Fetch, [Fetch EXCEPT !.maxWait = TRUE], FetchNoWait,
                FetchBytes, [FetchBytes EXCEPT !.maxWait = TRUE]}

VARIABLE which    \* the part this behaviour is about

NatsInit ==
  /\ which \in {"batch", "request", "message"}
  /\ Init /\ Call!Init /\ Msg!Init
  /\ which # "batch" => req = Fetch
  /\ which # "request" => budget = 1
  /\ which # "message" =>
       settings = [option |-> TRUE, env |-> "unset", master |-> "on", relay |-> "none"]

NatsNext ==
  \/ which = "batch" /\ Next /\ UNCHANGED <<which, callVars, msgVars>>
  \/ which = "request" /\ Call!Next /\ UNCHANGED <<which, vars, msgVars>>
  \/ which = "message" /\ Msg!Next /\ UNCHANGED <<which, vars, callVars>>

NatsSpec ==
  /\ NatsInit /\ [][NatsNext]_<<which, vars, callVars, msgVars>>
  /\ \/ which = "batch" /\ Fairness
     \/ which = "request" /\ Call!Fairness
     \/ which = "message"

-----------------------------------------------------------------------------

\* A batch ends without its reader, with its pull; and a caller that asks again
\* on a timeout stops when its budget is spent.
NatsEnds == (which = "batch" => BatchEnds) /\ (which = "request" => Call!LoopEnds)
=============================================================================
