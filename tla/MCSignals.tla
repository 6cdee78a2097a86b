----------------------------- MODULE MCSignals ------------------------------
(***************************************************************************)
(* What ends up in logs and on spans: the suppression of repeated          *)
(* diagnostics, records through loggers derived from one another, the      *)
(* baggage of a request, and the errors of a request through nested gin    *)
(* chains.  They do not meet: each has variables of its own, and in the    *)
(* run each moves by itself.                                               *)
(***************************************************************************)
EXTENDS Suppressor, Sequences

CONSTANTS
  Batches, Records, MaxLoggers,                                    \* LogHandlers
  Incoming, MaxContexts, MaxWireMembers, MaxWireBytes, MaxBaggageValueBytes,   \* BaggageContext
  Chains, MaxErrors                                                \* GinChain

VARIABLES
  baggageOn, otlpOn, loggers, arrays, out,
  whitelist, contexts, refused, from, bagSpan,
  kind, depth, pc, ctx, saved, keys, ginSpan, traced, errors, events, status, seen

logVars == <<baggageOn, otlpOn, loggers, arrays, out>>
bagVars == <<whitelist, contexts, refused, from, bagSpan>>
ginVars == <<kind, depth, pc, ctx, saved, keys, ginSpan, traced, errors, events, status, seen>>

Logs == INSTANCE LogHandlers
Bag == INSTANCE BaggageContext WITH span <- bagSpan
Gin == INSTANCE GinChain WITH span <- ginSpan

\* What comes in is finite, and only an empty value is encoded as nothing but its key.
ASSUME BaggageAssumption ==
  /\ \A bag \in Incoming :
       /\ IsFiniteSet(DOMAIN bag)
       /\ bag \in [DOMAIN bag -> [raw : Nat, wire : Nat]]
       /\ \A k \in DOMAIN bag : bag[k].raw = 0 => bag[k].wire = 0
  /\ MaxWireMembers \in Nat /\ MaxWireBytes \in Nat /\ MaxBaggageValueBytes \in Nat

\* A call gives a sequence of attributes, each of some kind, in a group or not.
IsAttrs(attrs) ==
  /\ attrs \in Seq({attrs[n] : n \in DOMAIN attrs})
  /\ \A n \in DOMAIN attrs :
       /\ attrs[n] = Logs!Attr(attrs[n].key, attrs[n].kind, attrs[n].in)
       /\ attrs[n].kind \in {"plain", "error", "valuer"} /\ attrs[n].in \in {"", "inline", "named"}

ASSUME LogsAssumption == \A attrs \in Batches \cup {r.attrs : r \in Records} : IsAttrs(attrs)

\* There is a chain.
ASSUME ChainsAssumption == Chains \in Nat \ {0}

-----------------------------------------------------------------------------

\* Logs: a record has what slog promises of its logger, on stdout and over OTLP.
LoggedAsGiven == Logs!LoggedAsGiven

\* Baggage: what is sent on keeps the limits, what is recorded the whitelist.
BaggageWithinLimits == Bag!BaggageWithinLimits

\* Gin: a chain's errors are on its own span, each once.
ErrorsOnOwnSpan == Gin!ErrorsOnOwnSpan

-----------------------------------------------------------------------------
(***************************************************************************)
(* The instance the run checks.  Two reporters and three messages,         *)
(* attributes and members of every kind.                                   *)
(***************************************************************************)

CONSTANTS r1, r2, m1, m2, m3

\* Attributes for a logger and for a record: values of every kind, under the key
\* of a baggage member and another, in groups and not.
A(key, k, in) == [key |-> key, kind |-> k, in |-> in]
SomeBatches == {<<A("user", "plain", ""), A("a", "error", "")>>, <<A("a", "valuer", "inline")>>}
SomeRecords ==
  {[attrs |-> attrs, low |-> FALSE] : attrs \in
     {<<A("user", "valuer", "")>>, <<A("user", "plain", "inline"), A("a", "error", "")>>,
      <<A("user", "error", "named")>>}} \cup {[attrs |-> <<>>, low |-> TRUE]}

\* Baggage within the limits, with a member no header can carry, with one that is
\* too long, and beyond the limits.
V(raw, wire) == [raw |-> raw, wire |-> wire]
SomeIncoming ==
  {<<>>, [odd |-> V(1, 1)], [k1 |-> V(3, 3)], [reserved |-> V(1, 1), user |-> V(1, 1)],
   [reserved |-> V(2, 2), x |-> V(2, 3), y |-> V(1, 1)]}

VARIABLE which

SignalsInit ==
  /\ which \in {"suppressor", "logs", "baggage", "gin"}
  /\ Init /\ Logs!Init /\ Bag!Init /\ Gin!Init
  /\ which # "logs" => ~baggageOn /\ ~otlpOn
  /\ which # "baggage" => whitelist = {"k1"} /\ contexts = <<<<>>>>
  /\ which # "gin" => kind = [c \in 1..Chains |-> "plain"]

SignalsNext ==
  \/ which = "suppressor" /\ Next /\ UNCHANGED <<which, logVars, bagVars, ginVars>>
  \/ which = "logs" /\ Logs!Next /\ UNCHANGED <<which, vars, bagVars, ginVars>>
  \/ which = "baggage" /\ Bag!Next /\ UNCHANGED <<which, vars, logVars, ginVars>>
  \/ which = "gin" /\ Gin!Next /\ UNCHANGED <<which, vars, logVars, bagVars>>

SignalsSpec == SignalsInit /\ [][SignalsNext]_<<which, vars, logVars, bagVars, ginVars>>
=============================================================================
