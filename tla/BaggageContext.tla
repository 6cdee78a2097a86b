---------------------------- MODULE BaggageContext ----------------------------
(***************************************************************************)
(* Baggage on its way through a service (internal/baggageattrs): it comes  *)
(* with a request, handlers derive contexts that set and remove members,   *)
(* spans and log records take the whitelisted ones, and a call to another  *)
(* service writes the header.                                              *)
(***************************************************************************)
EXTENDS Naturals, FiniteSets, Sequences

CONSTANTS
  Incoming,      \* baggage a request may come with
  MaxContexts,
  MaxWireMembers, MaxWireBytes, MaxBaggageValueBytes

\* A value: its bytes, and those of its encoding, 0 if it is no UTF-8.
Value(raw, wire) == [raw |-> raw, wire |-> wire]
NoValue == Value(0, 0)
UserNameKey == "user"
\* Keys a caller sets: two of its own, one the SDK reserves, the user's, and one
\* that is no token, which has no place in a header.
Keys == {"k1", "k2", "reserved", UserNameKey, "odd"}
Values == {NoValue, Value(1, 1), Value(1, 3), Value(2, 2), Value(3, 3), Value(1, 0)}

VARIABLES
  whitelist,   \* the keys that become attributes
  contexts,    \* the contexts, each a function of its members
  refused,     \* the last call returned an error
  from,        \* the context the last call was given
  span         \* the attributes a span has, and those a record gets

vars == <<whitelist, contexts, refused, from, span>>

-----------------------------------------------------------------------------

ValidBaggageKey(k) == k \in {"k1", "k2"}

\* Members that cannot be encoded are not in the header (external).
OnWire(bag) == {k \in DOMAIN bag : k # "odd"}

\* baggage.String (external): the bytes of a member, its encoded value's numbered
\* from 1 and its key with the separators as one more.
Bytes(bag) == UNION {{k} \X (0..bag[k].wire) : k \in OnWire(bag)}

WireBytes(bag) == Cardinality(Bytes(bag))

\* Faulty variant: the limits are checked before the member is set.
WithinLimitsBefore(bag, k, v) ==
  Cardinality(OnWire(bag)) <= MaxWireMembers /\ WireBytes(bag) <= MaxWireBytes

SetMember(bag, k, v) == [x \in DOMAIN bag \cup {k} |-> IF x = k THEN v ELSE bag[x]]

\* Both limits, of one serialization of what would be sent.
WithinLimits(bag, k, v) ==
  LET candidate == SetMember(bag, k, v)
  IN  Cardinality(OnWire(candidate)) <= MaxWireMembers /\ WireBytes(candidate) <= MaxWireBytes

\* contextWithValue: the context it returns, and whether with an error.
ContextWithValueOf(bag, k, v) ==
  IF v = NoValue THEN [bag |-> bag, err |-> FALSE]
  ELSE IF v.raw <= MaxBaggageValueBytes /\ v.wire > 0 /\ WithinLimits(bag, k, v)
    THEN [bag |-> SetMember(bag, k, v), err |-> FALSE]
    ELSE [bag |-> bag, err |-> TRUE]

\* Each call derives a context; the ones there are stay as they are.
Derive(i, r) ==
  /\ contexts' = Append(contexts, r.bag) /\ refused' = r.err /\ from' = i
  /\ UNCHANGED <<whitelist, span>>

Room == Len(contexts) < MaxContexts

ContextWithValue(i, k, v) ==
  /\ Room
  /\ Derive(i, IF ValidBaggageKey(k) THEN ContextWithValueOf(contexts[i], k, v)
               ELSE [bag |-> contexts[i], err |-> TRUE])

ContextWithUser(i, v) == Room /\ Derive(i, ContextWithValueOf(contexts[i], UserNameKey, v))

ContextWithoutValues(i, keys) ==
  /\ Room
  /\ Derive(i, [bag |-> [k \in DOMAIN contexts[i] \ keys |-> contexts[i][k]], err |-> FALSE])

\* SpanAttributesFromContext and LogAttrsFromContext.
AttributesFromContext(bag) ==
  {k \in whitelist \cap DOMAIN bag : bag[k] # NoValue /\ bag[k].raw <= MaxBaggageValueBytes}

\* spanProcessor.OnStart: what the span has already stays.
OnStart(i, own) ==
  LET attrs == AttributesFromContext(contexts[i])
  IN  /\ span = <<>>
      /\ span' = [ctx |-> i, log |-> attrs,
                  attrs |-> [k \in own \cup attrs |-> IF k \in own THEN "own" ELSE "baggage"]]
      /\ UNCHANGED <<whitelist, contexts, refused, from>>

-----------------------------------------------------------------------------

Init ==
  /\ whitelist \in {{"k1"}, {"k1", UserNameKey}}
  /\ \E bag \in Incoming : contexts = <<bag>>
  /\ refused = FALSE /\ from = 1 /\ span = <<>>

Next ==
  \/ \E i \in DOMAIN contexts, k \in Keys, v \in Values : ContextWithValue(i, k, v)
  \/ \E i \in DOMAIN contexts, v \in Values : ContextWithUser(i, v)
  \/ \E i \in DOMAIN contexts, keys \in {{"k1"}, {"k1", UserNameKey}} : ContextWithoutValues(i, keys)
  \/ \E i \in DOMAIN contexts, own \in {{}, {"k1"}} : OnStart(i, own)

Spec == Init /\ [][Next]_vars

-----------------------------------------------------------------------------

\* What a header may carry.
Sendable(bag) == Cardinality(OnWire(bag)) <= MaxWireMembers /\ WireBytes(bag) <= MaxWireBytes

(***************************************************************************)
(* What a service sends on is within the limits of a header whenever it    *)
(* was when it came in, or else has no more in it than came in; a call     *)
(* that is refused leaves its context's baggage alone and no other         *)
(* context is touched by it; a reserved key is there only if it came in;   *)
(* and a span and a record take the same members, none that is not         *)
(* whitelisted or too long, wherever it came from, and none over the       *)
(* span's own.                                                             *)
(***************************************************************************)
BaggageWithinLimits ==
  LET first == contexts[1]
      last  == contexts[Len(contexts)]
  IN  /\ \A i \in DOMAIN contexts :
           \/ Sendable(contexts[i])
           \/ ~Sendable(first) /\ \A k \in DOMAIN contexts[i] : k \in DOMAIN first
      /\ refused => last = contexts[from]
      /\ \A i \in DOMAIN contexts : "reserved" \in DOMAIN contexts[i] => "reserved" \in DOMAIN first
      /\ span # <<>> =>
           /\ {k \in DOMAIN span.attrs : span.attrs[k] = "baggage"} \subseteq span.log
           /\ span.log \subseteq DOMAIN span.attrs \cap whitelist
           /\ \A k \in span.log : contexts[span.ctx][k].raw \in 1..MaxBaggageValueBytes
=============================================================================
