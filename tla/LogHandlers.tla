----------------------------- MODULE LogHandlers -----------------------------
(***************************************************************************)
(* The slog handler chain of the SDK (internal/log): baggage, then a       *)
(* fan-out to the OTLP bridge, behind a level gate and the conversion of   *)
(* errors, and to stdout, behind the handler that keeps the trace fields   *)
(* above the groups.  Loggers are derived from one another with attributes *)
(* and groups; a slice of attributes is an array and a length, as several  *)
(* loggers may hold slices of one array.                                   *)
(***************************************************************************)
EXTENDS Naturals, Sequences, SequencesExt, FiniteSets

CONSTANTS
  Batches,    \* sequences of attributes given to With
  Records,    \* a record: its attributes and whether it is below the level
  MaxLoggers

\* An attribute: its key, its kind ("plain", "error" or "valuer"), and whether
\* it comes in a group of its own, named or to be inlined.
Attr(key, kind, in) == [key |-> key, kind |-> kind, in |-> in]
BaggageKey == "user"

VARIABLES
  baggageOn,   \* the whitelist is not empty
  otlpOn,      \* the log pillar is on
  loggers,     \* the loggers derived so far, the root first
  arrays,      \* the arrays behind the slices
  out          \* what the last record left behind

vars == <<baggageOn, otlpOn, loggers, arrays, out>>

\* An attribute where it is written, by which derivation, as which of its own.
At(path, a, by, nth) ==
  [path |-> IF a.in = "named" THEN Append(path, "sub") ELSE path,
   key |-> a.key, kind |-> a.kind, by |-> by, nth |-> nth]

Placed(path, attrs, by) == [n \in DOMAIN attrs |-> At(path, attrs[n], by, n)]

\* What a sequence has at some of its places, in its order.
Selected(s, places) ==
  LET taken[i \in 0..Len(s)] ==
        IF i = 0 THEN <<>> ELSE IF i \in places THEN Append(taken[i - 1], s[i]) ELSE taken[i - 1]
  IN  taken[Len(s)]

-----------------------------------------------------------------------------
(* What handlers do to attributes *)

\* resolveAttr: a LogValuer is resolved when the logger is derived or the
\* record emitted.
Resolve(attrs, when) ==
  [i \in DOMAIN attrs |-> [attrs[i] EXCEPT !.kind = IF @ = "valuer" THEN when ELSE @]]

\* stringifyErrors, and what slog's JSON handler does as well (external).
StringifyErrors(attrs) ==
  [i \in DOMAIN attrs |-> [attrs[i] EXCEPT !.kind = IF @ = "error" THEN "string" ELSE @]]

\* The bridge takes an error out of the attributes (external).
Bridge(attrs, when) ==
  LET as == Resolve(attrs, when) IN Selected(as, {i \in DOMAIN as : as[i].kind # "error"})
JSON(attrs, when) == StringifyErrors(Resolve(attrs, when))

\* collectSameLevelKeys, suppressShadowed: an inlined group's keys count.
SameLevelKeys(attrs) ==
  {IF a.in = "named" THEN "sub" ELSE a.key : a \in Range(attrs)}

-----------------------------------------------------------------------------
(* Slices *)

Elements(s) == IF s.len = 0 THEN <<>> ELSE SubSeq(arrays[s.array], 1, s.len)

\* The room append leaves, which is the runtime's choice (external).
Spare == <<"unused", "unused">>

\* Faulty variant: the attributes are appended without clipping, into what
\* is left of the array.
AppendClippedShared(s, xs) ==
  IF s.array # 0 /\ s.len + Len(xs) <= Len(arrays[s.array])
  THEN arrays' = [arrays EXCEPT ![s.array] =
                    [i \in DOMAIN @ |-> IF i \in (s.len + 1)..(s.len + Len(xs)) THEN xs[i - s.len] ELSE @[i]]]
  ELSE arrays' = Append(arrays, Elements(s) \o xs \o Spare)

\* append(slices.Clip(s), xs...): a new array, with room to spare.
AppendClipped(s, xs) == arrays' = Append(arrays, Elements(s) \o xs \o Spare)

\* Where the append put the slice.
Appended(s, xs) ==
  [array |-> IF Len(arrays') > Len(arrays) THEN Len(arrays') ELSE s.array, len |-> s.len + Len(xs)]

-----------------------------------------------------------------------------

NewOTelHandler == [base |-> <<>>, groups |-> <<>>]
NewErrorStringHandler == [path |-> <<>>, attrs |-> <<>>]

\* A logger: the BaggageHandler's keys, the handlers of stdout and of OTLP, and
\* what it was derived by.
Root == [presetKeys |-> {}, stdout |-> NewOTelHandler, otlp |-> NewErrorStringHandler, ops |-> <<>>]

Init ==
  /\ baggageOn \in BOOLEAN /\ otlpOn \in BOOLEAN
  /\ loggers = <<Root>> /\ arrays = <<>> /\ out = <<>>

Serial == Len(loggers)

Derive(l, attrs, group, preset, stdout, otlp) ==
  loggers' = Append(loggers, [presetKeys |-> preset, stdout |-> stdout, otlp |-> otlp,
                              ops |-> Append(l.ops, [attrs |-> attrs, group |-> group, by |-> Serial])])

Names(groups) == [i \in DOMAIN groups |-> groups[i].name]

\* OtelSlogHandler.WithAttrs: above the groups the base handler formats them.
OtelWithAttrs(h, attrs) ==
  IF h.groups = <<>>
  THEN [h EXCEPT !.base = @ \o Placed(<<>>, JSON(attrs, "derived"), Serial)]
  ELSE LET s  == Last(h.groups).attrs
           xs == Placed(Names(h.groups), Resolve(attrs, "derived"), Serial)
       IN  [h EXCEPT !.groups[Len(h.groups)].attrs = Appended(s, xs)]

\* leveledHandler, which keeps its level, over ErrorStringHandler over the bridge.
OtlpWithAttrs(h, attrs) ==
  [h EXCEPT !.attrs = @ \o Placed(h.path, Bridge(StringifyErrors(attrs), "derived"), Serial)]

WithAttrs(i, attrs) ==
  LET l      == loggers[i]
      given  == IF baggageOn THEN Resolve(attrs, "derived") ELSE attrs
      groups == l.stdout.groups
  IN  /\ Len(loggers) < MaxLoggers /\ out = <<>>
      /\ IF groups = <<>> THEN UNCHANGED arrays
         ELSE AppendClipped(Last(groups).attrs, Placed(Names(groups), Resolve(given, "derived"), Serial))
      /\ Derive(l, attrs, "",
                IF baggageOn THEN l.presetKeys \cup SameLevelKeys(attrs) ELSE {},
                OtelWithAttrs(l.stdout, given), OtlpWithAttrs(l.otlp, given))
      /\ UNCHANGED <<baggageOn, otlpOn, out>>

\* An empty name changes nothing.
WithGroup(i, name) ==
  LET l == loggers[i]
  IN  /\ name # "" /\ Len(loggers) < MaxLoggers /\ out = <<>>
      /\ Derive(l, <<>>, name, {},
                [l.stdout EXCEPT !.groups = Append(@, [name |-> name, attrs |-> [array |-> 0, len |-> 0]])],
                [l.otlp EXCEPT !.path = Append(@, name)])
      /\ UNCHANGED <<baggageOn, otlpOn, arrays, out>>

-----------------------------------------------------------------------------
(* A record *)

\* BaggageHandler.Handle: what the logger or the record has at this level wins.
BaggageHandle(l, attrs, bag) ==
  IF ~baggageOn \/ ~bag THEN attrs
  ELSE Resolve(attrs, "emitted")
         \o (IF BaggageKey \in l.presetKeys \cup SameLevelKeys(attrs) THEN <<>>
             ELSE <<Attr(BaggageKey, "plain", "baggage")>>)

TraceFields(valid) ==
  IF valid THEN <<[path |-> <<>>, key |-> "traceId", kind |-> "plain", by |-> 0, nth |-> 0]>> ELSE <<>>

\* regroup: the frames' attributes and the record's, each in its groups.
Regroup(groups, attrs) ==
  FlattenSeq([i \in DOMAIN groups |-> Elements(groups[i].attrs)]) \o Placed(Names(groups), attrs, 0)

\* OtelSlogHandler.Handle and the JSON handler.
OtelHandle(h, attrs, valid) ==
  h.base \o JSON(Regroup(h.groups, attrs), "emitted") \o TraceFields(valid)

\* The record itself has the trace's identity (external).
OtlpHandle(h, attrs, valid) ==
  h.attrs \o Placed(h.path, Bridge(StringifyErrors(attrs), "emitted"), 0) \o TraceFields(valid)

\* MultiHandler.Handle: every enabled handler gets the record, whichever fails.
Handle(i, r, valid, bag, failing) ==
  LET l       == loggers[i]
      attrs   == BaggageHandle(l, r.attrs, bag)
      enabled == {s \in {"stdout", "otlp"} : ~r.low /\ (s = "otlp" => otlpOn)}
  IN  /\ out = <<>>
      /\ out' = [logger |-> i, record |-> r, valid |-> valid, bag |-> bag, failing |-> failing,
                 sinks |-> [s \in enabled |-> IF s = "stdout" THEN OtelHandle(l.stdout, attrs, valid)
                                              ELSE OtlpHandle(l.otlp, attrs, valid)],
                 err |-> enabled \cap failing # {}]
      /\ UNCHANGED <<baggageOn, otlpOn, loggers, arrays>>

Next ==
  \/ \E i \in DOMAIN loggers, attrs \in Batches : WithAttrs(i, attrs)
  \/ \E i \in DOMAIN loggers, name \in {"", "g"} : WithGroup(i, name)
  \/ /\ out = <<>>
     /\ \E i \in DOMAIN loggers, r \in Records, valid, bag \in BOOLEAN :
          \E failing \in {{}, {"otlp"}} : Handle(i, r, valid, bag, failing)

Spec == Init /\ [][Next]_vars

-----------------------------------------------------------------------------
(* What slog says a logger with these derivations writes *)

GroupsOf(ops) ==
  LET gs == Selected(ops, {i \in DOMAIN ops : ops[i].group # ""}) IN [i \in DOMAIN gs |-> gs[i].group]

Final(attr, when) ==
  [attr EXCEPT !.kind = CASE @ = "valuer" -> when [] @ = "error" -> "string" [] OTHER -> @]

\* What the i-th derivation gave, in the groups that were open by then.
GivenBy(ops, i) ==
  {Final(At(GroupsOf(SubSeq(ops, 1, i)), ops[i].attrs[n], ops[i].by, n), "derived") :
     n \in DOMAIN ops[i].attrs}

Given(ops) == UNION {GivenBy(ops, i) : i \in DOMAIN ops}

Expected ==
  LET ops   == loggers[out.logger].ops
      attrs == out.record.attrs
      path  == GroupsOf(ops)
      own   == {Final(At(path, attrs[n], 0, n), "emitted") : n \in DOMAIN attrs}
      taken == \E a \in Given(ops) \cup own : a.path = path /\ a.key = BaggageKey
  IN  Given(ops) \cup own
        \cup (IF baggageOn /\ out.bag /\ ~taken
              THEN {At(path, Attr(BaggageKey, "plain", "baggage"), 0, Len(attrs) + 1)} ELSE {})
        \cup Range(TraceFields(out.valid))

(***************************************************************************)
(* Whatever loggers were derived from one another, in which order, a       *)
(* record has on stdout and over OTLP what slog promises: each attribute   *)
(* once, in its groups, as it was given to this logger and no sibling; a   *)
(* LogValuer resolved when its logger was derived; an error under its own  *)
(* key.  The trace fields are above every group, and baggage gives way to  *)
(* the caller's keys at its level.  Both sinks get the record or neither   *)
(* does, and one that fails is reported and does not stop the other.       *)
(***************************************************************************)
LoggedAsGiven ==
  out # <<>> =>
    LET sinks == IF out.record.low THEN {} ELSE {"stdout"} \cup (IF otlpOn THEN {"otlp"} ELSE {})
    IN  /\ DOMAIN out.sinks = sinks
        /\ out.err <=> sinks \cap out.failing # {}
        /\ \A s \in sinks : Range(out.sinks[s]) = Expected /\ IsInjective(out.sinks[s])
=============================================================================
