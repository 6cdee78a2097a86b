----------------------------- MODULE PromLabels ------------------------------
(***************************************************************************)
(* Attribute keys and the Prometheus labels they render as                 *)
(* (internal/metrics/reserved.go and resourcekeys.go).  A key is a         *)
(* sequence of characters; the SDK's own keys are shortened to their       *)
(* initials: service.name is s.n, process.pid is p.i, the prefix           *)
(* otel_scope_ is o_, the prefix key_ is k_ and the label le is l.         *)
(***************************************************************************)
EXTENDS Naturals, Sequences, FiniteSets, SequencesExt

\* The characters, in their order as bytes.
Alphabet == <<" ", "-", ".", "0", "_", "a", "d", "h", "i", "k", "l", "n", "o", "p", "r", "s", "t", "u">>
Alphanumeric(c) == c \notin {" ", "-", ".", "_"}
Digit(c) == c = "0"

Rank(c) == CHOOSE i \in DOMAIN Alphabet : Alphabet[i] = c

Keys == Seq({Alphabet[i] : i \in DOMAIN Alphabet})

\* a sorts before b: it ends, or is smaller, where they differ first.
Before(a, b) ==
  \E i \in 1..Len(b) : /\ \A j \in 1..(i - 1) : j <= Len(a) /\ a[j] = b[j]
                       /\ i <= Len(a) => Rank(a[i]) < Rank(b[i])

Sorted(keys) ==
  [i \in 1..Cardinality(keys) |->
     CHOOSE k \in keys : Cardinality({j \in keys : Before(j, k)}) = i - 1]

-----------------------------------------------------------------------------
(* The keys and labels the SDK owns *)

ServiceName == <<"s", ".", "n">>
IdentityResourceKeys == {ServiceName, <<"d", ".", "n">>}
DetectedResourceKeys == {<<"t", ".", "n">>, <<"p", ".", "i">>, <<"h", ".", "n">>}
TelemetrySDKLabelPrefix == <<"t", "_">>
ProcessLabelPrefix == <<"p", "_">>
ScopeLabelPrefix == <<"o", "_">>
ExposedFormatLabels == {<<"l">>}

-----------------------------------------------------------------------------

IsTranslatorReservedShape(k) ==
  /\ Len(k) >= 4
  /\ \A i \in {1, 2, Len(k) - 1, Len(k)} : k[i] = "_"

HasAlphanumeric(k) == \E i \in DOMAIN k : Alphanumeric(k[i])

\* Everything else becomes an underscore, runs of them one.
CollapseStep(out, c) ==
  IF Alphanumeric(c) THEN Append(out, c)
  ELSE IF out # <<>> /\ Last(out) = "_" THEN out ELSE Append(out, "_")

Collapse(k) ==
  LET out[i \in 0..Len(k)] == IF i = 0 THEN <<>> ELSE CollapseStep(out[i - 1], k[i])
  IN  out[Len(k)]

\* What n pairs of double underscores surround, and how many pairs are kept.
Inside(k, n) == SubSeq(k, 2 * n + 1, Len(k) - 2 * n)
Depth(k) ==
  CHOOSE n \in 0..Len(k) : /\ ~IsTranslatorReservedShape(Inside(k, n))
                           /\ \A m \in 0..(n - 1) : IsTranslatorReservedShape(Inside(k, m))

NormalizePrometheusLabelName(k) ==
  LET n     == Depth(k)
      out   == Collapse(Inside(k, n))
      marks == [i \in 1..(2 * n) |-> "_"]
  IN  marks \o (IF out # <<>> /\ Digit(out[1]) THEN <<"k", "_">> \o out ELSE out) \o marks

\* How much of want the key matches when it is normalised on the fly, and
\* whether it was consumed.
MatchStep(m, c, want) ==
  LET out == IF Alphanumeric(c) THEN c ELSE "_"
  IN  CASE ~m.complete \/ (out = "_" /\ m.prevUnderscore) -> m
        [] OTHER -> IF m.matched < Len(want) /\ want[m.matched + 1] = out
                    THEN [matched |-> m.matched + 1, complete |-> TRUE, prevUnderscore |-> out = "_"]
                    ELSE [m EXCEPT !.complete = FALSE]

NormalizedMatchLen(k, want) ==
  LET walk[i \in 0..Len(k)] ==
        IF i = 0 THEN [matched |-> 0, complete |-> TRUE, prevUnderscore |-> FALSE]
        ELSE MatchStep(walk[i - 1], k[i], want)
  IN  walk[Len(k)]

NormalizedEquals(k, want) ==
  LET m == NormalizedMatchLen(k, want) IN m.complete /\ m.matched = Len(want)

NormalizedHasPrefix(k, prefix) == NormalizedMatchLen(k, prefix).matched = Len(prefix)

\* buildReservedPromLabels
ReservedPromLabels ==
  {NormalizePrometheusLabelName(k) : k \in IdentityResourceKeys} \cup ExposedFormatLabels

\* Checked against the labels that start with the key's first character.
IsReservedAttributeKey(k) ==
  \/ k = <<>>
  \/ IsTranslatorReservedShape(k)
  \/ ~HasAlphanumeric(k)
  \/ k[1] = ScopeLabelPrefix[1] /\ NormalizedHasPrefix(k, ScopeLabelPrefix)
  \/ \E want \in ReservedPromLabels : want[1] = k[1] /\ NormalizedEquals(k, want)

-----------------------------------------------------------------------------
(* Resource keys *)

SameLabel(a, b) == NormalizePrometheusLabelName(a) = NormalizePrometheusLabelName(b)

\* The SDK's key that renders as the label k does, or none.
ResourceKeyOwner(k) == {o \in IdentityResourceKeys \cup DetectedResourceKeys : SameLabel(k, o)}

IsTelemetrySDKKey(k) == IsPrefix(TelemetrySDKLabelPrefix, NormalizePrometheusLabelName(k))
IsProcessKey(k) == IsPrefix(ProcessLabelPrefix, NormalizePrometheusLabelName(k))

\* Of the keys that fit, visited in order, the first of every label.
KeepStep(kept, k, fit) ==
  IF k \in fit /\ \A i \in DOMAIN kept : ~SameLabel(kept[i], k) THEN Append(kept, k) ELSE kept

KeepFirst(keys, fit) ==
  LET order == Sorted(keys)
      kept[i \in 0..Len(order)] == IF i = 0 THEN <<>> ELSE KeepStep(kept[i - 1], order[i], fit)
  IN  kept[Len(order)]

\* What otelprom and client_golang do not take as a label: one with nothing
\* but underscores, and one with two in front (external).
Unrenderable(label) == (\A i \in DOMAIN label : label[i] = "_") \/ IsPrefix(<<"_", "_">>, label)

\* What the exporter or the format puts on a series by itself (external).
OwnedByExporter(label) ==
  label \in ReservedPromLabels \/ IsPrefix(ScopeLabelPrefix, label)
=============================================================================
