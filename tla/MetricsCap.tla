----------------------------- MODULE MetricsCap ------------------------------
(***************************************************************************)
(* internal/metricscap: the cap on the distinct values of one attribute,   *)
(* applied where metrics leave the process.  A stream is an instrument of  *)
(* an instrumentation scope; its series differ in the capped value only.   *)
(* Scrapes (Gatherer.Gather) run concurrently, OTLP exports one after the  *)
(* other; both look every series up in the bucket of its rule, one series  *)
(* at a time under the bucket's mutex, and merge what became equal.        *)
(*                                                                         *)
(* The metric SDK is external: it adds up measurements per series and      *)
(* hands out a snapshot of the cumulative sums, in no order.               *)
(***************************************************************************)
EXTENDS Integers, FiniteSets

CONSTANTS
  Streams,    \* instruments, told apart by scope
  Values,     \* attribute values measured
  Overflow,   \* OverflowValue; an application may measure it as well
  Budgets,    \* distinct-value budgets
  BudgetOf,   \* the budget of each stream's rule, or NoRule
  NoRule,     \* no usable rule matches the stream
  Max,        \* the cap of each budget
  Scrapes,    \* collections, each run once
  MaxTotal    \* bound on the measurements

ASSUME CapAssumption ==
  /\ NoRule \notin Budgets
  /\ BudgetOf \in [Streams -> Budgets \cup {NoRule}]
  /\ Max \in [Budgets -> Nat \ {0}]
  /\ MaxTotal \in Nat

VARIABLES
  count,    \* the cumulative sum of each series
  total,    \* measurements so far
  seen,     \* bucket.seen of each budget
  scrape,   \* where each collection is
  snap,     \* the sums it was handed
  label,    \* the value it exports each series under, once observed
  shown     \* every answer observe gave: <<budget, value, label>>

vars == <<count, total, seen, scrape, snap, label, shown>>

Series == Streams \X Values

\* Series the SDK has: it exports none that was never measured.
Present(c) == {x \in Series : snap[c][x] > 0}

\* Faulty variant: one value too many.
AdmitsOneMore(b, v) == Cardinality(seen[b]) <= Max[b]

\* bucket.observe has room for a value it has not seen.
Admits(b, v) == Cardinality(seen[b]) < Max[b]

\* bucket.observe(v).
Observed(b, v) == IF v \in seen[b] \/ Admits(b, v) THEN v ELSE Overflow

\* Faulty variant: the last of the series that became equal wins.
MergeLast(c, i, l) ==
  LET points == {x \in Present(c) : x[1] = i /\ label[c][x] = l}
  IN  IF points = {} THEN 0 ELSE snap[c][CHOOSE x \in points : TRUE]

\* mergeSums: the sum of the series of stream i exported under label l, which
\* is zero when there is none.  A sum counts measurements, here told apart by
\* their series and their number in it.
Merge(c, i, l) ==
  LET points == {x \in Present(c) : x[1] = i /\ label[c][x] = l}
  IN  Cardinality(UNION {{x} \X (1..snap[c][x]) : x \in points})
-----------------------------------------------------------------------------
\* The application measures.
Record(x) ==
  /\ total < MaxTotal
  /\ total' = total + 1
  /\ count' = [count EXCEPT ![x] = @ + 1]
  /\ UNCHANGED <<seen, scrape, snap, label, shown>>

\* Faulty variant: each scrape starts from an empty bucket.
GatherReset(c) ==
  /\ scrape[c] = "new"
  /\ scrape' = [scrape EXCEPT ![c] = "rewriting"]
  /\ snap' = [snap EXCEPT ![c] = count]
  /\ seen' = [b \in Budgets |-> {}]
  /\ UNCHANGED <<count, total, label, shown>>

\* The wrapped gatherer, or the reader, hands out a snapshot.
Gather(c) ==
  /\ scrape[c] = "new"
  /\ scrape' = [scrape EXCEPT ![c] = "rewriting"]
  /\ snap' = [snap EXCEPT ![c] = count]
  /\ UNCHANGED <<count, total, seen, label, shown>>

\* One series is rewritten: its value is observed in the bucket of its rule.
Rewrite(c, x) ==
  LET b == BudgetOf[x[1]]
      v == x[2]
  IN  /\ scrape[c] = "rewriting"
      /\ x \in Present(c) \ DOMAIN label[c]
      /\ \/ /\ b = NoRule
            /\ label' = [label EXCEPT ![c] = [y \in DOMAIN @ \cup {x} |-> IF y = x THEN v ELSE @[y]]]
            /\ UNCHANGED <<seen, shown>>
         \/ /\ b # NoRule
            /\ label' = [label EXCEPT ![c] =
                 [y \in DOMAIN @ \cup {x} |-> IF y = x THEN Observed(b, v) ELSE @[y]]]
            /\ seen' = [seen EXCEPT ![b] = IF Admits(b, v) THEN @ \cup {v} ELSE @]
            /\ shown' = shown \cup {<<b, v, Observed(b, v)>>}
      /\ UNCHANGED <<count, total, scrape, snap>>

\* Every series is rewritten: the ones that became equal are merged and the
\* result goes to the scraper or the exporter.
Export(c) ==
  /\ scrape[c] = "rewriting"
  /\ DOMAIN label[c] = Present(c)
  /\ scrape' = [scrape EXCEPT ![c] = "done"]
  /\ UNCHANGED <<count, total, seen, snap, label, shown>>

\* The bounds are reached.
Terminated ==
  /\ total = MaxTotal
  /\ \A c \in Scrapes : scrape[c] = "done"
  /\ UNCHANGED vars
-----------------------------------------------------------------------------
Init ==
  /\ count = [x \in Series |-> 0]
  /\ total = 0
  /\ seen = [b \in Budgets |-> {}]
  /\ scrape = [c \in Scrapes |-> "new"]
  /\ snap = [c \in Scrapes |-> count]
  /\ label = [c \in Scrapes |-> <<>>]
  /\ shown = {}

Next ==
  \/ \E x \in Series : Record(x)
  \/ \E c \in Scrapes : \/ Gather(c)
                        \/ \E x \in Series : Rewrite(c, x)
                        \/ Export(c)
  \/ Terminated

Spec == Init /\ [][Next]_vars
-----------------------------------------------------------------------------
(***************************************************************************)
(* Properties.                                                             *)
(***************************************************************************)
TypeOK ==
  /\ count \in [Series -> Nat]
  /\ seen \in [Budgets -> SUBSET Values]
  /\ scrape \in [Scrapes -> {"new", "rewriting", "done"}]
  /\ snap \in [Scrapes -> [Series -> Nat]]
  /\ shown \subseteq Budgets \X Values \X (Values \cup {Overflow})

\* The values a budget's rules ever exported under their own name.
RealShown(b) == {v \in Values : <<b, v, v>> \in shown}

\* observe's contract: over all scrapes and all streams that share the budget,
\* at most Max values are exported under their own name.  An application's own
\* "other" is one of them when it was let in, not when it overflowed.
AtMostMaxReal ==
  \A b \in Budgets :
    Cardinality((RealShown(b) \ {Overflow}) \cup (seen[b] \cap {Overflow})) <= Max[b]

\* Streams that share a budget agree, at all times and in all scrapes, on which
\* values overflow: a value is never exported both ways.
NeverBothWays ==
  \A x, y \in shown : x[1] = y[1] /\ x[2] = y[2] => x[3] = y[3]

\* What all scrapes and all streams of a budget together say of its values:
\* at most Max under their own name, and each always in the same way.
BudgetShared == AtMostMaxReal /\ NeverBothWays

\* A cumulative series never goes backwards: of two collections the one with
\* the later snapshot exports no smaller sum under any label, the shared
\* overflow included, whatever order their series were rewritten in.
CumulativeKept ==
  \A c, d \in Scrapes :
    (/\ scrape[c] = "done" /\ scrape[d] = "done"
     /\ \A x \in Series : snap[c][x] <= snap[d][x])
    => \A i \in Streams, l \in Values \cup {Overflow} : Merge(c, i, l) <= Merge(d, i, l)
=============================================================================
