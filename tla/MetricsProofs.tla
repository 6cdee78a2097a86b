---------------------------- MODULE MetricsProofs ----------------------------
(***************************************************************************)
(* The contract of bucket.observe for any number of streams, values and    *)
(* concurrent scrapes, and what becomes of the export failures an SDK that *)
(* pushes its metrics has counted.                                         *)
(***************************************************************************)
EXTENDS MCMetrics, FiniteSetTheorems, SequenceTheorems, TLAPS

-----------------------------------------------------------------------------
(***************************************************************************)
(* The label cap.  Buckets stay within their cap (Capped), and an answer   *)
(* once given stays the answer (Settled).                                  *)
(***************************************************************************)

Answers == Budgets \X Values \X (Values \cup {Overflow})

\* The buckets hold values, no more than their cap.
Capped ==
  /\ seen \in [Budgets -> SUBSET Values]
  /\ \A b \in Budgets : IsFiniteSet(seen[b]) /\ Cardinality(seen[b]) <= Max[b]

\* An answer given is still the answer: an admitted value stays in the bucket,
\* and a value that overflowed did so in a bucket that is full for good.
StillTrue(b, v, l) ==
  \/ l = v /\ v \in seen[b]
  \/ l = Overflow /\ v \notin seen[b] /\ Cardinality(seen[b]) >= Max[b]

Settled ==
  /\ shown \subseteq Answers
  /\ \A b \in Budgets, v \in Values, l \in Values \cup {Overflow} :
       <<b, v, l>> \in shown => StillTrue(b, v, l)

Inv == Capped /\ Settled

\* The invariant holds initially: every bucket is empty and nothing is shown.
LEMMA InitInv == Init => Inv
  BY CapAssumption, FS_EmptySet DEF Init, Inv, Capped, Settled, Answers

\* observe keeps the invariant, for one value of one budget.
LEMMA ObserveInv ==
  ASSUME Inv, NEW b \in Budgets, NEW v \in Values,
         seen' = [seen EXCEPT ![b] = IF Admits(b, v) THEN @ \cup {v} ELSE @],
         shown' = shown \cup {<<b, v, Observed(b, v)>>}
  PROVE  Inv'
<1>1. Max[b] \in Nat /\ IsFiniteSet(seen[b]) /\ Cardinality(seen[b]) \in Nat
  BY CapAssumption, FS_CardinalityType DEF Inv, Capped
<1>2. IsFiniteSet(seen[b] \cup {v})
      /\ (v \notin seen[b] => Cardinality(seen[b] \cup {v}) = Cardinality(seen[b]) + 1)
      /\ (v \in seen[b] => seen[b] \cup {v} = seen[b])
  BY <1>1, FS_AddElement
<1>3. Capped'
  <2>1. seen' \in [Budgets -> SUBSET Values]
    BY DEF Inv, Capped
  <2>2. IsFiniteSet(seen'[b]) /\ Cardinality(seen'[b]) <= Max[b]
    <3>1. CASE seen'[b] = seen[b]
      BY <3>1 DEF Inv, Capped
    <3>2. CASE v \notin seen[b] /\ Cardinality(seen[b]) < Max[b] /\ seen'[b] = seen[b] \cup {v}
      BY <1>1, <1>2, <3>2
    <3>3. \/ seen'[b] = seen[b]
          \/ v \notin seen[b] /\ Cardinality(seen[b]) < Max[b] /\ seen'[b] = seen[b] \cup {v}
      BY <1>2 DEF Inv, Capped, Admits
    <3> QED BY <3>1, <3>2, <3>3
  <2>3. \A a \in Budgets \ {b} : seen'[a] = seen[a]
    BY DEF Inv, Capped
  <2> QED BY <2>1, <2>2, <2>3 DEF Inv, Capped
<1>4. \A a \in Budgets, w \in Values, l \in Values \cup {Overflow} :
        StillTrue(a, w, l) => StillTrue(a, w, l)'
  BY <1>1, <1>2 DEF Inv, Capped, StillTrue, Admits
<1>5. ASSUME NEW l \in Values \cup {Overflow}, l = Observed(b, v) PROVE StillTrue(b, v, l)'
  BY <1>1, <1>2, <1>5 DEF Inv, Capped, StillTrue, Admits, Observed
<1>6. Settled'
  <2>1. <<b, v, Observed(b, v)>> \in Answers
    BY DEF Answers, Observed
  <2>2. shown' \subseteq Answers
    BY <2>1 DEF Inv, Settled
  <2>3. ASSUME NEW a \in Budgets, NEW w \in Values, NEW l \in Values \cup {Overflow},
               <<a, w, l>> \in shown'
        PROVE  StillTrue(a, w, l)'
    <3>1. CASE <<a, w, l>> \in shown
      BY <1>4, <3>1 DEF Inv, Settled
    <3>2. CASE <<a, w, l>> = <<b, v, Observed(b, v)>>
      <4>1. a = b /\ w = v /\ l = Observed(b, v)
        BY <3>2
      <4> QED BY <1>5, <4>1 DEF StillTrue
    <3> QED BY <2>3, <3>1, <3>2
  <2> QED BY <2>2, <2>3 DEF Settled, Answers
<1> QED BY <1>3, <1>6 DEF Inv

\* Every step keeps the invariant.
LEMMA NextInv == Inv /\ [Next]_vars => Inv'
<1> SUFFICES ASSUME Inv, [Next]_vars PROVE Inv'
  OBVIOUS
<1>1. CASE UNCHANGED <<seen, shown>>
  BY <1>1 DEF Inv, Capped, Settled, StillTrue
<1>2. ASSUME NEW c \in Scrapes, NEW x \in Series, Rewrite(c, x) PROVE Inv'
  <2>1. CASE BudgetOf[x[1]] = NoRule
    BY <1>1, <1>2, <2>1 DEF Rewrite
  <2>2. CASE BudgetOf[x[1]] # NoRule
    <3>1. BudgetOf[x[1]] \in Budgets /\ x[2] \in Values
      BY <2>2, CapAssumption DEF Series
    <3> QED BY <1>2, <2>2, <3>1, ObserveInv DEF Rewrite
  <2> QED BY <2>1, <2>2
<1>3. CASE Next
  BY <1>1, <1>2, <1>3 DEF Next, Record, Gather, Export, Terminated, vars
<1> QED BY <1>1, <1>3 DEF vars

\* The invariant of the buckets and of the answers they gave.
THEOREM Invariance == Spec => []Inv
  BY InitInv, NextInv, PTL DEF Spec

\* At most Max values of a budget are ever exported under their own name,
\* whatever scrapes run concurrently.
THEOREM CapHolds == Spec => []AtMostMaxReal
<1>1. Inv => AtMostMaxReal
  <2> SUFFICES ASSUME Inv, NEW b \in Budgets
               PROVE  Cardinality((RealShown(b) \ {Overflow}) \cup (seen[b] \cap {Overflow}))
                        <= Max[b]
    BY DEF AtMostMaxReal
  <2> DEFINE S == (RealShown(b) \ {Overflow}) \cup (seen[b] \cap {Overflow})
  <2>1. S \subseteq seen[b]
    BY DEF Inv, Settled, StillTrue, RealShown
  <2>2. IsFiniteSet(seen[b]) /\ Cardinality(seen[b]) <= Max[b]
    BY DEF Inv, Capped
  <2>3. Cardinality(S) <= Cardinality(seen[b]) /\ IsFiniteSet(S)
    BY <2>1, <2>2, FS_Subset
  <2>4. Cardinality(S) \in Nat /\ Cardinality(seen[b]) \in Nat /\ Max[b] \in Nat
    BY <2>2, <2>3, FS_CardinalityType, CapAssumption
  <2> QED BY <2>2, <2>3, <2>4
<1> QED BY <1>1, Invariance, PTL

\* Streams that share a budget never disagree on a value, over all time.
THEOREM OneAnswer == Spec => []NeverBothWays
<1>1. Inv => NeverBothWays
  <2> SUFFICES ASSUME Inv, NEW x \in shown, NEW y \in shown, x[1] = y[1], x[2] = y[2]
               PROVE  x[3] = y[3]
    BY DEF NeverBothWays
  <2>1. x \in Answers /\ y \in Answers
    BY DEF Inv, Settled
  <2>2. x = <<x[1], x[2], x[3]>> /\ y = <<y[1], y[2], y[3]>>
    BY <2>1 DEF Answers
  <2>3. StillTrue(x[1], x[2], x[3]) /\ StillTrue(y[1], y[2], y[3])
    BY <2>1, <2>2 DEF Inv, Settled, Answers
  <2> QED BY <2>3 DEF StillTrue
<1> QED BY <1>1, Invariance, PTL

\* What scrapes and streams that share a budget say of its values is bounded and
\* consistent.
THEOREM BudgetTheorem == Spec => []BudgetShared
  BY CapHolds, OneAnswer, PTL DEF BudgetShared

-----------------------------------------------------------------------------
(***************************************************************************)
(* The sums.  A series is exported under the answer of its budget          *)
(* (Labelled), so of two collections the later has every measurement the   *)
(* earlier has under a label.                                              *)
(***************************************************************************)

\* A count of each member of S, as a set.
Slots(f, S) == UNION {{n} \X (1..f[n]) : n \in S}

\* What the set of slots has in it.
LEMMA SlotsHas ==
  ASSUME NEW S, NEW f, NEW x
  PROVE  x \in Slots(f, S) <=> \E n \in S : \E i \in 1..f[n] : x = <<n, i>>
  BY DEF Slots

\* One more.
LEMMA SlotsUp ==
  ASSUME NEW S, NEW f \in [S -> Nat], NEW n \in S, IsFiniteSet(Slots(f, S))
  PROVE  LET g == [f EXCEPT ![n] = @ + 1]
         IN  /\ IsFiniteSet(Slots(g, S))
             /\ Cardinality(Slots(g, S)) = Cardinality(Slots(f, S)) + 1
<1>. DEFINE g == [f EXCEPT ![n] = @ + 1]
           y == <<n, f[n] + 1>>
<1>1. g \in [S -> Nat] /\ g[n] = f[n] + 1 /\ \A m \in S \ {n} : g[m] = f[m]
  OBVIOUS
<1>. HIDE DEF g
<1>2. y \notin Slots(f, S)
  BY SlotsHas
<1>3. Slots(g, S) = Slots(f, S) \cup {y}
  <2>1. ASSUME NEW x \in Slots(g, S) PROVE x \in Slots(f, S) \cup {y}
    <3>1. PICK m \in S : \E i \in 1..g[m] : x = <<m, i>>
      BY <2>1, SlotsHas
    <3>2. PICK i \in 1..g[m] : x = <<m, i>>
      BY <3>1
    <3>3. i \in 1..f[m] \/ (m = n /\ i = f[n] + 1)
      BY <1>1
    <3>. QED
      BY <3>2, <3>3, SlotsHas
  <2>2. ASSUME NEW x \in Slots(f, S) PROVE x \in Slots(g, S)
    <3>1. PICK m \in S : \E i \in 1..f[m] : x = <<m, i>>
      BY <2>2, SlotsHas
    <3>2. PICK i \in 1..f[m] : x = <<m, i>>
      BY <3>1
    <3>3. i \in 1..g[m]
      BY <1>1
    <3>. QED
      BY <3>2, <3>3, SlotsHas
  <2>3. y \in Slots(g, S)
    <3>1. f[n] + 1 \in 1..g[n]
      BY <1>1
    <3>. QED
      BY <3>1, SlotsHas
  <2>. QED
    BY <2>1, <2>2, <2>3
<1>4. IsFiniteSet(Slots(g, S)) /\ Cardinality(Slots(g, S)) = Cardinality(Slots(f, S)) + 1
  BY <1>2, <1>3, FS_AddElement
<1>. QED
  BY <1>4 DEF g

\* Nothing counted, no slots.
LEMMA SlotsNone ==
  ASSUME NEW S, NEW f, \A n \in S : f[n] = 0
  PROVE  IsFiniteSet(Slots(f, S)) /\ Cardinality(Slots(f, S)) = 0
<1>1. Slots(f, S) = {}
  <2>. SUFFICES ASSUME NEW x \in Slots(f, S) PROVE FALSE
    OBVIOUS
  <2>1. PICK m \in S : \E i \in 1..f[m] : x = <<m, i>>
    BY SlotsHas
  <2>2. PICK i \in 1..f[m] : x = <<m, i>>
    BY <2>1
  <2>. QED
    BY <2>2
<1>. QED
  BY <1>1, FS_EmptySet

\* The label of a series that has been rewritten.
LabelOf(answers, x, l) ==
  \/ BudgetOf[x[1]] = NoRule /\ l = x[2]
  \/ BudgetOf[x[1]] # NoRule /\ <<BudgetOf[x[1]], x[2], l>> \in answers

Labelled ==
  /\ DOMAIN label = Scrapes /\ scrape \in [Scrapes -> {"new", "rewriting", "done"}]
  /\ \A c \in Scrapes :
       /\ \A x \in DOMAIN label[c] : LabelOf(shown, x, label[c][x])
       /\ scrape[c] = "done" => DOMAIN label[c] = Present(c)

\* What is measured is finite.
Measured ==
  /\ count \in [Series -> Nat] /\ IsFiniteSet(Slots(count, Series))
  /\ snap \in [Scrapes -> [Series -> Nat]]
  /\ \A c \in Scrapes : IsFiniteSet(Slots(snap[c], Series))

SumsInv == Labelled /\ Measured

\* Nothing is measured or exported at first.
LEMMA SumsInit == Init => SumsInv
<1>. SUFFICES ASSUME Init PROVE SumsInv
  OBVIOUS
<1>1. /\ count \in [Series -> Nat] /\ \A x \in Series : count[x] = 0
      /\ snap = [c \in Scrapes |-> count]
  BY DEF Init
<1>2. IsFiniteSet(Slots(count, Series))
  BY <1>1, SlotsNone
<1>3. Measured
  BY <1>1, <1>2 DEF Measured
<1>4. \A c \in Scrapes : label[c] = <<>> /\ DOMAIN label[c] = {}
  BY DEF Init
<1>5. Labelled
  BY <1>4 DEF Init, Labelled
<1>. QED
  BY <1>3, <1>5 DEF SumsInv

\* One series is given its label.
LEMMA RewriteSums ==
  ASSUME SumsInv, NEW c \in Scrapes, NEW x \in Series, Rewrite(c, x)
  PROVE  SumsInv'
<1>1. scrape[c] = "rewriting" /\ UNCHANGED <<count, scrape, snap>> /\ shown \subseteq shown'
  BY DEF Rewrite
<1>2. PICK l : /\ label' = [label EXCEPT ![c] = [y \in DOMAIN @ \cup {x} |-> IF y = x THEN l ELSE @[y]]]
               /\ LabelOf(shown', x, l)
  BY DEF Rewrite, LabelOf
<1>3. Measured'
  BY <1>1 DEF SumsInv, Measured
<1>4. DOMAIN label = Scrapes /\ scrape \in [Scrapes -> {"new", "rewriting", "done"}]
  BY DEF SumsInv, Labelled
<1>5. /\ DOMAIN label' = Scrapes
      /\ label'[c] = [y \in DOMAIN label[c] \cup {x} |-> IF y = x THEN l ELSE label[c][y]]
      /\ \A d \in Scrapes \ {c} : label'[d] = label[d]
  BY <1>2, <1>4
<1>6. \A d \in Scrapes : \A y \in DOMAIN label[d] : LabelOf(shown', y, label[d][y])
  BY <1>1 DEF SumsInv, Labelled, LabelOf
<1>7. \A y \in DOMAIN label'[c] : LabelOf(shown', y, label'[c][y])
  BY <1>2, <1>5, <1>6 DEF LabelOf
<1>8. \A d \in Scrapes \ {c} : \A y \in DOMAIN label'[d] : LabelOf(shown', y, label'[d][y])
  BY <1>5, <1>6 DEF LabelOf
<1>9. \A d \in Scrapes : scrape'[d] = "done" => DOMAIN label'[d] = Present(d)'
  BY <1>1, <1>5 DEF SumsInv, Labelled, Present
<1>10. Labelled'
  <2>1. \A d \in Scrapes : \A y \in DOMAIN label'[d] : LabelOf(shown', y, label'[d][y])
    BY <1>7, <1>8
  <2>. QED
    BY <1>1, <1>4, <1>5, <1>9, <2>1 DEF Labelled, LabelOf
<1>. QED
  BY <1>3, <1>10 DEF SumsInv

\* Every step keeps the labels and the sums.
LEMMA SumsNext == SumsInv /\ [Next]_vars => SumsInv'
<1>. SUFFICES ASSUME SumsInv, [Next]_vars PROVE SumsInv'
  OBVIOUS
<1>1. CASE UNCHANGED vars
  BY <1>1 DEF vars, SumsInv, Labelled, LabelOf, Measured, Present
<1>2. ASSUME NEW x \in Series, Record(x) PROVE SumsInv'
  <2>1. count' = [count EXCEPT ![x] = @ + 1] /\ UNCHANGED <<scrape, snap, label, shown>>
    BY <1>2 DEF Record
  <2>2. count' \in [Series -> Nat] /\ IsFiniteSet(Slots(count', Series))
    <3>1. PICK f \in [Series -> Nat] : f = count
      BY DEF SumsInv, Measured
    <3>2. IsFiniteSet(Slots(f, Series))
      BY <3>1 DEF SumsInv, Measured
    <3>3. IsFiniteSet(Slots([f EXCEPT ![x] = @ + 1], Series))
      BY <1>2, <3>2, SlotsUp
    <3>. QED
      BY <2>1, <3>1, <3>3
  <2>3. Labelled'
    BY <2>1 DEF SumsInv, Labelled, LabelOf, Present
  <2>. QED
    BY <2>1, <2>2, <2>3 DEF SumsInv, Measured
<1>3. ASSUME NEW c \in Scrapes, Gather(c) PROVE SumsInv'
  <2>1. /\ scrape[c] = "new" /\ scrape' = [scrape EXCEPT ![c] = "rewriting"]
        /\ snap' = [snap EXCEPT ![c] = count] /\ UNCHANGED <<count, label, shown>>
    BY <1>3 DEF Gather
  <2>2. /\ scrape' \in [Scrapes -> {"new", "rewriting", "done"}]
        /\ scrape'[c] # "done" /\ \A d \in Scrapes \ {c} : scrape'[d] = scrape[d] /\ snap'[d] = snap[d]
        /\ snap' \in [Scrapes -> [Series -> Nat]] /\ snap'[c] = count
    BY <2>1 DEF SumsInv, Labelled, Measured
  <2>3. Measured'
    BY <2>1, <2>2 DEF SumsInv, Measured
  <2>4. Labelled'
    BY <2>1, <2>2 DEF SumsInv, Labelled, LabelOf, Present
  <2>. QED
    BY <2>3, <2>4 DEF SumsInv
<1>4. ASSUME NEW c \in Scrapes, Export(c) PROVE SumsInv'
  <2>1. /\ DOMAIN label[c] = Present(c) /\ scrape' = [scrape EXCEPT ![c] = "done"]
        /\ UNCHANGED <<count, snap, label, shown>>
    BY <1>4 DEF Export
  <2>2. Measured'
    BY <2>1 DEF SumsInv, Measured
  <2>3. Labelled'
    BY <2>1 DEF SumsInv, Labelled, LabelOf, Present
  <2>. QED
    BY <2>2, <2>3 DEF SumsInv
<1>. QED
  BY <1>1, <1>2, <1>3, <1>4, RewriteSums DEF Next, Terminated

\* A later collection has under a label all that an earlier one has.
LEMMA SumsKept == SumsInv /\ NeverBothWays => CumulativeKept
<1>. SUFFICES ASSUME SumsInv, NeverBothWays, NEW c \in Scrapes, NEW d \in Scrapes,
                     scrape[c] = "done", scrape[d] = "done", \A x \in Series : snap[c][x] <= snap[d][x],
                     NEW i \in Streams, NEW l \in Values \cup {Overflow}
              PROVE  Merge(c, i, l) <= Merge(d, i, l)
  BY DEF CumulativeKept
<1>. DEFINE P(e) == {x \in Present(e) : x[1] = i /\ label[e][x] = l}
           U(e) == UNION {{x} \X (1..snap[e][x]) : x \in P(e)}
<1>1. /\ snap[c] \in [Series -> Nat] /\ snap[d] \in [Series -> Nat]
      /\ IsFiniteSet(Slots(snap[d], Series))
      /\ DOMAIN label[c] = Present(c) /\ DOMAIN label[d] = Present(d)
  BY DEF SumsInv, Labelled, Measured
<1>2. ASSUME NEW x \in P(c) PROVE x \in P(d)
  <2>1. x \in Series /\ x \in Present(c) /\ x \in Present(d)
    BY <1>1, <1>2 DEF Present
  <2>2. LabelOf(shown, x, label[c][x]) /\ LabelOf(shown, x, label[d][x])
    BY <1>1, <2>1 DEF SumsInv, Labelled
  <2>3. label[c][x] = label[d][x]
    BY <2>2 DEF LabelOf, NeverBothWays
  <2>. QED
    BY <1>2, <2>1, <2>3
<1>3. U(c) \subseteq U(d)
  <2>. SUFFICES ASSUME NEW x \in P(c), NEW k \in 1..snap[c][x] PROVE <<x, k>> \in U(d)
    OBVIOUS
  <2>1. x \in Series /\ x \in P(d)
    BY <1>2 DEF Present
  <2>2. k \in 1..snap[d][x]
    BY <1>1, <2>1
  <2>. QED
    BY <2>1, <2>2
<1>4. U(d) \subseteq Slots(snap[d], Series)
  BY DEF Slots, Present
<1>5. IsFiniteSet(U(d)) /\ IsFiniteSet(U(c)) /\ Cardinality(U(c)) <= Cardinality(U(d))
  BY <1>1, <1>3, <1>4, FS_Subset
<1>. QED
  BY <1>5 DEF Merge

\* Of two collections the one with the later snapshot exports no smaller sum under
\* any label, for any streams, values, budgets and scrapes.
THEOREM CumulativeTheorem == Spec => []CumulativeKept
  BY SumsInit, SumsNext, SumsKept, OneAnswer, PTL DEF Spec

-----------------------------------------------------------------------------
(***************************************************************************)
(* Export failures.  The closers of Shutdown are a list without repetition *)
(* that ends with the meter provider's (Tidy); a batcher whose closer has  *)
(* run in time is empty for good (Quiet); what a collection found covers   *)
(* what it has to ship (Counts, Flushed, Final).                           *)
(***************************************************************************)

\* Lists of the components of S, each once.
Lists(t, S) ==
  /\ t \in Seq(Exports!Closers)
  /\ \A i \in 1..Len(t) : t[i] \in S
  /\ \A m \in S : \E i \in 1..Len(t) : t[i] = m
  /\ \A i, j \in 1..Len(t) : t[i] = t[j] => i = j

\* The closer of a pillar, where it is enabled.
LEMMA PillarList ==
  ASSUME NEW on, NEW m \in Exports!Closers
  PROVE  Lists(Exports!NonNil(on, m), IF on THEN {m} ELSE {})
<1>1. Lists(<<>>, {})
  BY DEF Lists
<1>. DEFINE t == <<m>>
<1>2. t \in Seq(Exports!Closers) /\ Len(t) = 1 /\ t[1] = m
  OBVIOUS
<1>. HIDE DEF t
<1>3. Lists(t, {m})
  BY <1>2 DEF Lists
<1>. QED
  BY <1>1, <1>3 DEF Exports!NonNil, t

\* Two lists of different components make one.
LEMMA JoinLists ==
  ASSUME NEW a, NEW b, NEW A, NEW B, Lists(a, A), Lists(b, B), A \cap B = {}
  PROVE  Lists(a \o b, A \cup B)
<1>. DEFINE t == a \o b
<1>1. a \in Seq(Exports!Closers) /\ b \in Seq(Exports!Closers) /\ Len(a) \in Nat /\ Len(b) \in Nat
  BY DEF Lists
<1>2. /\ t \in Seq(Exports!Closers) /\ Len(t) = Len(a) + Len(b)
      /\ \A i \in 1..Len(a) : t[i] = a[i]
      /\ \A i \in (Len(a) + 1)..(Len(a) + Len(b)) : t[i] = b[i - Len(a)]
  BY <1>1, ConcatProperties
<1>. HIDE DEF t
<1>3. \A i \in 1..Len(t) :
        \/ i \in 1..Len(a) /\ t[i] = a[i] /\ t[i] \in A
        \/ i > Len(a) /\ i - Len(a) \in 1..Len(b) /\ t[i] = b[i - Len(a)] /\ t[i] \in B
  BY <1>1, <1>2 DEF Lists
<1>4. \A m \in A : \E i \in 1..Len(t) : t[i] = m
  <2>. SUFFICES ASSUME NEW m \in A PROVE \E i \in 1..Len(t) : t[i] = m
    OBVIOUS
  <2>1. PICK i \in 1..Len(a) : a[i] = m
    BY DEF Lists
  <2>. QED
    BY <1>1, <1>2, <2>1
<1>5. \A m \in B : \E i \in 1..Len(t) : t[i] = m
  <2>. SUFFICES ASSUME NEW m \in B PROVE \E i \in 1..Len(t) : t[i] = m
    OBVIOUS
  <2>1. PICK i \in 1..Len(b) : b[i] = m
    BY DEF Lists
  <2>2. Len(a) + i \in (Len(a) + 1)..(Len(a) + Len(b)) /\ (Len(a) + i) - Len(a) = i
    BY <1>1
  <2>3. t[Len(a) + i] = m
    BY <1>2, <2>1, <2>2
  <2>4. Len(a) + i \in 1..Len(t)
    BY <1>1, <1>2, <2>2
  <2>. QED
    BY <2>3, <2>4
<1>6. \A i, j \in 1..Len(t) : t[i] = t[j] => i = j
  <2>. SUFFICES ASSUME NEW i \in 1..Len(t), NEW j \in 1..Len(t), t[i] = t[j] PROVE i = j
    OBVIOUS
  <2>1. CASE t[i] \in A
    BY <1>3, <2>1 DEF Lists
  <2>2. CASE t[i] \in B
    <3>1. i > Len(a) /\ j > Len(a) /\ i - Len(a) \in 1..Len(b) /\ j - Len(a) \in 1..Len(b)
          /\ b[i - Len(a)] = b[j - Len(a)]
      BY <1>3, <2>2
    <3>2. i - Len(a) = j - Len(a)
      BY <3>1 DEF Lists
    <3>. QED
      BY <1>1, <3>2
  <2>. QED
    BY <1>3, <2>1, <2>2
<1>7. Lists(t, A \cup B)
  BY <1>2, <1>3, <1>4, <1>5, <1>6 DEF Lists
<1>. QED
  BY <1>7 DEF t

\* The closers of the push path.
LEMMA PushClosers ==
  /\ Exports!Batched \subseteq {"traces", "logs"}
  /\ Lists(Exports!Fields.shutdowns,
           Exports!Batched \cup {"meter"} \cup (IF Request.profiling THEN {"profiler"} ELSE {}))
  /\ Exports!Fields.shutdowns # <<>>
  /\ Exports!Fields.shutdowns[Len(Exports!Fields.shutdowns)] = "meter"
<1>. DEFINE p == Request
           prof == Exports!NonNil(p.profiling, "profiler")
           traces == Exports!NonNil(p.trace, "traces")
           logs == Exports!NonNil(p.log, "logs")
           server == Exports!NonNil(p.metrics /\ ~p.push, "server")
           meter == Exports!NonNil(p.metrics, "meter")
           Prof == IF p.profiling THEN {"profiler"} ELSE {}
           Traces == IF p.trace THEN {"traces"} ELSE {}
           Logs == IF p.log THEN {"logs"} ELSE {}
<1>1. server = <<>> /\ meter = <<"meter">>
  BY RequestAssumption DEF Exports!NonNil
<1>2. /\ Lists(prof, Prof) /\ Lists(traces, Traces) /\ Lists(logs, Logs)
      /\ Lists(server, {}) /\ Lists(meter, {"meter"})
  BY RequestAssumption, PillarList DEF Exports!Closers
<1>3. Prof \subseteq {"profiler"} /\ Traces \subseteq {"traces"} /\ Logs \subseteq {"logs"}
      /\ Prof = IF p.profiling THEN {"profiler"} ELSE {}
  OBVIOUS
<1>4. /\ Exports!Fields.shutdowns = prof \o traces \o logs \o server \o meter
      /\ Exports!Batched = Exports!Range(traces \o logs)
  BY DEF Exports!Fields, Exports!Batched, Exports!SdkFields, Exports!ShutdownSequence
<1>. HIDE DEF prof, traces, logs, server, meter, Prof, Traces, Logs
<1>5. Lists(traces \o logs, Traces \cup Logs)
  BY <1>2, <1>3, JoinLists
<1>6. Exports!Batched = Traces \cup Logs
  <2>. DEFINE t == traces \o logs
  <2>1. DOMAIN t = 1..Len(t) /\ Lists(t, Traces \cup Logs) /\ Exports!Batched = Exports!Range(t)
    BY <1>4, <1>5 DEF Lists
  <2>. HIDE DEF t
  <2>2. \A x : x \in Exports!Range(t) <=> \E i \in 1..Len(t) : x = t[i]
    BY <2>1 DEF Exports!Range
  <2>. QED
    BY <2>1, <2>2 DEF Lists
<1>7. Lists(prof \o traces, Prof \cup Traces)
  BY <1>2, <1>3, JoinLists
<1>8. Lists(prof \o traces \o logs, Prof \cup Traces \cup Logs)
  BY <1>2, <1>3, <1>7, JoinLists
<1>9. Lists(prof \o traces \o logs \o server, Prof \cup Traces \cup Logs \cup {})
  BY <1>2, <1>3, <1>8, JoinLists
<1>. DEFINE a == prof \o traces \o logs \o server
           A == Prof \cup Traces \cup Logs \cup {}
<1>10. Lists(a, A) /\ "meter" \notin A /\ A \cup {"meter"} = Exports!Batched \cup {"meter"} \cup Prof
  BY <1>3, <1>6, <1>9
<1>. HIDE DEF a, A
<1>11. Lists(a \o meter, A \cup {"meter"})
  BY <1>2, <1>10, JoinLists
<1>12. a \o meter # <<>> /\ (a \o meter)[Len(a \o meter)] = "meter"
  <2>1. a \in Seq(Exports!Closers) /\ meter \in Seq(Exports!Closers) /\ Len(meter) = 1 /\ meter[1] = "meter"
        /\ Len(a) \in Nat
    BY <1>1, <1>2, <1>10 DEF Lists
  <2>2. /\ Len(a \o meter) = Len(a) + 1
        /\ \A i \in (Len(a) + 1)..(Len(a) + 1) : (a \o meter)[i] = meter[i - Len(a)]
    BY <2>1, ConcatProperties, SMTT(60)
  <2>3. Len(a) + 1 \in (Len(a) + 1)..(Len(a) + 1) /\ (Len(a) + 1) - Len(a) = 1
    BY <2>1
  <2>4. (a \o meter)[Len(a) + 1] = "meter"
    BY <2>1, <2>2, <2>3
  <2>5. Len(a \o meter) # 0
    BY <2>1, <2>2
  <2>. QED
    BY <2>2, <2>4, <2>5
<1>. QED
  BY <1>3, <1>4, <1>6, <1>10, <1>11, <1>12 DEF a

\* What the counters hold.
ExportTypes ==
  /\ queued \subseteq Exports!Batched
  /\ export \in [Exports!Batched -> {"idle", "called", "failed"}]
  /\ failures \in [Exports!Active -> Nat] /\ readerSnap \in [Exports!Active -> Nat]
  /\ shipped \in [Exports!Active -> Nat] /\ owed \in [Exports!Active -> Nat]

\* Counts only grow, and a snapshot is of the past.
Counts ==
  \A s \in Exports!Active :
    shipped[s] <= readerSnap[s] /\ readerSnap[s] <= failures[s] /\ owed[s] <= failures[s]

\* A list without repetition that ends with the meter provider's closer.
Tidy ==
  /\ todo \in Seq(Exports!Closers)
  /\ \A i, j \in 1..Len(todo) : todo[i] = todo[j] => i = j
  /\ todo # <<>> => todo[Len(todo)] = "meter"
  /\ ~closing => \A s \in Exports!Batched : \E i \in 1..Len(todo) : todo[i] = s
  /\ ~closing => todo # <<>>

\* A batcher whose closer has run is drained, unless a drain took too long.
Quiet == \A s \in Exports!Batched : Exports!ClosedDown(s) /\ ~late => Exports!Drained(s)

\* The collection of a flush covers what the flushers counted.
Flushed ==
  /\ flushing \subseteq Exports!Batched
  /\ flush # "signals" => flushing = {}
  /\ reader = "flush" <=> flush = "collecting"
  /\ reader = "flush" => \A s \in Exports!Batched : owed[s] <= readerSnap[s]
  /\ flushOK => flush = "done"
  /\ Exports!FlushShipsFailures

\* The last collection covers the failures of the last drain.
Final ==
  /\ reader = "final" => closing /\ Len(todo) = 1
  /\ reader = "final" /\ ~late => \A s \in Exports!Batched : readerSnap[s] = failures[s]
  /\ todo = <<>> => closing /\ reader = "idle"
  /\ Exports!LastDrainIsShipped

ExportInv == ExportTypes /\ Counts /\ Tidy /\ Quiet /\ Flushed /\ Final

\* Nothing has been counted at first.
LEMMA ExportInit == Exports!Init => ExportInv
<1>. SUFFICES ASSUME Exports!Init PROVE ExportInv
  OBVIOUS
<1>1. ExportTypes
  BY DEF Exports!Init, ExportTypes
<1>2. Counts
  BY <1>1 DEF Exports!Init, Counts, ExportTypes
<1>3. Tidy
  BY PushClosers DEF Exports!Init, Tidy, Lists
<1>4. Quiet
  BY DEF Exports!Init, Quiet, Exports!ClosedDown
<1>5. Flushed
  BY DEF Exports!Init, Flushed, Exports!FlushShipsFailures
<1>6. Final
  BY <1>3, PushClosers DEF Exports!Init, Final, Exports!LastDrainIsShipped
<1>. QED
  BY <1>1, <1>2, <1>3, <1>4, <1>5, <1>6 DEF ExportInv

\* The signals: the metrics' own failures are not a batcher's.
LEMMA SignalNames ==
  /\ "metrics" \notin Exports!Batched /\ "meter" \notin Exports!Batched
  /\ Exports!Batched \subseteq Exports!Active /\ "metrics" \in Exports!Active
  BY PushClosers DEF Exports!Active

\* A closer of the list has run: the others' lists and the end stay.
LEMMA TidyTail ==
  ASSUME Tidy, closing, todo # <<>>, todo' = Tail(todo), closing' = closing
  PROVE  /\ Tidy' /\ Head(todo) = todo[1] /\ Len(todo) \in Nat /\ Len(todo) >= 1
         /\ Head(todo) = "meter" <=> Len(todo) = 1
         /\ Len(todo') = Len(todo) - 1
         /\ \A i \in 1..Len(todo) : i > 1 => todo[i] # Head(todo) /\ i - 1 \in 1..Len(todo') /\ todo'[i - 1] = todo[i]
<1>1. todo \in Seq(Exports!Closers) /\ Len(todo) \in Nat /\ Len(todo) >= 1 /\ Head(todo) = todo[1]
  BY DEF Tidy
<1>2. /\ todo' \in Seq(Exports!Closers) /\ Len(todo') = Len(todo) - 1
      /\ \A i \in 1..(Len(todo) - 1) : todo'[i] = todo[i + 1]
  BY <1>1
<1>3. \A i \in 1..(Len(todo) - 1) : i + 1 \in 1..Len(todo)
  BY <1>1
<1>4. \A i, j \in 1..Len(todo') : todo'[i] = todo'[j] => i = j
  <2>. SUFFICES ASSUME NEW i \in 1..Len(todo'), NEW j \in 1..Len(todo'), todo'[i] = todo'[j] PROVE i = j
    OBVIOUS
  <2>1. i + 1 = j + 1
    BY <1>2, <1>3 DEF Tidy
  <2>. QED
    BY <1>2, <2>1
<1>5. ASSUME todo' # <<>> PROVE todo'[Len(todo')] = "meter"
  <2>1. Len(todo') # 0 /\ Len(todo') \in Nat
    BY <1>2, <1>5
  <2>2. Len(todo') \in 1..(Len(todo) - 1) /\ Len(todo') + 1 = Len(todo)
    BY <1>1, <1>2, <2>1
  <2>3. todo'[Len(todo')] = todo[Len(todo)]
    BY <1>2, <2>2
  <2>. QED
    BY <2>3 DEF Tidy
<1>6. Head(todo) = "meter" <=> Len(todo) = 1
  <2>1. todo[Len(todo)] = "meter" /\ 1 \in 1..Len(todo) /\ Len(todo) \in 1..Len(todo)
    BY <1>1 DEF Tidy
  <2>. QED
    BY <1>1, <2>1 DEF Tidy
<1>7. ASSUME NEW i \in 1..Len(todo), i > 1
      PROVE  todo[i] # Head(todo) /\ i - 1 \in 1..Len(todo') /\ todo'[i - 1] = todo[i]
  <2>1. i - 1 \in 1..(Len(todo) - 1) /\ (i - 1) + 1 = i
    BY <1>1, <1>7
  <2>2. todo[i] # todo[1]
    BY <1>1, <1>7 DEF Tidy
  <2>. QED
    BY <1>1, <1>2, <2>1, <2>2
<1>8. Tidy'
  BY <1>2, <1>4, <1>5 DEF Tidy
<1>. QED
  BY <1>1, <1>2, <1>6, <1>7, <1>8

\* When only the meter provider's closer is left, the batchers' have run.
LEMMA AllClosed ==
  ASSUME Tidy, closing, Len(todo) = 1 \/ todo = <<>>, NEW s \in Exports!Batched
  PROVE  Exports!ClosedDown(s)
<1>1. Len(todo) = 1 => todo[1] = "meter"
  BY DEF Tidy
<1>2. \A i \in 1..Len(todo) : todo[i] = "meter"
  BY <1>1
<1>. QED
  BY <1>2, SignalNames DEF Exports!ClosedDown

\* A step of a batcher that is not closed, or was closed too early.
LEMMA BatcherRuns ==
  ASSUME ExportInv, NEW s \in Exports!Batched, Exports!ClosedDown(s) => late,
         ExportTypes', UNCHANGED <<Exports!readerVars, Exports!flushVars, Exports!closeVars>>,
         \A t \in Exports!Batched : t # s => (Exports!Drained(t)' <=> Exports!Drained(t)),
         \A t \in Exports!Active : t # s => failures'[t] = failures[t],
         failures'[s] >= failures[s]
  PROVE  ExportInv'
<1>1. /\ UNCHANGED <<reader, readerSnap, shipped, flush, flushing, owed, flushOK, todo, closing, late, finalOK>>
  BY DEF Exports!readerVars, Exports!flushVars, Exports!closeVars
<1>2. \A t \in Exports!Active : failures'[t] \in Nat /\ failures[t] \in Nat /\ readerSnap[t] \in Nat
                                /\ owed[t] \in Nat /\ shipped[t] \in Nat
  BY DEF ExportInv, ExportTypes
<1>3. Counts'
  <2>. SUFFICES ASSUME NEW t \in Exports!Active
               PROVE  shipped[t] <= readerSnap[t] /\ readerSnap[t] <= failures'[t] /\ owed[t] <= failures'[t]
    BY <1>1 DEF Counts
  <2>1. failures'[t] >= failures[t]
    BY <1>2
  <2>. QED
    BY <1>2, <2>1 DEF ExportInv, Counts
<1>4. Tidy'
  BY <1>1 DEF ExportInv, Tidy
<1>5. Quiet'
  BY <1>1 DEF ExportInv, Quiet, Exports!ClosedDown
<1>6. Flushed'
  BY <1>1 DEF ExportInv, Flushed, Exports!FlushShipsFailures
<1>7. Final'
  <2>1. closing /\ (Len(todo) = 1 \/ todo = <<>>) => late
    BY AllClosed DEF ExportInv
  <2>2. (reader = "final" => closing /\ Len(todo) = 1) /\ (todo = <<>> => closing /\ reader = "idle")
    BY DEF ExportInv, Final
  <2>. QED
    BY <1>1, <2>1, <2>2 DEF Final, Exports!LastDrainIsShipped
<1>. QED
  BY <1>3, <1>4, <1>5, <1>6, <1>7 DEF ExportInv

\* What the batchers and their exporters do.
LEMMA BatcherSteps ==
  ASSUME ExportInv, NEW s \in Exports!Batched,
         \/ Exports!Enqueue(s) \/ Exports!CallExport(s) \/ Exports!Fail(s)
         \/ \E ok \in BOOLEAN : Exports!ExportReturns(s, ok)
  PROVE  ExportInv'
<1>1. /\ queued \subseteq Exports!Batched /\ export \in [Exports!Batched -> {"idle", "called", "failed"}]
      /\ failures \in [Exports!Active -> Nat] /\ s \in Exports!Active
  BY SignalNames DEF ExportInv, ExportTypes
<1>2. UNCHANGED <<Exports!readerVars, Exports!flushVars, Exports!closeVars>>
  BY DEF Exports!Enqueue, Exports!CallExport, Exports!Fail, Exports!ExportReturns
<1>3. Exports!ClosedDown(s) => late
  BY DEF ExportInv, Quiet, Exports!Drained, Exports!Enqueue, Exports!CallExport, Exports!Fail,
         Exports!ExportReturns
<1>4. /\ queued' \subseteq Exports!Batched /\ export' \in [Exports!Batched -> {"idle", "called", "failed"}]
      /\ \A t \in Exports!Batched : t # s => (t \in queued' <=> t \in queued) /\ export'[t] = export[t]
  BY <1>1 DEF Exports!Enqueue, Exports!CallExport, Exports!Fail, Exports!ExportReturns
<1>5. failures' = failures \/ failures' = [failures EXCEPT ![s] = @ + 1]
  BY DEF Exports!Enqueue, Exports!CallExport, Exports!Fail, Exports!ExportReturns
<1>6. /\ failures' \in [Exports!Active -> Nat] /\ failures'[s] >= failures[s]
      /\ \A t \in Exports!Active : t # s => failures'[t] = failures[t]
  BY <1>1, <1>5
<1>7. ExportTypes'
  BY <1>2, <1>4, <1>6 DEF ExportInv, ExportTypes, Exports!readerVars, Exports!flushVars
<1>8. \A t \in Exports!Batched : t # s => (Exports!Drained(t)' <=> Exports!Drained(t))
  BY <1>4 DEF Exports!Drained
<1>. QED
  BY <1>2, <1>3, <1>6, <1>7, <1>8, BatcherRuns

\* A collection begins.
LEMMA Collects ==
  ASSUME ExportInv, NEW purpose, Exports!Collect(purpose)
  PROVE  /\ reader = "idle" /\ reader' = purpose /\ shipped' = shipped
         /\ readerSnap' \in [Exports!Active -> Nat]
         /\ \A s \in Exports!Active : readerSnap'[s] = failures[s] /\ shipped[s] <= failures[s]
<1>1. reader = "idle" /\ reader' = purpose /\ shipped' = shipped
      /\ readerSnap' = [s \in Exports!Active |-> failures[s]]
  BY DEF Exports!Collect
<1>2. \A s \in Exports!Active : failures[s] \in Nat /\ readerSnap[s] \in Nat /\ shipped[s] \in Nat
                                /\ shipped[s] <= readerSnap[s] /\ readerSnap[s] <= failures[s]
  BY DEF ExportInv, ExportTypes, Counts
<1>. QED
  BY <1>1, <1>2

\* A collection on the reader's schedule.
LEMMA ScheduleStep == ASSUME ExportInv, Exports!ScheduledCollect PROVE ExportInv'
<1>1. /\ reader = "idle" /\ reader' = "schedule" /\ shipped' = shipped
      /\ readerSnap' \in [Exports!Active -> Nat]
      /\ \A s \in Exports!Active : readerSnap'[s] = failures[s] /\ shipped[s] <= failures[s]
  BY Collects DEF Exports!ScheduledCollect
<1>2. UNCHANGED <<queued, export, failures, flush, flushing, owed, flushOK, todo, closing, late, finalOK>>
  BY DEF Exports!ScheduledCollect, Exports!flushVars, Exports!closeVars
<1>3. ExportTypes'
  BY <1>1, <1>2 DEF ExportInv, ExportTypes
<1>4. Counts'
  <2>1. \A s \in Exports!Active : failures[s] \in Nat
    BY DEF ExportInv, ExportTypes
  <2>. QED
    BY <1>1, <1>2, <2>1 DEF ExportInv, Counts
<1>5. Tidy' /\ Quiet'
  BY <1>2 DEF ExportInv, Tidy, Quiet, Exports!ClosedDown, Exports!Drained
<1>6. Flushed'
  BY <1>1, <1>2 DEF ExportInv, Flushed, Exports!FlushShipsFailures
<1>7. Final'
  <2>1. todo # <<>>
    BY DEF Exports!ScheduledCollect, Exports!ClosedDown, ExportInv, Final
  <2>. QED
    BY <1>1, <1>2, <2>1 DEF ExportInv, Final, Exports!LastDrainIsShipped
<1>. QED
  BY <1>3, <1>4, <1>5, <1>6, <1>7 DEF ExportInv

\* The metrics flush of ForceFlush.
LEMMA FlushStep == ASSUME ExportInv, Exports!FlushMetrics PROVE ExportInv'
<1>0. UNCHANGED <<queued, export, failures, flushing, owed, flushOK, todo, closing, late, finalOK>>
      /\ flush = "metrics"
  BY DEF Exports!FlushMetrics, Exports!closeVars
<1>1. CASE ~Exports!ClosedDown("meter") /\ Exports!Collect("flush") /\ flush' = "collecting"
  <2>1. /\ reader = "idle" /\ reader' = "flush" /\ shipped' = shipped
        /\ readerSnap' \in [Exports!Active -> Nat]
        /\ \A s \in Exports!Active : readerSnap'[s] = failures[s] /\ shipped[s] <= failures[s]
    BY <1>1, Collects
  <2>2. ExportTypes'
    BY <1>0, <2>1 DEF ExportInv, ExportTypes
  <2>3. Counts'
    <3>1. \A s \in Exports!Active : failures[s] \in Nat
      BY DEF ExportInv, ExportTypes
    <3>. QED
      BY <1>0, <2>1, <3>1 DEF ExportInv, Counts
  <2>4. Tidy' /\ Quiet'
    BY <1>0 DEF ExportInv, Tidy, Quiet, Exports!ClosedDown, Exports!Drained
  <2>5. Flushed'
    <3>1. \A s \in Exports!Batched : owed'[s] <= readerSnap'[s]
      BY <1>0, <2>1, SignalNames DEF ExportInv, Counts
    <3>2. ~flushOK /\ flushing = {}
      BY <1>0 DEF ExportInv, Flushed
    <3>. QED
      BY <1>0, <1>1, <2>1, <3>1, <3>2 DEF Flushed, Exports!FlushShipsFailures
  <2>6. Final'
    <3>1. todo # <<>>
      BY <1>1 DEF Exports!ClosedDown, ExportInv, Final
    <3>. QED
      BY <1>0, <2>1, <3>1 DEF ExportInv, Final, Exports!LastDrainIsShipped
  <2>. QED
    BY <2>2, <2>3, <2>4, <2>5, <2>6 DEF ExportInv
<1>2. CASE flush' = "done" /\ UNCHANGED Exports!readerVars
  <2>1. UNCHANGED <<reader, readerSnap, shipped>>
    BY <1>2 DEF Exports!readerVars
  <2>2. ExportTypes' /\ Counts'
    BY <1>0, <2>1 DEF ExportInv, ExportTypes, Counts
  <2>3. Tidy' /\ Quiet'
    BY <1>0 DEF ExportInv, Tidy, Quiet, Exports!ClosedDown, Exports!Drained
  <2>4. Flushed'
    BY <1>0, <1>2, <2>1 DEF ExportInv, Flushed, Exports!FlushShipsFailures
  <2>5. Final'
    BY <1>0, <2>1 DEF ExportInv, Final, Exports!LastDrainIsShipped
  <2>. QED
    BY <2>2, <2>3, <2>4, <2>5 DEF ExportInv
<1>. QED
  BY <1>1, <1>2 DEF Exports!FlushMetrics

\* The steps of ForceFlush before it, and the start of Shutdown.
LEMMA CallSteps ==
  ASSUME ExportInv, Exports!BeginFlush \/ Exports!EndStageOne \/ Exports!BeginShutdown
  PROVE  ExportInv'
<1>1. UNCHANGED <<queued, export, failures, reader, readerSnap, shipped, owed, flushOK, todo, late, finalOK>>
  BY DEF Exports!BeginFlush, Exports!EndStageOne, Exports!BeginShutdown, Exports!readerVars,
         Exports!closeVars, Exports!flushVars
<1>2. \/ flush' = "signals" /\ flushing' = Exports!Batched /\ closing' = closing /\ flush = "idle"
      \/ flush' = "metrics" /\ flushing' = flushing /\ flushing = {} /\ closing' = closing /\ flush = "signals"
      \/ flush' = flush /\ flushing' = flushing /\ closing' /\ ~closing
  BY DEF Exports!BeginFlush, Exports!EndStageOne, Exports!BeginShutdown, Exports!closeVars, Exports!flushVars
<1>3. ExportTypes' /\ Counts'
  BY <1>1 DEF ExportInv, ExportTypes, Counts
<1>4. Tidy'
  BY <1>1, <1>2 DEF ExportInv, Tidy
<1>5. Quiet'
  <2>1. CASE closing' = closing
    BY <1>1, <2>1 DEF ExportInv, Quiet, Exports!ClosedDown, Exports!Drained
  <2>2. CASE ~closing /\ closing'
    BY <1>1, <2>2 DEF ExportInv, Tidy, Quiet, Exports!ClosedDown
  <2>. QED
    BY <1>2, <2>1, <2>2
<1>6. Flushed'
  BY <1>1, <1>2 DEF ExportInv, Flushed, Exports!FlushShipsFailures
<1>7. Final'
  BY <1>1, <1>2 DEF ExportInv, Final, Tidy, Exports!LastDrainIsShipped
<1>. QED
  BY <1>3, <1>4, <1>5, <1>6, <1>7 DEF ExportInv

\* A stage-one flusher returns.
LEMMA FlusherStep ==
  ASSUME ExportInv, NEW s \in Exports!Batched, Exports!FlusherReturns(s)
  PROVE  ExportInv'
<1>1. /\ UNCHANGED <<queued, export, failures, reader, readerSnap, shipped, flush, flushOK, todo, closing, late, finalOK>>
      /\ s \in flushing /\ flushing' = flushing \ {s} /\ owed' = [owed EXCEPT ![s] = failures[s]]
  BY DEF Exports!FlusherReturns, Exports!readerVars, Exports!closeVars
<1>2. flush = "signals" /\ ~flushOK /\ reader # "flush"
  BY <1>1 DEF ExportInv, Flushed
<1>3. ExportTypes' /\ Counts'
  BY <1>1, SignalNames DEF ExportInv, ExportTypes, Counts
<1>4. Tidy' /\ Quiet'
  BY <1>1 DEF ExportInv, Tidy, Quiet, Exports!ClosedDown, Exports!Drained
<1>5. Flushed'
  BY <1>1, <1>2 DEF ExportInv, Flushed, Exports!FlushShipsFailures
<1>6. Final'
  BY <1>1 DEF ExportInv, Final, Exports!LastDrainIsShipped
<1>. QED
  BY <1>3, <1>4, <1>5, <1>6 DEF ExportInv

\* The metric exporter returns.
LEMMA ReaderStep == ASSUME ExportInv, NEW ok \in BOOLEAN, Exports!ReaderExports(ok) PROVE ExportInv'
<1>1. /\ UNCHANGED <<queued, export, readerSnap, flushing, owed, closing, late>>
      /\ reader # "idle" /\ reader' = "idle"
      /\ flush' = IF reader = "flush" THEN "done" ELSE flush
      /\ flushOK' = IF reader = "flush" THEN ok ELSE flushOK
      /\ finalOK' = IF reader = "final" THEN ok ELSE finalOK
      /\ todo' = IF reader = "final" THEN Tail(todo) ELSE todo
  BY DEF Exports!ReaderExports
<1>2. /\ \/ ok /\ shipped' = readerSnap /\ failures' = failures
         \/ ~ok /\ shipped' = shipped /\ failures' = [failures EXCEPT !["metrics"] = @ + 1]
      /\ \A s \in Exports!Active : failures[s] \in Nat /\ readerSnap[s] \in Nat /\ shipped[s] \in Nat
                                   /\ owed[s] \in Nat
      /\ failures \in [Exports!Active -> Nat] /\ readerSnap \in [Exports!Active -> Nat]
      /\ shipped \in [Exports!Active -> Nat]
  BY DEF Exports!ReaderExports, ExportInv, ExportTypes
<1>3. /\ failures' \in [Exports!Active -> Nat] /\ shipped' \in [Exports!Active -> Nat]
      /\ \A s \in Exports!Active : failures'[s] >= failures[s] /\ shipped'[s] <= readerSnap[s]
                                   /\ shipped'[s] >= shipped[s]
      /\ \A s \in Exports!Batched : failures'[s] = failures[s]
  BY <1>2, SignalNames DEF ExportInv, Counts
<1>4. ExportTypes'
  BY <1>1, <1>3 DEF ExportInv, ExportTypes
<1>5. Counts'
  <2>. SUFFICES ASSUME NEW s \in Exports!Active
               PROVE  shipped'[s] <= readerSnap[s] /\ readerSnap[s] <= failures'[s] /\ owed[s] <= failures'[s]
    BY <1>1 DEF Counts
  <2>1. readerSnap[s] <= failures[s] /\ owed[s] <= failures[s] /\ failures'[s] \in Nat
    BY <1>3 DEF ExportInv, Counts
  <2>. QED
    BY <1>2, <1>3, <2>1
<1>6. reader = "final" => closing /\ Len(todo) = 1 /\ todo # <<>> /\ todo' = <<>>
  <2>. SUFFICES ASSUME reader = "final" PROVE closing /\ Len(todo) = 1 /\ todo # <<>> /\ todo' = <<>>
    OBVIOUS
  <2>1. closing /\ Len(todo) = 1 /\ todo # <<>> /\ todo' = Tail(todo)
    BY <1>1 DEF ExportInv, Final
  <2>2. Tidy' /\ Len(todo') = Len(todo) - 1
    BY <1>1, <2>1, TidyTail DEF ExportInv
  <2>3. Len(todo') = 0 /\ todo' \in Seq(Exports!Closers)
    BY <2>1, <2>2 DEF Tidy
  <2>. QED
    BY <2>1, <2>3
<1>7. Tidy' /\ Quiet'
  <2>1. CASE reader = "final"
    <3>1. Tidy'
      BY <1>1, <1>6, <2>1, TidyTail DEF ExportInv
    <3>2. \A s \in Exports!Batched : Exports!ClosedDown(s)
      BY <1>6, <2>1, AllClosed DEF ExportInv
    <3>. QED
      BY <1>1, <3>1, <3>2 DEF ExportInv, Quiet, Exports!Drained
  <2>2. CASE reader # "final"
    BY <1>1, <2>2 DEF ExportInv, Tidy, Quiet, Exports!ClosedDown, Exports!Drained
  <2>. QED
    BY <2>1, <2>2
<1>8. Flushed'
  <2>1. /\ flushing' \subseteq Exports!Batched
        /\ flush' # "signals" => flushing' = {}
        /\ reader' = "flush" <=> flush' = "collecting"
        /\ flushOK' => flush' = "done"
    BY <1>1 DEF ExportInv, Flushed
  <2>2. ASSUME flush' = "done", flushOK', NEW s \in Exports!Batched PROVE shipped'[s] >= owed'[s]
    <3>1. s \in Exports!Active
      BY SignalNames
    <3>2. CASE reader = "flush"
      <4>1. ok /\ shipped' = readerSnap /\ owed[s] <= readerSnap[s]
        BY <1>1, <1>2, <2>2, <3>2 DEF ExportInv, Flushed
      <4>. QED
        BY <1>1, <1>2, <3>1, <4>1
    <3>3. CASE reader # "flush"
      <4>1. shipped[s] >= owed[s]
        BY <1>1, <2>2, <3>3 DEF ExportInv, Flushed, Exports!FlushShipsFailures
      <4>. QED
        BY <1>1, <1>2, <1>3, <3>1, <4>1
    <3>. QED
      BY <3>2, <3>3
  <2>. QED
    BY <1>1, <2>1, <2>2 DEF Flushed, Exports!FlushShipsFailures
<1>9. Final'
  <2>1. todo' = <<>> => closing'
    BY <1>1, <1>6 DEF ExportInv, Final
  <2>2. ASSUME closing, todo' = <<>>, ~late, finalOK', NEW s \in Exports!Batched
        PROVE  shipped'[s] = failures'[s]
    <3>1. reader = "final"
      BY <1>1, <2>2 DEF ExportInv, Final
    <3>2. ok /\ shipped' = readerSnap /\ failures' = failures
      BY <1>1, <1>2, <2>2, <3>1
    <3>3. readerSnap[s] = failures[s]
      BY <2>2, <3>1 DEF ExportInv, Final
    <3>. QED
      BY <3>2, <3>3
  <2>. QED
    BY <1>1, <2>1, <2>2 DEF Final, Exports!LastDrainIsShipped
<1>. QED
  BY <1>4, <1>5, <1>7, <1>8, <1>9 DEF ExportInv

\* The closer of a batcher or of the profiler.
LEMMA CloserSteps == ASSUME ExportInv, Exports!CloseBatcher \/ Exports!CloseProfiler PROVE ExportInv'
<1>. DEFINE m == Head(todo)
<1>1. /\ UNCHANGED <<export, failures, reader, readerSnap, shipped, flush, flushing, owed, flushOK, closing, finalOK>>
      /\ closing /\ todo # <<>> /\ todo' = Tail(todo)
      /\ queued' \subseteq queued /\ \A t : t # "logs" => (t \in queued' <=> t \in queued)
      /\ m # "meter"
  BY SignalNames DEF Exports!CloseBatcher, Exports!CloseProfiler, Exports!readerVars, Exports!flushVars
<1>2. (late => late') /\ (m \in Exports!Batched /\ ~late' => Exports!Drained(m))
  <2>1. CASE Exports!CloseBatcher
    <3>1. late' = (late \/ ~Exports!Drained(m))
      BY <2>1 DEF Exports!CloseBatcher
    <3>. QED
      BY <3>1, Zenon
  <2>2. CASE Exports!CloseProfiler
    <3>1. late' = late /\ m \notin Exports!Batched
      BY <2>2, PushClosers DEF Exports!CloseProfiler
    <3>. QED
      BY <3>1, Zenon
  <2>. QED
    BY <2>1, <2>2
<1>3. /\ Tidy' /\ Len(todo) \in Nat /\ Len(todo) >= 1 /\ Len(todo') = Len(todo) - 1 /\ m = todo[1]
      /\ m = "meter" <=> Len(todo) = 1
      /\ \A i \in 1..Len(todo) : i > 1 => todo[i] # m /\ i - 1 \in 1..Len(todo') /\ todo'[i - 1] = todo[i]
  BY <1>1, TidyTail DEF ExportInv
<1>. HIDE DEF m
<1>4. ExportTypes' /\ Counts'
  BY <1>1 DEF ExportInv, ExportTypes, Counts
<1>5. Quiet'
  <2>. SUFFICES ASSUME NEW s \in Exports!Batched, Exports!ClosedDown(s)', ~late' PROVE Exports!Drained(s)'
    BY DEF Quiet
  <2>1. CASE s = m
    <3>1. Exports!Drained(s)
      BY <1>2, <2>1
    <3>. QED
      BY <1>1, <3>1 DEF Exports!Drained
  <2>2. CASE s # m
    <3>1. Exports!ClosedDown(s)
      <4>. SUFFICES ASSUME NEW i \in 1..Len(todo), todo[i] = s PROVE FALSE
        BY <1>1 DEF Exports!ClosedDown
      <4>1. i > 1
        BY <1>3, <2>2
      <4>. QED
        BY <1>3, <4>1 DEF Exports!ClosedDown
    <3>2. Exports!Drained(s)
      BY <1>2, <3>1 DEF ExportInv, Quiet
    <3>. QED
      BY <1>1, <3>2 DEF Exports!Drained
  <2>. QED
    BY <2>1, <2>2
<1>6. Flushed'
  BY <1>1 DEF ExportInv, Flushed, Exports!FlushShipsFailures
<1>7. Final'
  <2>1. reader # "final" /\ Len(todo') # 0
    BY <1>1, <1>3 DEF ExportInv, Final
  <2>2. todo' # <<>>
    BY <2>1
  <2>. QED
    BY <1>1, <2>1, <2>2 DEF Final, Exports!LastDrainIsShipped
<1>. QED
  BY <1>3, <1>4, <1>5, <1>6, <1>7 DEF ExportInv

\* The last collection.
LEMMA MeterCloses == ASSUME ExportInv, Exports!CloseMeter PROVE ExportInv'
<1>1. /\ reader = "idle" /\ reader' = "final" /\ shipped' = shipped
      /\ readerSnap' \in [Exports!Active -> Nat]
      /\ \A s \in Exports!Active : readerSnap'[s] = failures[s] /\ shipped[s] <= failures[s]
  BY Collects DEF Exports!CloseMeter
<1>2. /\ UNCHANGED <<queued, export, failures, flush, flushing, owed, flushOK, todo, closing, late, finalOK>>
      /\ closing /\ todo # <<>> /\ Head(todo) = "meter"
  BY DEF Exports!CloseMeter, Exports!flushVars, Exports!closeVars
<1>3. ExportTypes'
  BY <1>1, <1>2 DEF ExportInv, ExportTypes
<1>4. Counts'
  <2>1. \A s \in Exports!Active : failures[s] \in Nat
    BY DEF ExportInv, ExportTypes
  <2>. QED
    BY <1>1, <1>2, <2>1 DEF ExportInv, Counts
<1>5. Tidy' /\ Quiet'
  BY <1>2 DEF ExportInv, Tidy, Quiet, Exports!ClosedDown, Exports!Drained
<1>6. Flushed'
  BY <1>1, <1>2 DEF ExportInv, Flushed, Exports!FlushShipsFailures
<1>7. Final'
  <2>1. todo \in Seq(Exports!Closers) /\ Len(todo) \in Nat /\ Len(todo) >= 1 /\ todo[1] = "meter"
        /\ todo[Len(todo)] = "meter"
    BY <1>2 DEF ExportInv, Tidy
  <2>2. Len(todo) = 1
    <3>1. 1 \in 1..Len(todo) /\ Len(todo) \in 1..Len(todo)
      BY <2>1
    <3>2. todo[1] = todo[Len(todo)]
      BY <2>1
    <3>. QED
      BY <3>1, <3>2 DEF ExportInv, Tidy
  <2>3. \A s \in Exports!Batched : readerSnap'[s] = failures'[s]
    BY <1>1, <1>2, SignalNames
  <2>. QED
    BY <1>1, <1>2, <2>2, <2>3 DEF Final, Exports!LastDrainIsShipped
<1>. QED
  BY <1>3, <1>4, <1>5, <1>6, <1>7 DEF ExportInv

\* Every step keeps the invariant.
LEMMA ExportNext == ExportInv /\ [Exports!Next]_Exports!vars => ExportInv'
<1>. SUFFICES ASSUME ExportInv, [Exports!Next]_Exports!vars PROVE ExportInv'
  OBVIOUS
<1>1. ASSUME NEW s \in Exports!Batched, Exports!BatcherStep(s) PROVE ExportInv'
  BY <1>1, BatcherSteps, FlusherStep DEF Exports!BatcherStep
<1>2. CASE UNCHANGED Exports!vars
  <2>1. UNCHANGED <<queued, export, failures, reader, readerSnap, shipped, flush, flushing, owed,
                    flushOK, todo, closing, late, finalOK>>
    BY <1>2 DEF Exports!vars, Exports!readerVars, Exports!flushVars, Exports!closeVars
  <2>. QED
    BY <2>1 DEF ExportInv, ExportTypes, Counts, Tidy, Quiet, Flushed, Final, Exports!ClosedDown,
                Exports!Drained, Exports!FlushShipsFailures, Exports!LastDrainIsShipped
<1>3. CASE Exports!ScheduledCollect
  BY <1>3, ScheduleStep
<1>4. ASSUME NEW ok \in BOOLEAN, Exports!ReaderExports(ok) PROVE ExportInv'
  BY <1>4, ReaderStep
<1>5. CASE Exports!BeginFlush \/ Exports!EndStageOne \/ Exports!BeginShutdown
  BY <1>5, CallSteps
<1>6. CASE Exports!FlushMetrics
  BY <1>6, FlushStep
<1>7. CASE Exports!CloseBatcher \/ Exports!CloseProfiler
  BY <1>7, CloserSteps
<1>8. CASE Exports!CloseMeter
  BY <1>8, MeterCloses
<1>. QED
  BY <1>1, <1>2, <1>3, <1>4, <1>5, <1>6, <1>7, <1>8 DEF Exports!Next, Exports!Terminated

\* Whatever the pillars beside the pushed metrics, and however exports, collections,
\* ForceFlush and Shutdown interleave: a failure counted when a flusher returned has left
\* once the metrics flush succeeded, and one of the last drain has left with the last
\* collection.
THEOREM ShippedTheorem == Exports!Spec => []FailuresShipped
<1>1. ExportInv => FailuresShipped
  BY DEF ExportInv, Flushed, Final, FailuresShipped
<1>. QED
  BY <1>1, ExportInit, ExportNext, PTL DEF Exports!Spec
=============================================================================
