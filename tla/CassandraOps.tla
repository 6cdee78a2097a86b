----------------------------- MODULE CassandraOps ----------------------------
(***************************************************************************)
(* One query attempt or one batch of an instrumented gocql session: what   *)
(* the observer makes of the statements (cassandra/attributes.go, batch.go)*)
(* and what it records (cassandra/observer.go).  A statement is its fields,*)
(* comments gone; a field is a keyword or a name as written.               *)
(***************************************************************************)
EXTENDS Naturals, Sequences, ErrorTypes

CONSTANTS Errors,      \* errors of the driver, as in ErrorTypes
          MaxStmts     \* statements of a batch, a bound of the model

\* A name as written: [keyspace.]table, bare or quoted.  "split" is a quoted
\* table with a space, of which the fields hold only the first word; "dotted"
\* a quoted table with a dot or, after a qualifier, any table of a quoted
\* keyspace with a space: cut so that neither part can be read.
Names == [ks : {"", "a", "b"}, table : {"t", "u"}, form : {"whole", "split", "dotted"}]

\* The statements of the model: the shape of their fields and the name in it.
Shapes == {<<"SELECT", "*", "FROM", "name">>, <<"INSERT", "INTO", "name", "x">>,
           <<"UPDATE", "name", "SET">>, <<"DELETE", "FROM", "name">>,
           <<"TRUNCATE", "name">>, <<"TRUNCATE", "TABLE", "name">>,
           <<"CREATE", "TABLE", "IF", "NOT", "EXISTS", "name", "x">>, <<"DROP", "TABLE", "name">>,
           <<"DROP", "KEYSPACE", "IF", "EXISTS", "name">>,
           <<"CREATE", "INDEX", "x", "ON", "name">>, <<"USE", "x">>}
Statements == {s \in [shape : Shapes, name : Names] : s.shape[2] = "KEYSPACE" => s.name.ks = ""}

\* What a batch may hold: names that agree and differ in either part, or are cut.
BatchStatements ==
  {s \in Statements : /\ s.shape[1] = "UPDATE"
                      /\ \/ s.name.table = "t" /\ s.name.form = "whole"
                         \/ s.name.ks = "" /\ s.name.form # "dotted"}

Configs == [queryTextEnabled : BOOLEAN, collectionMetricLabelDisabled : BOOLEAN,
            hostAttributesEnabled : BOOLEAN]

CallerAttrs == {"app", "db.query.text", "error.type"}

VARIABLES
  cfg,       \* the session's config
  attrs,     \* its WithAttributes, filtered
  server,    \* it has a contact point
  pc,        \* "idle", "running" (in the driver) or "recorded"
  kind,      \* "query" or "batch"
  stmts,     \* the statements
  session,   \* the keyspace of the session, "" for none
  host,      \* the driver names the node it reached
  outcome,   \* {} or {the error}
  span,      \* what the span says
  sample,    \* the labels of the duration sample
  attempts   \* cassandra.query.attempts

vars == <<cfg, attrs, server, pc, kind, stmts, session, host, outcome, span, sample, attempts>>

NoRecord == [target |-> <<"", "", "">>, keys |-> {}, error |-> NoType]

ReservedAttrKeys == {"db.query.text", "error.type", "db.namespace", "db.collection.name",
                     "server.address", "batch.size", "attempt", "peer"}

\* Faulty variant: the built-in attributes are left to win by coming last.
FilterReservedAttrsNone(as) == as

FilterReservedAttrs(as) == as \ ReservedAttrKeys

CollectionMetricLabel == ~cfg.collectionMetricLabelDisabled

Init ==
  /\ cfg \in Configs /\ attrs \in {FilterReservedAttrs(as) : as \in SUBSET CallerAttrs}
  /\ server \in BOOLEAN
  /\ pc = "idle" /\ kind = "none" /\ stmts = <<>> /\ session = "" /\ host = FALSE
  /\ outcome = {} /\ span = NoRecord /\ sample = NoRecord /\ attempts = 0

-----------------------------------------------------------------------------
(* Parsing: <<keyspace, table>>, "" where it is not known *)

\* Faulty variant: the quotes are trimmed, whole or not.
UnquoteIdentifierTrim(whole, name) == IF whole THEN name ELSE "cut"

UnquoteIdentifier(whole, name) == IF whole THEN name ELSE ""

\* The qualifier is cut at the last dot, the quoted one's too.
NormalizeTable(n) ==
  IF n.form = "dotted" THEN <<UnquoteIdentifier(FALSE, n.ks), UnquoteIdentifier(FALSE, n.table)>>
  ELSE <<n.ks, UnquoteIdentifier(n.form = "whole", n.table)>>

\* The field at i, read as a name.
Field(s, i) == IF s.shape[i] = "name" THEN NormalizeTable(s.name) ELSE <<"", s.shape[i]>>

AfterKeyword(s, keyword) ==
  LET at == {i \in 2..(Len(s.shape) - 1) : s.shape[i] = keyword}
  IN  IF at = {} THEN <<"", "">> ELSE Field(s, 1 + CHOOSE i \in at : \A j \in at : i <= j)

ObjectToken(s, start) ==
  LET at == {i \in start..Len(s.shape) : s.shape[i] \notin {"IF", "NOT", "EXISTS"}}
  IN  IF at = {} THEN <<"", "">> ELSE Field(s, CHOOSE i \in at : \A j \in at : i <= j)

ParseDDLTarget(s) ==
  CASE Len(s.shape) >= 3 /\ s.shape[2] \in {"TABLE", "COLUMNFAMILY"} -> ObjectToken(s, 3)
    [] Len(s.shape) >= 3 /\ s.shape[2] \in {"KEYSPACE", "SCHEMA"} -> <<ObjectToken(s, 3)[2], "">>
    [] OTHER -> <<"", "">>

ParseTableFields(s) ==
  CASE s.shape[1] \in {"SELECT", "DELETE"} -> AfterKeyword(s, "FROM")
    [] s.shape[1] = "INSERT" -> AfterKeyword(s, "INTO")
    [] s.shape[1] = "UPDATE" -> Field(s, 2)
    [] s.shape[1] = "TRUNCATE" -> ObjectToken(s, IF s.shape[2] = "TABLE" THEN 3 ELSE 2)
    [] s.shape[1] \in {"CREATE", "DROP", "ALTER"} -> ParseDDLTarget(s)
    [] OTHER -> <<"", "">>

\* The keyspace a statement addresses: its qualifier, else the session's.
Effective(s) == LET p == ParseTableFields(s)
                IN  <<IF p[1] = "" THEN session ELSE p[1], p[2]>>

\* Faulty variant: tables are compared by their bare names.
BatchTargetsBare(es) ==
  LET ks == {es[i][1] : i \in DOMAIN es}
      ts == {es[i][2] : i \in DOMAIN es}
  IN  <<IF \E k \in ks : ks = {k} THEN CHOOSE k \in ks : TRUE ELSE "",
        IF \E t \in ts : ts = {t} THEN CHOOSE t \in ts : TRUE ELSE "">>

\* The pass over the statements: r is [ns, nsConflict, tbl, key, tblConflict],
\* key being <<>> while no table is resolved.
BatchStep(r, e) ==
  LET ns == CASE r.nsConflict -> <<"", TRUE>>
              [] ~r.nsConflict /\ r.ns \in {"", e[1]} /\ e[1] # "" -> <<e[1], FALSE>>
              [] OTHER -> <<"", TRUE>>
      tb == CASE r.tblConflict \/ e[2] = "" -> <<"", r.key, TRUE>>
              [] ~r.tblConflict /\ e[2] # "" /\ r.key \in {<<>>, e} -> <<e[2], e, FALSE>>
              [] OTHER -> <<"", r.key, TRUE>>
  IN  [ns |-> ns[1], nsConflict |-> ns[2], tbl |-> tb[1], key |-> tb[2], tblConflict |-> tb[3]]

\* batchTargets over the effective <<keyspace, table>> of the statements.
BatchTargets(es) ==
  LET pass[i \in 0..Len(es)] ==
        IF i = 0 THEN [ns |-> "", nsConflict |-> FALSE, tbl |-> "", key |-> <<>>, tblConflict |-> FALSE]
        ELSE BatchStep(pass[i - 1], es[i])
      r == pass[Len(es)]
  IN  <<IF r.ns = "" /\ ~r.nsConflict THEN session ELSE r.ns, r.tbl>>

-----------------------------------------------------------------------------

\* target: operation, keyspace, table.
Target ==
  IF kind = "batch"
  THEN <<"BATCH">> \o BatchTargets([i \in DOMAIN stmts |-> Effective(stmts[i])])
  ELSE <<stmts[1].shape[1]>> \o Effective(stmts[1])

TargetKeys(t) == (IF t[2] # "" THEN {"db.namespace"} ELSE {})
                   \cup (IF t[3] # "" THEN {"db.collection.name"} ELSE {})

\* queryServer: the node that ran the attempt, else the contact point.
ServerKeys(known) == IF known \/ server THEN {"server.address"} ELSE {}

\* baseAttrs and what the query or the batch adds to them.
SpanAttrs(t) ==
  TargetKeys(t) \cup ServerKeys(host)
    \cup (IF host /\ cfg.hostAttributesEnabled THEN {"peer"} ELSE {})
    \cup (IF cfg.queryTextEnabled /\ stmts # <<>> THEN {"db.query.text"} ELSE {})
    \cup (IF kind = "query" THEN {"attempt"} ELSE IF stmts = <<>> THEN {} ELSE {"batch.size"})

MetricAttrs(t) ==
  (TargetKeys(t) \ (IF CollectionMetricLabel THEN {} ELSE {"db.collection.name"})) \cup ServerKeys(host)

\* record: a finished span and a sample, both naming the error.
Record(err) ==
  LET t    == Target
      fail == IF err = {} THEN NoType ELSE OuterType(CHOOSE e \in err : TRUE)
      key  == IF err = {} THEN {} ELSE {"error.type"}
  IN  /\ pc' = "recorded" /\ outcome' = err
      /\ span' = [target |-> t, keys |-> attrs \cup SpanAttrs(t) \cup key, error |-> fail]
      /\ sample' = [target |-> t, keys |-> MetricAttrs(t) \cup key, error |-> fail]

\* The driver runs an attempt of a query, or instrumentBatch hands it a batch.
Run(k, s, ks) ==
  /\ pc = "idle"
  /\ pc' = "running" /\ kind' = k /\ stmts' = s /\ session' = ks
  /\ UNCHANGED <<cfg, attrs, server, host, outcome, span, sample, attempts>>

ObserveQuery(err) ==
  /\ pc = "running" /\ kind = "query"
  /\ Record(err)
  /\ attempts' = attempts + 1
  /\ UNCHANGED <<cfg, attrs, server, kind, stmts, session, host>>

\* The driver names the node, on a query only.
Reached ==
  /\ pc = "running" /\ kind = "query" /\ ~host
  /\ host' = TRUE
  /\ UNCHANGED <<cfg, attrs, server, pc, kind, stmts, session, outcome, span, sample, attempts>>

\* The rest of instrumentBatch.
BatchReturns(err) ==
  /\ pc = "running" /\ kind = "batch"
  /\ Record(err)
  /\ UNCHANGED <<cfg, attrs, server, kind, stmts, session, host, attempts>>

Begin ==
  /\ pc = "idle"
  /\ \E ks \in {"", "a"} :
       \/ \E s \in Statements : Run("query", <<s>>, ks)
       \/ \E n \in 0..MaxStmts : \E b \in [1..n -> BatchStatements] : Run("batch", b, ks)

Next ==
  \/ Begin \/ Reached
  \/ \E err \in {{}} \cup {{e} : e \in Errors} : ObserveQuery(err) \/ BatchReturns(err)

Spec == Init /\ [][Next]_vars

-----------------------------------------------------------------------------

\* The keyspace and table a statement really addresses, "" for none.
Addressed(s) ==
  CASE s.shape[2] = "KEYSPACE" -> <<s.name.table, "">>
    [] "name" \notin {s.shape[i] : i \in DOMAIN s.shape} -> <<session, "">>
    [] OTHER -> <<IF s.name.ks = "" THEN session ELSE s.name.ks, s.name.table>>

\* The parser has a rule for the statement and its fields hold the whole name,
\* or at least which keyspace it is in.
TableReadable(s) == s.name.form = "whole" /\ s.shape[2] # "INDEX"
KeyspaceReadable(s) ==
  IF s.shape[2] = "KEYSPACE" THEN s.name.form = "whole"
  ELSE s.name.ks = "" \/ (s.name.form # "dotted" /\ s.shape[2] # "INDEX")

(***************************************************************************)
(* A table on the span or on the sample is the one every statement         *)
(* addresses, in the same keyspace, never one the parser cut short; when   *)
(* all names can be read and agree it is not left out.  When the parser    *)
(* can read which keyspaces the statements are in, a keyspace on the span  *)
(* is the one they all address, a table read or not, and it is not left    *)
(* out when they agree.                                                    *)
(***************************************************************************)
NeverMislabels ==
  pc = "recorded" /\ stmts # <<>> =>
    LET truth == {Addressed(stmts[i]) : i \in DOMAIN stmts}
    IN  /\ span.target[3] # "" => truth = {<<span.target[2], span.target[3]>>}
        /\ (\A i \in DOMAIN stmts : TableReadable(stmts[i])) /\ (\E x \in truth : truth = {x}) =>
             <<span.target[2], span.target[3]>> \in truth
        /\ (\A i \in DOMAIN stmts : KeyspaceReadable(stmts[i])) =>
             /\ span.target[2] # "" => \A x \in truth : x[1] = span.target[2]
             /\ \A x \in truth : (\A y \in truth : y[1] = x[1]) => span.target[2] = x[1]

(***************************************************************************)
(* The keys the package owns mean what it says whatever the caller passes  *)
(* to WithAttributes: the statement's text only where it was asked for, an *)
(* error.type exactly on a failure, on the span as on the sample.          *)
(***************************************************************************)
OwnedKeysHonest ==
  pc = "recorded" =>
    /\ "db.query.text" \in span.keys => cfg.queryTextEnabled
    /\ "error.type" \in span.keys <=> outcome # {}
    /\ "error.type" \in sample.keys <=> outcome # {}

\* The attempt or the batch as an operation of an instrumented client.
Op == INSTANCE ClientOp WITH
  stage        <- IF pc = "idle" THEN "idle" ELSE IF pc = "running" THEN "open" ELSE "reported",
  spanFailed   <- span.error # NoType,
  sampleFailed <- sample.error # NoType
=============================================================================
