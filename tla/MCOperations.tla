---------------------------- MODULE MCOperations ----------------------------
(***************************************************************************)
(* The operations of the clients that own theirs (Elasticsearch, MinIO,    *)
(* Redis, Cassandra), the commands of a MongoDB client and the wrapping of *)
(* Resty's, each with variables of its own.  In the run each moves by      *)
(* itself: which says whose behaviour it is.                               *)
(***************************************************************************)
EXTENDS Naturals, Sequences, FiniteSets

CONSTANTS
  NoType,                                             \* the empty error.type
  EsErrors, MinioErrors, RedisErrors, CqlErrors,      \* errors of each client, as in ErrorTypes
  Statuses,                                           \* HTTP statuses of Elasticsearch
  Goroutines,                                         \* callers of resty.Wrap
  \* bounds of the models
  MaxAttempts, MaxItems, MaxOptions, MaxCmds, MaxDials, MaxStmts,
  MaxClients, MaxCalls, MaxInstruments, MaxRequests

\* Names of an error.type that no Go type and no S3 code has.
StableNames == {NoType, "context.DeadlineExceeded", "context.Canceled"}

\* An error has a Go type, and the empty error.type is none of the names errors get.
ASSUME ErrorAssumption ==
  /\ \A e \in EsErrors \cup MinioErrors \cup RedisErrors \cup CqlErrors :
       e.types \in Seq(STRING) /\ Len(e.types) > 0
         /\ \A i \in 1..Len(e.types) : e.types[i] \notin StableNames
  /\ \A e \in MinioErrors : e.code \notin StableNames
  /\ NoType \notin {"context.DeadlineExceeded", "context.Canceled", "_OTHER", "status",
                    "*fmt.wrapError", "*fmt.wrapErrors", "*errors.errorString"}

\* A status is a number, 0 standing for no response.
ASSUME StatusAssumption == Statuses \subseteq Nat \ {0}

\* A client can be instrumented.
ASSUME InstrumentAssumption == MaxInstruments \in Nat \ {0}

\* A batch has a number of statements.
ASSUME StmtsAssumption == MaxStmts \in Nat

VARIABLES
  esPc, esCfg, sampled, st, tries, last, esSpan, esSample, failed,
  minioCfg, transport, built, minioPc, op, minioAttrs, verdict, reported, handle, producer,
  upstream, produced, held, firstErr, reader, cancelled, outClosed,
  redisCfg, disabled, redisPc, cmds, redisSpan, text, redisOutcome, redisVerdict, samples, dials,
  cqlCfg, cqlAttrs, server, cqlPc, kind, stmts, session, host, cqlOutcome, cqlSpan, cqlSample, attempts,
  made, live, hooks, wrapped, calls, restyPc, arg, at, entries, holder, table, queued, cleaning,
  mongoPc, monitor, trackers, instruments, commands, spans, ended, appSaw

esVars == <<esPc, esCfg, sampled, st, tries, last, esSpan, esSample, failed>>
minioVars == <<minioCfg, transport, built, minioPc, op, minioAttrs, verdict, reported, handle, producer,
               upstream, produced, held, firstErr, reader, cancelled, outClosed>>
redisVars == <<redisCfg, disabled, redisPc, cmds, redisSpan, text, redisOutcome, redisVerdict,
               samples, dials>>
cqlVars == <<cqlCfg, cqlAttrs, server, cqlPc, kind, stmts, session, host, cqlOutcome, cqlSpan,
             cqlSample, attempts>>
restyVars == <<made, live, hooks, wrapped, calls, restyPc, arg, at, entries, holder, table, queued,
               cleaning>>
mongoVars == <<mongoPc, monitor, trackers, instruments, commands, spans, ended, appSaw>>

-----------------------------------------------------------------------------

Es == INSTANCE EsOperation WITH
  Errors <- EsErrors, pc <- esPc, cfg <- esCfg, span <- esSpan, sample <- esSample

Minio == INSTANCE MinioClient WITH
  Errors <- MinioErrors, MaxClients <- MaxOptions, pc <- minioPc, cfg <- minioCfg,
  attrs <- minioAttrs

Redis == INSTANCE RedisHook WITH
  Errors <- RedisErrors,
  pc <- redisPc, cfg <- redisCfg, span <- redisSpan, outcome <- redisOutcome, verdict <- redisVerdict

Cql == INSTANCE CassandraOps WITH
  Errors <- CqlErrors,
  pc <- cqlPc, cfg <- cqlCfg, attrs <- cqlAttrs, outcome <- cqlOutcome, span <- cqlSpan,
  sample <- cqlSample

Resty == INSTANCE RestyWrap WITH pc <- restyPc

Mongo == INSTANCE MongoMonitor WITH pc <- mongoPc

-----------------------------------------------------------------------------

\* Elasticsearch, MinIO: the span and the sample say what the caller saw, and
\* the names an error has agree.
FailureAsSeen == Es!AgreesWithCaller /\ Minio!KindAgrees

\* MinIO: what outlives a call, a listing, a handle or an Options value, leaves
\* no producer behind and stays the caller's.
OutlivesCleanly == Minio!ListingReleased /\ Minio!CallersOwnKept

\* Redis: a filtered command is on no span, a mixed pipeline's included, and a
\* Nil hides no failure of a pipeline.
PipelineHonest == Redis!FilteredStaysHidden /\ Redis!NilHidesNothing

\* Cassandra: a table on a span is the one addressed, so is a keyspace where the
\* parser can read it, and the caller's attributes never speak for the package.
NothingMislabelled == Cql!NeverMislabels /\ Cql!OwnedKeysHonest

\* Resty: a wrapped client has its hooks once, whoever had its address before.
HookedOnce == Resty!HookedOnce

\* MongoDB: overlapping commands on connections of one server keep their spans.
CommandsCorrelate == Mongo!CommandsCorrelate

(***************************************************************************)
(* Each client implements ClientOp: an operation is left alone, or has one *)
(* span that ends once, with one sample that agrees on its failure.        *)
(***************************************************************************)
OperationsReport == Es!Op!Spec /\ Minio!Op!Spec /\ Redis!Op!Spec /\ Cql!Op!Spec

-----------------------------------------------------------------------------
(***************************************************************************)
(* The instance the run checks.  Two goroutines, and errors of every kind. *)
(***************************************************************************)

CONSTANTS g1, g2

VARIABLE which

vars == <<which, esVars, minioVars, redisVars, cqlVars, restyVars, mongoVars>>

Clients == {"elasticsearch", "minio", "redis", "cassandra", "resty", "mongo"}

-----------------------------------------------------------------------------
(* Errors: a wrapped network failure, a context error within one, two      *)
(* context errors in one chain, and what each client adds.                 *)

Err(types, is, code, status) == [types |-> types, is |-> is, code |-> code, status |-> status]

Plain    == Err(<<"*net.OpError">>, {"op"}, "", 0)
Both     == Err(<<"*errors.joinError">>, {"canceled", "deadline"}, "", 0)
Canceled == Err(<<"*errors.errorString">>, {"canceled"}, "", 0)

MCEsErrors ==
  {[types |-> <<"*fmt.wrapError", "*net.OpError">>, is |-> {"op"}, code |-> 0],
   [types |-> <<"*fmt.wrapError", "*net.OpError">>, is |-> {"op", "deadline"}, code |-> 0],
   [types |-> <<"*fmt.wrapErrors">>, is |-> {}, code |-> 0],
   [types |-> <<"*types.ElasticsearchError">>, is |-> {"elasticsearch"}, code |-> 404],
   [types |-> <<"*types.ElasticsearchError">>, is |-> {"elasticsearch"}, code |-> 503],
   [types |-> <<"*errors.errorString">>, is |-> {"status"}, code |-> 503]}

MCMinioErrors ==
  {Plain, Both, Canceled, Err(<<"minio.ErrorResponse">>, {}, "NoSuchKey", 404),
   Err(<<"minio.ErrorResponse">>, {}, "SlowDown", 503),
   Err(<<"minio.ErrorResponse">>, {"op", "tls"}, "InternalError", 500)}

MCRedisErrors ==
  {[types |-> <<"proto.RedisError">>, is |-> {"nil"}], [types |-> <<"proto.RedisError">>, is |-> {}],
   [types |-> <<"*fmt.wrapError">>, is |-> {"pool", "deadline"}]}

MCCqlErrors == {[types |-> <<"*gocql.RequestErrUnavailable">>, is |-> {}],
                [types |-> <<"*fmt.wrapError">>, is |-> {"canceled"}]}

-----------------------------------------------------------------------------

\* The clients a behaviour is not about start somewhere and stay there.
Init ==
  /\ which \in Clients
  /\ Es!Init /\ Minio!Init /\ Redis!Init /\ Cql!Init /\ Resty!Init /\ Mongo!Init
  /\ which # "elasticsearch" => esCfg = (CHOOSE c \in Es!Configs : TRUE) /\ sampled
  /\ which # "minio" => minioCfg = (CHOOSE c \in Minio!Configs : TRUE) /\ transport = <<>>
  /\ which # "redis" => redisCfg = CHOOSE c \in Redis!Configs : TRUE
  /\ which # "cassandra" => cqlCfg = (CHOOSE c \in Cql!Configs : TRUE) /\ cqlAttrs = {} /\ server
  /\ which # "mongo" => monitor = <<>>

Next ==
  \/ which = "elasticsearch" /\ Es!Next
       /\ UNCHANGED <<which, minioVars, redisVars, cqlVars, restyVars, mongoVars>>
  \/ which = "minio" /\ Minio!Next
       /\ UNCHANGED <<which, esVars, redisVars, cqlVars, restyVars, mongoVars>>
  \/ which = "redis" /\ Redis!Next
       /\ UNCHANGED <<which, esVars, minioVars, cqlVars, restyVars, mongoVars>>
  \/ which = "cassandra" /\ Cql!Next
       /\ UNCHANGED <<which, esVars, minioVars, redisVars, restyVars, mongoVars>>
  \/ which = "resty" /\ Resty!Next
       /\ UNCHANGED <<which, esVars, minioVars, redisVars, cqlVars, mongoVars>>
  \/ which = "mongo" /\ Mongo!Next
       /\ UNCHANGED <<which, esVars, minioVars, redisVars, cqlVars, restyVars>>

Spec ==
  /\ Init /\ [][Next]_vars
  /\ \/ which = "minio" /\ Minio!Fairness
     \/ which = "resty" /\ Resty!Fairness
     \/ which \in {"elasticsearch", "redis", "cassandra", "mongo"}

-----------------------------------------------------------------------------

\* A MinIO listing whose context ends, or whose reader stays, ends; Resty's Wrap
\* returns.
CallsEnd == (which = "minio" => Minio!ListingEnds) /\ (which = "resty" => Resty!WrapReturns)
=============================================================================
