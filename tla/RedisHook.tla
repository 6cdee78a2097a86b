------------------------------ MODULE RedisHook ------------------------------
(***************************************************************************)
(* One command or pipeline through the hook redis.Wrap installs            *)
(* (redis/hook.go), and the dials its client makes meanwhile.  A command   *)
(* is what the hook tells apart: an application's, one named in            *)
(* WithIgnoredCommands, Pub/Sub, one of connection setup, or the MULTI and *)
(* EXEC of a transaction.                                                  *)
(***************************************************************************)
EXTENDS Naturals, Sequences, ErrorTypes

CONSTANTS Errors,     \* errors as in ErrorTypes; "nil" marks redis.Nil, "pool" ErrPoolTimeout
          MaxCmds,    \* commands of a pipeline, a bound of the model
          MaxDials    \* dials, a bound of the model

Commands == {"app", "ignored", "pubsub", "setup", "multi"}

\* config: what the options leave of it, the ignored names being given by the command.
Configs == [commandTextEnabled : BOOLEAN, requireParentSpan : BOOLEAN, ignored : BOOLEAN]

VARIABLES
  cfg,        \* the wrapper's config
  disabled,   \* the wrapper was unwrapped
  pc,         \* "idle", "next" (in go-redis) or "returned"
  cmds,       \* the commands of the call
  span,       \* "none", "open" or "ended"
  text,       \* the commands whose text db.query.text shows, by their places in cmds
  outcome,    \* the errors of the user commands, by place, and exec, that of the call
  verdict,    \* what finish recorded: error.type on the span and on the sample, the kind
  samples,    \* samples of db.client.operation.duration
  dials       \* samples of db.client.connection.create_time

vars == <<cfg, disabled, pc, cmds, span, text, outcome, verdict, samples, dials>>

NoVerdict == [type |-> NoType, label |-> NoType, kind |-> "none"]
NoOutcome == [each |-> <<>>, exec |-> {}]

Init ==
  /\ cfg \in Configs /\ disabled = FALSE /\ pc = "idle" /\ cmds = <<>>
  /\ span = "none" /\ text = {} /\ outcome = NoOutcome /\ verdict = NoVerdict
  /\ samples = 0 /\ dials = 0

-----------------------------------------------------------------------------
(* What the hook makes of commands and errors *)

IsPubSubCommand(cmd) == cmd = "pubsub"
IsConnectionLifecycleCommand(cmd) == cmd = "setup"

IsFilteredCommand(cmd) ==
  IsPubSubCommand(cmd) \/ IsConnectionLifecycleCommand(cmd) \/ (cmd = "ignored" /\ cfg.ignored)

\* The places of the application's commands.
UserPipelineCommands(s) == {i \in 1..Len(s) : s[i] # "multi"}

\* Faulty variant: every command of a recorded pipeline is shown.
UnfilteredPipelineCommandsAll(s, at) ==
  IF \A i \in at : IsFilteredCommand(s[i]) THEN {} ELSE at

UnfilteredPipelineCommands(s, at) == {i \in at : ~IsFilteredCommand(s[i])}

SkipUnparented(parented) == cfg.requireParentSpan /\ ~parented

RedisErrorKind(err) ==
  IF "pool" \in err.is THEN "pool_timeout"
  ELSE IF "deadline" \in err.is THEN "client_timeout"
  ELSE IF "canceled" \in err.is THEN "client_canceled" ELSE "none"

\* A redis.Nil is an answer, not a failure.
Real(err) == \E e \in err : "nil" \notin e.is

\* Faulty variant: the error of the call stands for those of its commands.
PipelineErrorExec(exec, each) == exec

\* The first failure of a user command, else the error of the call.
PipelineError(exec, each) ==
  LET failures == {i \in DOMAIN each : Real(each[i])}
  IN  IF failures # {} THEN each[Min(failures)] ELSE exec

-----------------------------------------------------------------------------

\* Faulty variant: the sample of a failed call has no error.type.
FinishUnlabelled(err) ==
  /\ span' = "ended" /\ samples' = samples + 1
  /\ verdict' = IF Real(err)
                THEN LET e == CHOOSE x \in err : TRUE
                     IN  [type |-> OuterType(e), label |-> NoType, kind |-> RedisErrorKind(e)]
                ELSE NoVerdict

\* finish: the verdict and the sample, the span's end deferred.
Finish(err) ==
  /\ span' = "ended" /\ samples' = samples + 1
  /\ verdict' = IF Real(err)
                THEN LET e == CHOOSE x \in err : TRUE
                     IN  [type |-> OuterType(e), label |-> OuterType(e), kind |-> RedisErrorKind(e)]
                ELSE NoVerdict

\* The hook starts a span, with the text of what it may show.
Record(shown) ==
  /\ span' = "open"
  /\ text' = IF cfg.commandTextEnabled THEN shown ELSE {}

Leave == UNCHANGED <<span, text>>

ProcessHook(cmd, parented) ==
  /\ pc = "idle" /\ cmd # "multi"
  /\ pc' = "next" /\ cmds' = <<cmd>>
  /\ IF disabled \/ SkipUnparented(parented) \/ IsFilteredCommand(cmd)
     THEN Leave ELSE Record({1})
  /\ UNCHANGED <<cfg, disabled, outcome, verdict, samples, dials>>

ProcessPipelineHook(s, parented) ==
  LET user    == UserPipelineCommands(s)
      visible == UnfilteredPipelineCommands(s, user)
  IN  /\ pc = "idle" /\ Len(s) > 1
      /\ pc' = "next" /\ cmds' = s
      /\ IF disabled \/ user = {} \/ SkipUnparented(parented) \/ visible = {}
         THEN Leave ELSE Record(visible)
      /\ UNCHANGED <<cfg, disabled, outcome, verdict, samples, dials>>

\* go-redis returns (external) from a recorded call: each command with its
\* error, the call with the first of them, or with one of its own.
Return(each, exec) ==
  /\ pc = "next" /\ span = "open"
  /\ pc' = "returned"
  /\ LET errs == {i \in DOMAIN each : each[i] # {}}
     IN  exec = (IF errs = {} THEN {} ELSE each[Min(errs)]) \/ (Len(cmds) > 1 /\ Real(exec))
  /\ outcome' = [each |-> each, exec |-> exec]
  /\ Finish(IF Len(cmds) = 1 THEN exec ELSE PipelineError(exec, each))
  /\ UNCHANGED <<cfg, disabled, cmds, text, dials>>

\* It returns from a call the hook left alone.
ReturnUnseen ==
  /\ pc = "next" /\ span = "none"
  /\ pc' = "returned"
  /\ UNCHANGED <<cfg, disabled, cmds, span, text, outcome, verdict, samples, dials>>

\* DialHook: only a dial that succeeds is sampled.
Dial(ok) ==
  /\ dials < MaxDials /\ pc = "next"
  /\ dials' = IF disabled \/ ~ok THEN dials ELSE dials + 1
  /\ UNCHANGED <<cfg, disabled, pc, cmds, span, text, outcome, verdict, samples>>

\* Unwrap, at any time.
Disable ==
  /\ ~disabled
  /\ disabled' = TRUE
  /\ UNCHANGED <<cfg, pc, cmds, span, text, outcome, verdict, samples, dials>>

ErrorsOrNone == {{}} \cup {{e} : e \in Errors}

Begin ==
  /\ pc = "idle"
  /\ \E p \in BOOLEAN :
       \/ \E c \in Commands : ProcessHook(c, p)
       \/ \E n \in 2..MaxCmds : \E s \in [1..n -> Commands] : ProcessPipelineHook(s, p)

End ==
  /\ pc = "next"
  /\ \/ \E each \in [UserPipelineCommands(cmds) -> ErrorsOrNone], x \in ErrorsOrNone :
          Return(each, x)
     \/ ReturnUnseen

Next == Begin \/ End \/ (\E ok \in BOOLEAN : Dial(ok)) \/ Disable

Spec == Init /\ [][Next]_vars

-----------------------------------------------------------------------------

(***************************************************************************)
(* A filtered command's text (AUTH's credentials) is never on a span, not  *)
(* even on that of a pipeline recorded for its other commands, and a call  *)
(* of filtered commands alone has neither span nor sample.                 *)
(***************************************************************************)
FilteredStaysHidden ==
  /\ \A i \in text : ~IsFilteredCommand(cmds[i])
  /\ span # "none" => \E i \in 1..Len(cmds) : cmds[i] # "multi" /\ ~IsFilteredCommand(cmds[i])

(***************************************************************************)
(* A recorded call is a failure exactly when one of its commands, or the   *)
(* call itself, failed with something other than redis.Nil: a Nil early in *)
(* a pipeline hides no later error.                                        *)
(***************************************************************************)
NilHidesNothing ==
  span = "ended" =>
    (verdict.type # NoType <=> \/ \E i \in DOMAIN outcome.each : Real(outcome.each[i])
                               \/ Real(outcome.exec))

\* The call as an operation of an instrumented client.
Op == INSTANCE ClientOp WITH
  stage        <- IF pc = "idle" THEN "idle" ELSE IF span = "open" THEN "open"
                  ELSE IF span = "ended" THEN "reported" ELSE "quiet",
  spanFailed   <- verdict.type # NoType,
  sampleFailed <- samples = 1 /\ verdict.label # NoType
=============================================================================
