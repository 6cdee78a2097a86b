----------------------------- MODULE NatsProofs -----------------------------
(***************************************************************************)
(* Proofs about the NATS package: a batch for every request and any number *)
(* of goroutines that call Stop, Request for every timeout and budget, and *)
(* the headers for a message sent on any number of times.                  *)
(***************************************************************************)
EXTENDS MCNats, Sequences, TLAPS

\* A message is with the server, the goroutine, the channel or the reader; the
\* goroutine holds one exactly while it sends.
Counted ==
  /\ got <= sent /\ sent <= taken /\ taken <= arrived /\ arrived <= req.cap
  /\ forward = "send" => sent + 1 = taken
  /\ forward \in {"none", "receive"} => sent = taken

\* The goroutine runs from the return of Fetch.
Begun ==
  /\ phase # "returned" => forward = "none" /\ pull = "none" /\ ~mbStopped
  /\ phase # "returned" => \A t \in Stoppers : stop[t] = "idle"
  /\ closed => forward = "exited"

\* done is closed before anything Stop does after it.
DoneFirst ==
  /\ mbStopped => done
  /\ \A t \in Stoppers : stop[t] \in {"cancel", "upstream", "stopped"} => done

\* Without Stop the goroutine leaves only when every message is forwarded.
LeavesLast ==
  forward \in {"cancel", "close", "exited"} /\ ~done =>
    pull = "ended" /\ sent = arrived

\* Who has called cancel.
WhoCancels ==
  /\ cancelled => phase = "failed" \/ done \/ forward \in {"close", "exited"}
  /\ phase = "failed" \/ forward \in {"close", "exited"} => cancelled

\* Where a cancellation that Error sees comes from.
Blame ==
  /\ err = "canceled" => ctxDone \/ done
  /\ reader \in {"reading", "finished", "abandoned"} => seen = "none"
  /\ reader = "error" /\ seen = "canceled" => ctxDone \/ done
  /\ ErrorBlamesCaller

Inv == TypeOK /\ Counted /\ Begun /\ DoneFirst /\ LeavesLast /\ WhoCancels /\ Blame

\* The initial states satisfy the invariant.
LEMMA InitInv == Init => Inv
  <1> SUFFICES ASSUME Init PROVE Inv
    OBVIOUS
  <1>1. TypeOK
    BY DEF Init, TypeOK
  <1>2. Counted
    BY FetchAssumption DEF Init, Counted, Request
  <1>3. Begun
    BY DEF Init, Begun
  <1>4. DoneFirst /\ LeavesLast
    BY DEF Init, DoneFirst, LeavesLast
  <1>5. WhoCancels
    BY DEF Init, WhoCancels
  <1>6. Blame
    BY DEF Init, Blame, ErrorBlamesCaller
  <1> QED
    BY <1>1, <1>2, <1>3, <1>4, <1>5, <1>6 DEF Inv

\* Facts about the request that steps rely on.
LEMMA RequestType ==
  ASSUME TypeOK
  PROVE  /\ req.cap \in Nat /\ req.cap > 0
         /\ req.bounded \in BOOLEAN /\ req.waits \in BOOLEAN /\ req.maxWait \in BOOLEAN
         /\ BufSize \in Nat /\ BufSize > 0
  BY FetchAssumption DEF TypeOK, Request, BufSize

\* Every step preserves the invariant.
LEMMA NextInv == Inv /\ [Next]_vars => Inv'
  <1> SUFFICES ASSUME Inv, [Next]_vars PROVE Inv'
    OBVIOUS
  <1> USE RequestType DEF Inv
  <1>1. CASE CallFetch
    <2> USE <1>1 DEF CallFetch, Start, Fail, userVars
    <2>1. TypeOK'
      BY DEF TypeOK
    <2>2. Counted'
      BY DEF TypeOK, Counted, Begun
    <2>3. Begun'
      BY DEF TypeOK, Begun
    <2>4. DoneFirst' /\ LeavesLast'
      BY DEF TypeOK, Begun, DoneFirst, LeavesLast
    <2>5. WhoCancels'
      BY DEF TypeOK, Begun, WhoCancels
    <2>6. Blame'
      BY DEF TypeOK, Blame, ErrorBlamesCaller
    <2> QED
      BY <2>1, <2>2, <2>3, <2>4, <2>5, <2>6
  <1>2. CASE RetryFetch
    <2> USE <1>2 DEF RetryFetch, Start, Fail, userVars
    <2>1. TypeOK'
      BY DEF TypeOK
    <2>2. Counted'
      BY DEF TypeOK, Counted, Begun
    <2>3. Begun'
      BY DEF TypeOK, Begun
    <2>4. DoneFirst' /\ LeavesLast'
      BY DEF TypeOK, Begun, DoneFirst, LeavesLast
    <2>5. WhoCancels'
      BY DEF TypeOK, Begun, WhoCancels
    <2>6. Blame'
      BY DEF TypeOK, Blame, ErrorBlamesCaller
    <2> QED
      BY <2>1, <2>2, <2>3, <2>4, <2>5, <2>6
  <1>3. CASE CancelCtx
    BY <1>3 DEF CancelCtx, TypeOK, Counted, Begun, DoneFirst, LeavesLast,
         WhoCancels, Blame, ErrorBlamesCaller, fixed, pullVars, chanVars, userVars
  <1>4. CASE Arrive
    BY <1>4 DEF Arrive, TypeOK, Counted, Begun, DoneFirst, LeavesLast,
         WhoCancels, Blame, ErrorBlamesCaller, fixed, chanVars, userVars
  <1>5. CASE PullCancelled
    BY <1>5 DEF PullCancelled, FetchCtxDone, TypeOK, Counted, Begun, DoneFirst, LeavesLast,
         WhoCancels, Blame, ErrorBlamesCaller, fixed, chanVars, userVars
  <1>6. CASE PullExpires
    BY <1>6 DEF PullExpires, TypeOK, Counted, Begun, DoneFirst, LeavesLast,
         WhoCancels, Blame, ErrorBlamesCaller, fixed, chanVars, userVars
  <1>7. CASE Receive
    <2> USE <1>7 DEF Receive, fixed, pullVars, userVars
    <2>1. TypeOK'
      BY DEF TypeOK
    <2>2. Counted'
      BY DEF TypeOK, Counted, Begun
    <2>3. Begun'
      BY DEF TypeOK, Begun
    <2>4. DoneFirst' /\ LeavesLast'
      BY DEF TypeOK, Counted, DoneFirst, LeavesLast
    <2>5. WhoCancels'
      BY DEF TypeOK, Begun, WhoCancels
    <2>6. Blame'
      BY DEF TypeOK, Blame, ErrorBlamesCaller
    <2> QED
      BY <2>1, <2>2, <2>3, <2>4, <2>5, <2>6
  <1>8. CASE Send
    <2> USE <1>8 DEF Send, fixed, pullVars, userVars
    <2>1. TypeOK'
      BY DEF TypeOK
    <2>2. Counted'
      BY DEF TypeOK, Counted, Begun
    <2>3. Begun'
      BY DEF TypeOK, Begun
    <2>4. DoneFirst' /\ LeavesLast'
      BY DEF TypeOK, Counted, DoneFirst, LeavesLast
    <2>5. WhoCancels'
      BY DEF TypeOK, Begun, WhoCancels
    <2>6. Blame'
      BY DEF TypeOK, Blame, ErrorBlamesCaller
    <2> QED
      BY <2>1, <2>2, <2>3, <2>4, <2>5, <2>6
  <1>9. CASE DeferredCancel
    <2> USE <1>9 DEF DeferredCancel, fixed, pullVars, userVars
    <2>1. TypeOK'
      BY DEF TypeOK
    <2>2. Counted'
      BY DEF TypeOK, Counted, Begun
    <2>3. Begun'
      BY DEF TypeOK, Begun
    <2>4. DoneFirst' /\ LeavesLast'
      BY DEF TypeOK, Begun, DoneFirst, LeavesLast
    <2>5. WhoCancels'
      BY DEF TypeOK, Begun, WhoCancels
    <2>6. Blame'
      BY DEF TypeOK, Blame, ErrorBlamesCaller
    <2> QED
      BY <2>1, <2>2, <2>3, <2>4, <2>5, <2>6
  <1>10. CASE DeferredClose
    BY <1>10 DEF DeferredClose, TypeOK, Counted, Begun, DoneFirst, LeavesLast,
         WhoCancels, Blame, ErrorBlamesCaller, fixed, pullVars, userVars
  <1>11. CASE Read
    BY <1>11 DEF Read, TypeOK, Counted, Begun, DoneFirst, LeavesLast,
         WhoCancels, Blame, ErrorBlamesCaller, fixed, pullVars
  <1>12. CASE Abandon
    BY <1>12 DEF Abandon, TypeOK, Counted, Begun, DoneFirst, LeavesLast,
         WhoCancels, Blame, ErrorBlamesCaller, fixed, pullVars, chanVars
  <1>13. CASE CallError
    BY <1>13 DEF CallError, TypeOK, Counted, Begun, DoneFirst, LeavesLast,
         WhoCancels, Blame, ErrorBlamesCaller, fixed, pullVars, chanVars
  <1>14. CASE ErrorReturns
    BY <1>14 DEF ErrorReturns, TypeOK, Counted, Begun, DoneFirst, LeavesLast,
         WhoCancels, Blame, ErrorBlamesCaller, fixed, pullVars, chanVars
  <1>15. ASSUME NEW t \in Stoppers, EnterStop(t) PROVE Inv'
    BY <1>15 DEF EnterStop, StopGoes, TypeOK, Counted, Begun, DoneFirst, LeavesLast,
         WhoCancels, Blame, ErrorBlamesCaller, fixed, pullVars, chanVars
  <1>16. ASSUME NEW t \in Stoppers, StopCloses(t) PROVE Inv'
    BY <1>16 DEF StopCloses, StopGoes, TypeOK, Counted, Begun, DoneFirst, LeavesLast,
         WhoCancels, Blame, ErrorBlamesCaller, fixed, pullVars, chanVars
  <1>17. ASSUME NEW t \in Stoppers, StopCancels(t) PROVE Inv'
    BY <1>17 DEF StopCancels, StopGoes, TypeOK, Counted, Begun, DoneFirst, LeavesLast,
         WhoCancels, Blame, ErrorBlamesCaller, fixed, pullVars, chanVars
  <1>18. ASSUME NEW t \in Stoppers, StopUpstream(t) PROVE Inv'
    BY <1>18 DEF StopUpstream, StopGoes, TypeOK, Counted, Begun, DoneFirst, LeavesLast,
         WhoCancels, Blame, ErrorBlamesCaller, fixed, pullVars, chanVars
  <1>19. CASE UNCHANGED vars
    BY <1>19 DEF vars, TypeOK, Counted, Begun, DoneFirst, LeavesLast,
         WhoCancels, Blame, ErrorBlamesCaller, pullVars, chanVars, userVars
  <1> QED
    BY <1>1, <1>2, <1>3, <1>4, <1>5, <1>6, <1>7, <1>8, <1>9, <1>10, <1>11, <1>12, <1>13,
       <1>14, <1>15, <1>16, <1>17, <1>18, <1>19
       DEF Next, Forward, StopStep, Terminated

\* The inductive invariant holds throughout.
THEOREM Invariance == Spec => []Inv
  BY InitInv, NextInv, PTL DEF Spec

\* wrapMessageBatch's goroutine never waits for room in the channel of a batch
\* with a message-count bound.
THEOREM NeverWaits == Spec => []NeverBlocks
  <1>1. Inv => NeverBlocks
    BY RequestType DEF Inv, TypeOK, Counted, NeverBlocks, BufSize
  <1> QED
    BY <1>1, Invariance, PTL

\* A channel that closes without Stop holds all that was delivered.
THEOREM AllForwarded == Spec => []NothingLost
  <1>1. Inv => NothingLost
    BY DEF Inv, Begun, LeavesLast, NothingLost
  <1> QED
    BY <1>1, Invariance, PTL

\* Error never reports the cancellation Stop makes.
THEOREM StopIsNoError == Spec => []ErrorBlamesCaller
  <1>1. Inv => ErrorBlamesCaller
    BY DEF Inv, Blame
  <1> QED
    BY <1>1, Invariance, PTL

\* No fetch context is left uncancelled.
THEOREM ContextFreed == Spec => []NoContextLeak
  <1>1. Inv => NoContextLeak
    BY DEF Inv, WhoCancels, NoContextLeak
  <1> QED
    BY <1>1, Invariance, PTL

\* A batch keeps what the package says of it, for every request, any number of
\* messages and any number of Stop calls.
THEOREM BatchTheorem == Spec => []BatchSound
  BY NeverWaits, AllForwarded, StopIsNoError, ContextFreed, PTL DEF BatchSound

-----------------------------------------------------------------------------
(***************************************************************************)
(* Conn.Request.                                                           *)
(***************************************************************************)

\* A caller that has a context of its own for the call, or had one.
Called == {"created", "waiting", "returned", "stopped"}

CallType ==
  /\ now \in Nat /\ budget \in Nat /\ deadline \in Nat /\ entered \in Nat
  /\ ctxErr \in {"none", "deadline", "canceled"} /\ reqErr \in {"none", "deadline", "canceled"}
  /\ pc \in Called \cup {"idle", "entered"}

\* The call's deadline is not after the caller's, and a context that ended with
\* a deadline ended after it.
Deadlines ==
  /\ deadline <= budget /\ entered <= now
  /\ ctxErr = "deadline" => now >= budget
  /\ pc \in Called /\ reqErr = "deadline" => now >= deadline

\* A call with time left was made before its deadline; only such a call sends.
TimeLeft ==
  /\ pc \in Called /\ ~noTimeLeft => entered < deadline
  /\ pc = "created" /\ reqErr = "none" => ~noTimeLeft
  /\ pc \in {"entered", "created"} => ~reqSent
  /\ pc \in {"waiting", "returned", "stopped"} /\ reqSent => ~noTimeLeft
  /\ pc = "waiting" => reqSent

\* What was returned, by what the context said.
Returned ==
  pc \in {"returned", "stopped"} =>
    /\ "timeout" \in reqReturn => ~noTimeLeft /\ reqErr = "deadline"
    /\ "deadline" \in reqReturn /\ ~noTimeLeft => "timeout" \in reqReturn

CallInv == CallType /\ Deadlines /\ TimeLeft /\ Returned

\* A caller starts with a budget and no call.
LEMMA CallInit == Call!Init => CallInv
<1> SUFFICES ASSUME Call!Init PROVE CallInv
  OBVIOUS
<1>1. CallType
  BY NatsAssumption DEF Call!Init, Call!None, CallType, Called
<1>2. Deadlines
  BY NatsAssumption DEF Call!Init, Call!None, Deadlines, Called
<1>3. TimeLeft /\ Returned
  BY DEF Call!Init, TimeLeft, Returned, Called
<1>. QED
  BY <1>1, <1>2, <1>3 DEF CallInv

\* Every step of a call, of the clock and of the timers preserves the invariant.
LEMMA CallNext == CallInv /\ [Call!Next]_Call!vars => CallInv'
<1> SUFFICES ASSUME CallInv, [Call!Next]_Call!vars PROVE CallInv'
  OBVIOUS
<1>. USE NatsAssumption
     DEF CallInv, CallType, Deadlines, TimeLeft, Returned, Called, Call!None
<1>1. CASE Call!Tick
  BY <1>1 DEF Call!Tick
<1>2. CASE Call!ReqTimer
  BY <1>2 DEF Call!ReqTimer
<1>3. CASE \E why \in {"deadline", "canceled"} : Call!CtxEnds(why)
  BY <1>3 DEF Call!CtxEnds
<1>4. CASE Call!WithDeadline
  <2>1. /\ reqErr' = ctxErr \/ reqErr' = "none" \/ (reqErr' = "deadline" /\ now >= deadline)
        /\ pc = "entered" /\ pc' = "created"
        /\ reqErr' = "none" => now < deadline
    BY <1>4 DEF Call!WithDeadline
  <2>0. noTimeLeft' <=> reqErr' # "none"
    BY ONLY <1>4, Zenon DEF Call!WithDeadline, Call!None
  <2>2. UNCHANGED <<now, budget, ctxErr, deadline, reqSent, entered, reqReturn>>
    BY <1>4 DEF Call!WithDeadline
  <2>3. CallType'
    BY <2>1, <2>2
  <2>4. Deadlines'
    BY <2>1, <2>2
  <2>5. TimeLeft' /\ Returned'
    BY ONLY CallInv, <2>0, <2>1, <2>2
    DEF CallInv, CallType, Deadlines, TimeLeft, Returned, Called
  <2>. QED
    BY <2>3, <2>4, <2>5
<1>5. CASE Call!Send
  <2>1. CASE reqErr # "none" /\ Call!Returns(reqErr) /\ UNCHANGED reqSent
    BY <1>5, <2>1 DEF Call!Send, Call!Returns
  <2>2. CASE reqErr = "none" /\ pc' = "waiting" /\ reqSent' = TRUE /\ UNCHANGED reqReturn
    <3>1. ~noTimeLeft
      BY <1>5, <2>2 DEF Call!Send
    <3>. QED
      BY <1>5, <2>2, <3>1 DEF Call!Send
  <2>. QED
    BY <1>5, <2>1, <2>2 DEF Call!Send
<1>6. CASE Call!WaitEnds
  BY <1>6 DEF Call!WaitEnds, Call!Returns
<1>7. CASE Call!Again
  BY <1>7 DEF Call!Again
<1>8. CASE \E t \in Timeouts : Call!Request(t)
  <2>1. PICK t \in Timeouts : Call!Request(t)
    BY <1>8
  <2>2. t \in Nat /\ Call!DeadlineOf(t) \in Nat /\ Call!DeadlineOf(t) <= budget
    BY DEF Call!DeadlineOf
  <2>. QED
    BY <2>1, <2>2 DEF Call!Request
<1>9. CASE UNCHANGED Call!vars
  BY <1>9 DEF Call!vars
<1>. QED
  BY <1>1, <1>2, <1>3, <1>4, <1>5, <1>6, <1>7, <1>8, <1>9 DEF Call!Next, Call!Step

\* Whatever the timeouts, the budget and the lag of the timers, nats.ErrTimeout is
\* returned by a call that had time when it began and ran out of it, and by
\* every call that sent its request and ran out of time.
THEOREM TimeoutTheorem == Call!Spec => []TimeoutHonest
<1>1. CallInv => TimeoutHonest
  BY DEF CallInv, CallType, Deadlines, TimeLeft, Returned, Called,
         TimeoutHonest, Call!TimeoutHonest
<1>. QED
  BY <1>1, CallInit, CallNext, PTL DEF Call!Spec

-----------------------------------------------------------------------------
(***************************************************************************)
(* Inject, Extract and restoreBaggage.                                     *)
(***************************************************************************)

Injection == [spelling : Msg!Spellings, bag : BOOLEAN]

MsgType ==
  /\ header \in [trace : [Msg!Spellings -> Nat], baggage : [Msg!Spellings -> Nat]]
  /\ injected \in Seq(Injection) /\ flipped \in BOOLEAN
  /\ settings \in [option : BOOLEAN, env : {"unset", "on", "off", "invalid"},
                   master : {"on", "off", "invalid"}, relay : {"none", "on", "off"}]
  /\ traced \in {"none", "direct", "spans"}

\* The injections in a spelling, and those with baggage among them.
InSpelling(s) == {i \in 1..Len(injected) : injected[i].spelling = s}
BagInSpelling(s) == {i \in 1..Len(injected) : injected[i].spelling = s /\ injected[i].bag}

\* Under each spelling the headers hold the last injection that wrote it.
LastWritten ==
  \A s \in Msg!Spellings :
    /\ Msg!IsNewest(header.trace[s], InSpelling(s))
    /\ Msg!IsNewest(header.baggage[s], BagInSpelling(s))

\* Upstream's decision is that of the switch until the switch moves, and the
\* handler's baggage is what was due, or none when the switch was off.
Decided ==
  /\ traced # "none" /\ ~flipped => (traced = "spans" <=> Msg!TracingEnabled)
  /\ handler.ran =>
       /\ handler.baggage = 0 \/ Msg!IsNewest(handler.baggage, handler.due)
       /\ handler.steady /\ handler.span => Msg!IsNewest(handler.baggage, handler.due)
       /\ handler.steady /\ ~handler.span => handler.baggage = 0

MsgInv == MsgType /\ LastWritten /\ Decided

\* What Get finds of two values, each the last that wrote it among the members of
\* S of its spelling, is the last of those it can see.
LEMMA GetFinds ==
  ASSUME NEW values \in [Msg!Spellings -> Nat], NEW S, S \subseteq DOMAIN injected,
         0 \notin S, \A i \in S : injected[i].spelling \in Msg!Spellings,
         \A s \in Msg!Spellings : Msg!IsNewest(values[s], {i \in S : injected[i].spelling = s})
  PROVE  Msg!IsNewest(Msg!Get(values), Msg!Visible(S))
<1>. DEFINE V == {i \in S : injected[i].spelling = "verbatim"}
            C == {i \in S : injected[i].spelling = "canonical"}
<1>1. "verbatim" \in Msg!Spellings /\ "canonical" \in Msg!Spellings
  BY DEF Msg!Spellings
<1>2. Msg!IsNewest(values["verbatim"], V) /\ Msg!IsNewest(values["canonical"], C)
  BY <1>1
<1>3. V = {} => S = C
  BY DEF Msg!Spellings
<1>4. CASE V = {}
  <2>1. values["verbatim"] = 0 /\ Msg!Get(values) = values["canonical"]
    BY <1>2, <1>4 DEF Msg!IsNewest, Msg!Get
  <2>2. Msg!Visible(S) = C
    BY <1>3, <1>4 DEF Msg!Visible
  <2>. QED
    BY <1>2, <2>1, <2>2
<1>5. CASE V # {}
  <2>1. values["verbatim"] \in V
    BY <1>2, <1>5 DEF Msg!IsNewest
  <2>2. values["verbatim"] # 0
    BY <2>1
  <2>3. Msg!Get(values) = values["verbatim"]
    BY <2>2 DEF Msg!Get
  <2>4. Msg!Visible(S) = V
    BY <1>5 DEF Msg!Visible
  <2>. QED
    BY <1>2, <2>3, <2>4
<1>. QED
  BY <1>4, <1>5

\* Extract finds the last visible injection, and the last with baggage.
LEMMA ExtractFinds ==
  ASSUME MsgInv
  PROVE  /\ Msg!IsNewest(Msg!Extract.trace, Msg!Visible(DOMAIN injected))
         /\ Msg!IsNewest(Msg!Extract.baggage, Msg!Visible(Msg!WithBaggage))
<1>1. /\ DOMAIN injected = 1..Len(injected)
      /\ \A i \in DOMAIN injected : injected[i].spelling \in Msg!Spellings
  <2>1. injected \in Seq(Injection)
    BY DEF MsgInv, MsgType
  <2>2. DOMAIN injected = 1..Len(injected) /\ \A i \in 1..Len(injected) : injected[i] \in Injection
    BY <2>1
  <2>. QED
    BY <2>2 DEF Injection
<1>2. header.trace \in [Msg!Spellings -> Nat] /\ header.baggage \in [Msg!Spellings -> Nat]
  BY DEF MsgInv, MsgType
<1>3. PICK T, B : T = DOMAIN injected /\ B = Msg!WithBaggage
  OBVIOUS
<1>4. T \subseteq DOMAIN injected /\ B \subseteq DOMAIN injected /\ 0 \notin T /\ 0 \notin B
  BY <1>1, <1>3 DEF Msg!WithBaggage
<1>5. ASSUME NEW s \in Msg!Spellings
      PROVE  /\ Msg!IsNewest(header.trace[s], {i \in T : injected[i].spelling = s})
             /\ Msg!IsNewest(header.baggage[s], {i \in B : injected[i].spelling = s})
  <2>1. /\ {i \in T : injected[i].spelling = s} = InSpelling(s)
        /\ {i \in B : injected[i].spelling = s} = BagInSpelling(s)
    BY <1>1, <1>3 DEF InSpelling, BagInSpelling, Msg!WithBaggage
  <2>. QED
    BY <2>1, Zenon DEF MsgInv, LastWritten
<1>6. Msg!IsNewest(Msg!Get(header.trace), Msg!Visible(T))
  BY <1>1, <1>2, <1>4, <1>5, GetFinds
<1>7. Msg!IsNewest(Msg!Get(header.baggage), Msg!Visible(B))
  BY <1>1, <1>2, <1>4, <1>5, GetFinds
<1>8. Msg!Extract.trace = Msg!Get(header.trace) /\ Msg!Extract.baggage = Msg!Get(header.baggage)
  BY DEF Msg!Extract
<1>. QED
  BY <1>3, <1>6, <1>7, <1>8

\* A connection starts with a message that carries nothing.
LEMMA MsgInit == Msg!Init => MsgInv
<1> SUFFICES ASSUME Msg!Init PROVE MsgInv
  OBVIOUS
<1>1. header \in [trace : [Msg!Spellings -> Nat], baggage : [Msg!Spellings -> Nat]]
  BY DEF Msg!Init, Msg!NoHeader
<1>2. MsgType
  <2>1. injected \in Seq(Injection)
    BY DEF Msg!Init
  <2>. QED
    BY <1>1, <2>1 DEF Msg!Init, MsgType
<1>3. LastWritten
  <2>1. \A s \in Msg!Spellings : header.trace[s] = 0 /\ header.baggage[s] = 0
    BY DEF Msg!Init, Msg!NoHeader
  <2>2. \A s \in Msg!Spellings : InSpelling(s) = {} /\ BagInSpelling(s) = {}
    BY DEF Msg!Init, InSpelling, BagInSpelling
  <2>. QED
    BY <2>1, <2>2 DEF LastWritten, Msg!IsNewest
<1>4. Decided
  BY DEF Msg!Init, Decided
<1>. QED
  BY <1>2, <1>3, <1>4 DEF MsgInv

\* Injections, deliveries and moves of the switch preserve the invariant.
LEMMA MsgNext == MsgInv /\ [Msg!Next]_Msg!vars => MsgInv'
<1> SUFFICES ASSUME MsgInv, [Msg!Next]_Msg!vars PROVE MsgInv'
  OBVIOUS
<1>0. ASSUME UNCHANGED <<header, injected>> PROVE LastWritten'
  <2>1. \A s : InSpelling(s)' = InSpelling(s) /\ BagInSpelling(s)' = BagInSpelling(s)
    BY <1>0 DEF InSpelling, BagInSpelling
  <2>. QED
    BY <1>0, <2>1, Zenon DEF MsgInv, LastWritten, Msg!IsNewest
<1>1. CASE \E live, tp, prop \in BOOLEAN : Msg!Connect(live, tp, prop)
  <2>1. UNCHANGED <<settings, header, injected, traced, flipped, handler>>
    BY <1>1 DEF Msg!Connect, Msg!message
  <2>2. MsgType' /\ Decided'
    BY <2>1 DEF MsgInv, MsgType, Decided, Msg!TracingEnabled, Msg!IsNewest
  <2>. QED
    BY <1>0, <2>1, <2>2 DEF MsgInv
<1>2. CASE Msg!Flip
  <2>1. UNCHANGED <<header, injected>>
    BY <1>2 DEF Msg!Flip, Msg!message
  <2>2. MsgType'
    BY <1>2, <2>1 DEF Msg!Flip, MsgInv, MsgType
  <2>3. Decided'
    BY <1>2 DEF Msg!Flip, MsgInv, MsgType, Decided, Msg!IsNewest
  <2>. QED
    BY <1>0, <2>1, <2>2, <2>3 DEF MsgInv
<1>3. CASE Msg!Dispatch
  <2>1. UNCHANGED <<header, injected, settings, handler>>
    BY <1>3 DEF Msg!Dispatch, Msg!message
  <2>2. traced' = (IF Msg!TracingEnabled THEN "spans" ELSE "direct") /\ flipped' = FALSE
    BY <1>3 DEF Msg!Dispatch
  <2>3. MsgType'
    BY <2>1, <2>2 DEF MsgInv, MsgType
  <2>4. (traced = "spans" <=> Msg!TracingEnabled)'
    BY <2>1, <2>2, ZenonT(60) DEF Msg!TracingEnabled
  <2>5. Decided'
    BY <2>1, <2>4, Zenon DEF MsgInv, Decided, Msg!IsNewest
  <2>. QED
    BY <1>0, <2>1, <2>3, <2>5 DEF MsgInv
<1>4. CASE Msg!Handle
  <2>1. UNCHANGED <<header, injected>>
    BY <1>4 DEF Msg!Handle, Msg!message
  <2>2. MsgType'
    BY <1>4, <2>1 DEF Msg!Handle, MsgInv, MsgType
  <2>3. PICK d, bag : d = Msg!Visible(Msg!WithBaggage) /\ bag = Msg!RestoreBaggage
    OBVIOUS
  <2>4. bag = 0 \/ Msg!IsNewest(bag, d)
    BY <2>3, ExtractFinds DEF Msg!RestoreBaggage
  <2>5. /\ handler'.span = (traced = "spans") /\ handler'.baggage = bag
        /\ handler'.steady = ~flipped /\ handler'.due = d /\ traced' = "none"
    BY <1>4, <2>3 DEF Msg!Handle
  <2>6. ASSUME ~flipped, traced = "spans" PROVE Msg!IsNewest(bag, d)
    <3>1. Msg!TracingEnabled
      BY <1>4, <2>6 DEF MsgInv, Decided
    <3>2. CASE header # Msg!NoHeader
      BY <2>3, <3>1, <3>2, ExtractFinds DEF Msg!RestoreBaggage
    <3>3. CASE header = Msg!NoHeader
      <4>1. bag = 0
        BY <2>3, <3>3 DEF Msg!RestoreBaggage
      <4>2. Msg!Extract.baggage = 0
        BY <3>3 DEF Msg!Extract, Msg!Get, Msg!NoHeader, Msg!Spellings
      <4>. QED
        BY <2>3, <4>1, <4>2, ExtractFinds
    <3>. QED
      BY <3>2, <3>3
  <2>7. ASSUME ~flipped, traced # "spans" PROVE bag = 0
    <3>1. ~Msg!TracingEnabled
      BY <1>4, <2>7 DEF MsgInv, Decided, Msg!Handle
    <3>. QED
      BY <2>3, <3>1 DEF Msg!RestoreBaggage
  <2>8. Decided'
    <3>1. /\ (handler.baggage = 0 \/ Msg!IsNewest(handler.baggage, handler.due))'
          /\ (handler.steady /\ handler.span => Msg!IsNewest(handler.baggage, handler.due))'
          /\ (handler.steady /\ ~handler.span => handler.baggage = 0)'
      BY <2>4, <2>5, <2>6, <2>7, Zenon DEF Msg!IsNewest
    <3>. QED
      BY <2>5, <3>1 DEF Decided
  <2>. QED
    BY <1>0, <2>1, <2>2, <2>8 DEF MsgInv
<1>5. ASSUME NEW s \in Msg!Spellings, NEW bag \in BOOLEAN, Msg!Inject(s, bag)
      PROVE  MsgInv'
  <2>1. PICK n \in Nat, new \in Injection :
          /\ n = Len(injected) + 1 /\ new = [spelling |-> s, bag |-> bag]
          /\ injected' = Append(injected, new)
          /\ header' = [trace   |-> [header.trace EXCEPT ![s] = n],
                        baggage |-> IF bag THEN [header.baggage EXCEPT ![s] = n] ELSE header.baggage]
    <3>1. Len(injected) + 1 \in Nat
      BY DEF MsgInv, MsgType
    <3>2. [spelling |-> s, bag |-> bag] \in Injection
      BY DEF Injection
    <3>. QED
      BY <1>5, <3>1, <3>2, Zenon DEF Msg!Inject
  <2>2. /\ Len(injected') = n /\ injected'[n] = new /\ Len(injected) \in Nat
        /\ \A i \in 1..Len(injected) : injected'[i] = injected[i]
        /\ 1..n = 1..Len(injected) \cup {n}
    BY <2>1 DEF MsgInv, MsgType
  <2>3. /\ header.trace \in [Msg!Spellings -> Nat] /\ header.baggage \in [Msg!Spellings -> Nat]
        /\ injected \in Seq(Injection)
    BY DEF MsgInv, MsgType
  <2>4. MsgType'
    BY <1>5, <2>1, <2>3 DEF Msg!Inject, MsgInv, MsgType
  <2>5. ASSUME NEW x \in Msg!Spellings
        PROVE  /\ InSpelling(x)' = IF x = s THEN InSpelling(x) \cup {n} ELSE InSpelling(x)
               /\ BagInSpelling(x)' = IF x = s /\ bag THEN BagInSpelling(x) \cup {n} ELSE BagInSpelling(x)
    <3>1. new.spelling = s /\ new.bag = bag
      BY <2>1
    <3>2. InSpelling(x)' = {i \in 1..n : injected'[i].spelling = x}
      BY <2>2 DEF InSpelling
    <3>3. BagInSpelling(x)' = {i \in 1..n : injected'[i].spelling = x /\ injected'[i].bag}
      BY <2>2 DEF BagInSpelling
    <3>4. InSpelling(x)' = IF x = s THEN InSpelling(x) \cup {n} ELSE InSpelling(x)
      BY <2>2, <3>1, <3>2 DEF InSpelling
    <3>5. BagInSpelling(x)' = IF x = s /\ bag THEN BagInSpelling(x) \cup {n} ELSE BagInSpelling(x)
      BY <2>2, <3>1, <3>3 DEF BagInSpelling
    <3>. QED
      BY <3>4, <3>5
  <2>6. \A x \in Msg!Spellings :
          /\ header'.trace[x] = IF x = s THEN n ELSE header.trace[x]
          /\ header'.baggage[x] = IF x = s /\ bag THEN n ELSE header.baggage[x]
    BY <2>1, <2>3
  <2>7. \A x : \A i \in InSpelling(x) \cup BagInSpelling(x) : i <= n
    BY <2>1, <2>2 DEF InSpelling, BagInSpelling
  <2>8. \A x \in Msg!Spellings :
          Msg!IsNewest(header.trace[x], InSpelling(x)) /\ Msg!IsNewest(header.baggage[x], BagInSpelling(x))
    BY DEF MsgInv, LastWritten
  <2>9. LastWritten'
    <3>1. ASSUME NEW x \in Msg!Spellings
          PROVE  Msg!IsNewest(header'.trace[x], InSpelling(x)')
      <4>1. CASE x = s
        <5>1. InSpelling(x)' = InSpelling(x) \cup {n} /\ header'.trace[x] = n
          BY <2>5, <2>6, <4>1
        <5>. QED
          BY <2>7, <5>1 DEF Msg!IsNewest
      <4>2. CASE x # s
        BY <2>5, <2>6, <2>8, <4>2
      <4>. QED
        BY <4>1, <4>2
    <3>2. ASSUME NEW x \in Msg!Spellings
          PROVE  Msg!IsNewest(header'.baggage[x], BagInSpelling(x)')
      <4>1. CASE x = s /\ bag
        <5>1. BagInSpelling(x)' = BagInSpelling(x) \cup {n} /\ header'.baggage[x] = n
          BY <2>5, <2>6, <4>1
        <5>. QED
          BY <2>7, <5>1 DEF Msg!IsNewest
      <4>2. CASE ~(x = s /\ bag)
        BY <2>5, <2>6, <2>8, <4>2
      <4>. QED
        BY <4>1, <4>2
    <3>. QED
      BY <3>1, <3>2, Zenon DEF LastWritten, Msg!IsNewest
  <2>10. Decided'
    BY <1>5 DEF Msg!Inject, MsgInv, MsgType, Decided, Msg!TracingEnabled, Msg!IsNewest
  <2>. QED
    BY <2>4, <2>9, <2>10 DEF MsgInv
<1>6. CASE UNCHANGED Msg!vars
  <2>1. UNCHANGED <<settings, header, injected, traced, flipped, handler>>
    BY <1>6 DEF Msg!vars
  <2>2. MsgType' /\ Decided'
    BY <2>1 DEF MsgInv, MsgType, Decided, Msg!TracingEnabled, Msg!IsNewest
  <2>. QED
    BY <1>0, <2>1, <2>2 DEF MsgInv
<1>. QED
  BY <1>1, <1>2, <1>3, <1>4, <1>5, <1>6 DEF Msg!Next

\* Whoever sent the message on, in either spelling and in any order, Extract finds
\* the last injection of this package, or of the older SDKs that alone wrote it,
\* and so for baggage; a handler gets that baggage exactly when it gets a span,
\* unless the switch moved during the delivery.
THEOREM ContextTheorem == Msg!Spec => []ContextArrives
<1>1. MsgInv => ContextArrives
  <2> SUFFICES ASSUME MsgInv PROVE ContextArrives
    OBVIOUS
  <2>. QED
    BY ExtractFinds DEF MsgInv, Decided, ContextArrives, Msg!ContextArrives
<1>. QED
  BY <1>1, MsgInit, MsgNext, PTL DEF Msg!Spec
=============================================================================
