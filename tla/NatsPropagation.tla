--------------------------- MODULE NatsPropagation ---------------------------
(***************************************************************************)
(* A connection and a message on it (nats/conn.go, nats/middleware.go):    *)
(* Connect, the tracing switch of otel-nats, the headers Inject writes and *)
(* Extract reads, and the context a handler gets.  A message is sent on,   *)
(* by this package or by an older SDK; a trace or a baggage in its headers *)
(* is the number of the injection that wrote it, 0 for none.               *)
(***************************************************************************)
EXTENDS Naturals, Sequences

CONSTANTS MaxHops    \* times a message is sent on, a bound of the model

\* A header key as written: by this package and otel-nats, or by an SDK of
\* before, whose carrier wrote it in MIME form.
Spellings == {"verbatim", "canonical"}

VARIABLES
  conn,       \* "none" or "open"
  settings,   \* [option, env, master, relay]: what the switch is made of
  header,     \* [trace, baggage], each [Spellings -> number]
  injected,   \* history: the injections, [spelling, bag], bag being that the context had baggage
  traced,     \* upstream's own decision for the delivery under way: "none", "direct" or "spans"
  flipped,    \* the switch moved since that decision
  handler     \* its last handler: [ran, span, baggage] and, history, [steady, due]

vars == <<conn, settings, header, injected, traced, flipped, handler>>
message == <<header, injected>>

NoHeader == [trace |-> [s \in Spellings |-> 0], baggage |-> [s \in Spellings |-> 0]]

Init ==
  /\ conn = "none"
  /\ settings \in [option : BOOLEAN, env : {"unset", "on", "off", "invalid"},
                   master : {"on", "off", "invalid"}, relay : {"none", "on", "off"}]
  /\ header = NoHeader /\ injected = <<>>
  /\ traced = "none" /\ flipped = FALSE
  /\ handler = [ran |-> FALSE, span |-> FALSE, baggage |-> 0, steady |-> TRUE, due |-> {}]

\* The effective switch (external): relay, environment, option, and the
\* master over them all.
TracingEnabled ==
  /\ settings.master = "on"
  /\ CASE settings.relay # "none" -> settings.relay = "on"
       [] settings.relay = "none" /\ settings.env # "unset" -> settings.env = "on"
       [] OTHER -> settings.option

\* connect: a live context, both providers, and an upstream that accepts the
\* variables, which are strict.
Connect(live, tp, prop) ==
  /\ conn = "none" /\ live /\ tp /\ prop
  /\ "invalid" \notin {settings.env, settings.master}
  /\ conn' = "open"
  /\ UNCHANGED <<settings, message, traced, flipped, handler>>

\* The relay changes its mind.
Flip ==
  /\ settings.relay # "none"
  /\ settings' = [settings EXCEPT !.relay = IF @ = "on" THEN "off" ELSE "on"]
  /\ flipped' = (traced # "none")
  /\ UNCHANGED <<conn, message, traced, handler>>

-----------------------------------------------------------------------------
(* headerCarrier, Inject, Extract *)

\* Faulty variant: the MIME form is looked up first.
GetCanonicalFirst(values) ==
  IF values["canonical"] # 0 THEN values["canonical"] ELSE values["verbatim"]

\* Get and Values: the key as it is, then its MIME form.
Get(values) == IF values["verbatim"] # 0 THEN values["verbatim"] ELSE values["canonical"]

\* Inject, by this package or by one that spells the keys the other way, in any
\* order.  A propagator writes no baggage when there is none.
Inject(spelling, bag) ==
  LET n == Len(injected) + 1
  IN  /\ n <= MaxHops /\ traced = "none"
      /\ injected' = Append(injected, [spelling |-> spelling, bag |-> bag])
      /\ header' = [trace   |-> [header.trace EXCEPT ![spelling] = n],
                    baggage |-> IF bag THEN [header.baggage EXCEPT ![spelling] = n]
                                ELSE header.baggage]
      /\ UNCHANGED <<conn, settings, traced, flipped, handler>>

Extract == [trace |-> Get(header.trace), baggage |-> Get(header.baggage)]

\* The injections among S a reader can see: those of the key as it is, or, when
\* there are none, those of its MIME form.
Visible(S) ==
  LET verbatim == {i \in S : injected[i].spelling = "verbatim"}
  IN  IF verbatim # {} THEN verbatim ELSE S

WithBaggage == {i \in DOMAIN injected : injected[i].bag}

-----------------------------------------------------------------------------
(* Delivery to a Subscribe or QueueSubscribe handler *)

\* otel-nats picks its traced or its direct path (external).
Dispatch ==
  /\ conn = "open" /\ traced = "none"
  /\ traced' = (IF TracingEnabled THEN "spans" ELSE "direct") /\ flipped' = FALSE
  /\ UNCHANGED <<conn, settings, message, handler>>

\* Faulty variants: baggage is restored whatever the switch says, or never.
RestoreBaggageAlways == Extract.baggage
RestoreBaggageNever == 0

\* restoreBaggage: no headers, no tracing or no baggage, no change.
RestoreBaggage == IF header # NoHeader /\ TracingEnabled THEN Extract.baggage ELSE 0

\* The callback of the subscription: the handler's context and the handler.
Handle ==
  /\ traced # "none"
  /\ handler' = [ran |-> TRUE, span |-> traced = "spans", baggage |-> RestoreBaggage,
                 steady |-> ~flipped, due |-> Visible(WithBaggage)]
  /\ traced' = "none" /\ flipped' = FALSE
  /\ UNCHANGED <<conn, settings, message>>

Next ==
  \/ \E live, tp, prop \in BOOLEAN : Connect(live, tp, prop)
  \/ Flip \/ Dispatch \/ Handle
  \/ \E s \in Spellings, bag \in BOOLEAN : Inject(s, bag)

Spec == Init /\ [][Next]_vars

-----------------------------------------------------------------------------

\* i is the last of the injections S, 0 when there are none.
IsNewest(i, S) == IF S = {} THEN i = 0 ELSE i \in S /\ \A j \in S : j <= i

(***************************************************************************)
(* Extract finds the last injection of this package or, on a message only  *)
(* older SDKs wrote, their last; a message somebody injected into is never *)
(* read as having none, whichever spellings its headers hold.  So it is    *)
(* for baggage among the injections that had any.  A handler gets exactly  *)
(* that baggage on a message upstream traced, and none on another; when    *)
(* the switch moves between the two evaluations it gets that or none.      *)
(***************************************************************************)
ContextArrives ==
  /\ IsNewest(Extract.trace, Visible(DOMAIN injected))
  /\ IsNewest(Extract.baggage, Visible(WithBaggage))
  /\ handler.ran =>
       /\ handler.baggage = 0 \/ IsNewest(handler.baggage, handler.due)
       /\ handler.steady /\ handler.span => IsNewest(handler.baggage, handler.due)
       /\ handler.steady /\ ~handler.span => handler.baggage = 0
=============================================================================
