---------------------------- MODULE MongoMonitor -----------------------------
(***************************************************************************)
(* The command monitors of a MongoDB client (mongo/client.go, connid.go):  *)
(* the application's own and the SDK's are composed on ClientOptions, a    *)
(* client is built from them, and the driver reports commands on many      *)
(* connections, several in flight at once.                                 *)
(*                                                                         *)
(* External: the driver, which numbers requests over the whole process and *)
(* connections in their identifiers; otelmongo, which finds the span of a  *)
(* finished command under its connection and request.                      *)
(***************************************************************************)
EXTENDS Naturals, Sequences, SequencesExt, FiniteSets

CONSTANTS MaxInstruments, MaxRequests

\* Connections and their identifiers, as words: two at one server, one at an IPv6
\* address, and two without the driver's counter, the address itself and one
\* with something else in brackets.
ConnectionID ==
  <<<<"host", "[", "-", "1", "]">>, <<"host", "[", "2", "]">>, <<"[", "v6", "]", "[", "-", "1", "]">>,
    <<"[", "v6", "]">>, <<"path", "[", "-", "x", "]">>>>
ServerOf == <<<<"host">>, <<"host">>, <<"[", "v6", "]">>, <<"[", "v6", "]">>, <<"path", "[", "-", "x", "]">>>>
Conns == DOMAIN ConnectionID

App == 0   \* the application's monitor; the SDK's have the number of their Instrument call

VARIABLES
  pc,         \* "options", "connected" or "failed"
  monitor,    \* opts.Monitor: what it is composed of, in order
  trackers,   \* the Instrument calls whose pool metrics are on
  instruments,
  commands,   \* the requests so far: their connections and whether they ended
  spans,      \* per SDK monitor, otelmongo's map: connection and request to the span
  ended,      \* per SDK monitor, the spans that ended and the peer each names
  appSaw      \* the identifiers the application's monitor was given

vars == <<pc, monitor, trackers, instruments, commands, spans, ended, appSaw>>

Init ==
  /\ pc = "options" /\ monitor \in {<<>>, <<App>>} /\ trackers = {} /\ instruments = 0
  /\ commands = <<>> /\ appSaw = <<>>
  /\ spans = [k \in 1..MaxInstruments |-> {}] /\ ended = [k \in 1..MaxInstruments |-> {}]

-----------------------------------------------------------------------------

\* A run of digits, after the sign the driver writes.
IsConnectionCounter(s) ==
  LET digits == IF s # <<>> /\ Head(s) = "-" THEN Tail(s) ELSE s
  IN  digits # <<>> /\ Range(digits) \subseteq {"1", "2"}

\* normalizeConnectionID
NormalizeConnectionID(id) ==
  LET open == SelectLastInSeq(id, LAMBDA w : w = "[")
  IN  IF Last(id) = "]" /\ open > 1 /\ IsConnectionCounter(SubSeq(id, open + 1, Len(id) - 1))
      THEN SubSeq(id, 1, open - 1) ELSE id

\* Faulty variant: only the event that starts a command is rewritten.
FinishedEventRaw(c) == ConnectionID[c]

\* withNormalizedConnectionIDs: a copy of the event for the SDK's monitor.
StartedEvent(c) == NormalizeConnectionID(ConnectionID[c])
FinishedEvent(c) == NormalizeConnectionID(ConnectionID[c])

\* composeCommandMonitors and composePoolMonitors: whoever was there goes first.
Compose(first, second) == first \o second

-----------------------------------------------------------------------------

\* Instrument: the pool monitor may fail, and then the options are untouched.
Instrument ==
  /\ pc = "options" /\ instruments < MaxInstruments
  /\ instruments' = instruments + 1
  /\ \/ monitor' = Compose(monitor, <<instruments'>>) /\ trackers' = trackers \cup {instruments'}
     \/ UNCHANGED <<monitor, trackers>>
  /\ UNCHANGED <<pc, commands, spans, ended, appSaw>>

\* opts.SetMonitor by the application, which drops what was composed.
SetMonitor ==
  /\ pc = "options"
  /\ monitor' = <<App>>
  /\ UNCHANGED <<pc, trackers, instruments, commands, spans, ended, appSaw>>

\* drivermongo.Connect on instrumented options, by the application.
DriverConnect ==
  /\ pc = "options" /\ instruments > 0
  /\ pc' = "connected"
  /\ UNCHANGED <<monitor, trackers, instruments, commands, spans, ended, appSaw>>

\* Connect: fresh options, Instrument, the driver's Connect.  What fails is undone;
\* a context that is done or an empty URI comes to nothing.
Connect ==
  /\ pc = "options" /\ instruments = 0 /\ monitor = <<>>
  /\ \/ pc' = "connected" /\ instruments' = 1 /\ monitor' = <<1>> /\ trackers' = {1}
     \/ pc' = "failed" /\ UNCHANGED <<instruments, monitor, trackers>>
     \/ pc' = "failed" /\ instruments' = 1 /\ monitor' = <<1>> /\ trackers' = {}
  /\ UNCHANGED <<commands, spans, ended, appSaw>>

\* The cleanup Instrument returned; command spans go on.
Cleanup(k) ==
  /\ k \in trackers
  /\ trackers' = trackers \ {k}
  /\ UNCHANGED <<pc, monitor, instruments, commands, spans, ended, appSaw>>

Sdk == Range(monitor) \ {App}

\* The driver starts a command; the composed monitor calls each part.
Started(c) ==
  /\ pc = "connected" /\ Len(commands) < MaxRequests
  /\ commands' = Append(commands, [conn |-> c, over |-> FALSE])
  /\ spans' = [k \in DOMAIN spans |->
                 IF k \in Sdk THEN spans[k] \cup {[id |-> StartedEvent(c), request |-> Len(commands')]}
                 ELSE spans[k]]
  /\ appSaw' = IF App \in Range(monitor) THEN Append(appSaw, ConnectionID[c]) ELSE appSaw
  /\ UNCHANGED <<pc, monitor, trackers, instruments, ended>>

\* The command succeeds or fails.
Finished(r) ==
  LET c     == commands[r].conn
      found == [k \in DOMAIN spans |->
                  IF k \in Sdk THEN {s \in spans[k] : s.id = FinishedEvent(c) /\ s.request = r} ELSE {}]
  IN  /\ ~commands[r].over
      /\ commands' = [commands EXCEPT ![r].over = TRUE]
      /\ spans' = [k \in DOMAIN spans |-> spans[k] \ found[k]]
      /\ ended' = [k \in DOMAIN ended |-> ended[k] \cup {[request |-> s.request, peer |-> s.id] : s \in found[k]}]
      /\ appSaw' = IF App \in Range(monitor) THEN Append(appSaw, ConnectionID[c]) ELSE appSaw
      /\ UNCHANGED <<pc, monitor, trackers, instruments>>

Next ==
  \/ Instrument \/ SetMonitor \/ DriverConnect \/ Connect
  \/ \E k \in trackers : Cleanup(k)
  \/ \E c \in Conns : Started(c)
  \/ \E r \in DOMAIN commands : Finished(r)

Spec == Init /\ [][Next]_vars

-----------------------------------------------------------------------------

(***************************************************************************)
(* However commands overlap on connections that now share a name, each     *)
(* has one open span with each monitor of the SDK while it runs and one    *)
(* ended span after it, whose peer is the server and never the connection, *)
(* so that there are no more peers than servers; the application's monitor *)
(* sees the driver's own identifiers; and a Connect that failed leaves no  *)
(* pool metrics on.                                                        *)
(***************************************************************************)
CommandsCorrelate ==
  /\ \A k \in Sdk :
       /\ {s.request : s \in spans[k]} = {r \in DOMAIN commands : ~commands[r].over}
       /\ Cardinality(spans[k]) + Cardinality(ended[k]) = Len(commands)
       /\ ended[k] = {[request |-> r, peer |-> ServerOf[commands[r].conn]] :
                        r \in {x \in DOMAIN commands : commands[x].over}}
  /\ Range(appSaw) \subseteq Range(ConnectionID)
  /\ App \in Range(monitor) =>
       Len(appSaw) = Len(commands) + Cardinality({r \in DOMAIN commands : commands[r].over})
  /\ pc = "failed" => trackers = {}
=============================================================================
