---------------------------- MODULE ConfigProofs -----------------------------
(***************************************************************************)
(* Proofs about what Init makes of its configuration, for options in any   *)
(* number and order, every environment, keys and labels of any length and  *)
(* any measurements.  Loops over keys, characters and options are          *)
(* recursive functions of a position; what holds all along them is shown   *)
(* with a least counterexample (LeastNumber, UpTo).                        *)
(***************************************************************************)
EXTENDS MCConfig, NaturalsInduction, WellFoundedInduction, FunctionTheorems, FiniteSetTheorems, SequenceTheorems, TLAPS

-----------------------------------------------------------------------------
(***************************************************************************)
(* The environment.  What Init checks is what its readers will read: the   *)
(* checks pass exactly if no reader would echo a variable.                 *)
(***************************************************************************)

EnvTyped == cfg \in E!Configs /\ env \in [E!Variables -> E!Values]

\* A check of one variable, and of two that shadow each other.
LEMMA FailsOne ==
  ASSUME NEW a PROVE E!Fails(<<a>>) <=> E!IsSet(a) /\ E!RefusesAlternative(a)
  BY DEF E!Fails

LEMMA FailsTwo ==
  ASSUME NEW a, NEW b
  PROVE  E!Fails(<<a, b>>) <=> \/ E!IsSet(a) /\ E!RefusesAlternative(a)
                               \/ ~E!IsSet(a) /\ E!IsSet(b) /\ E!RefusesAlternative(b)
<1>1. DOMAIN <<a, b>> = {1, 2} /\ <<a, b>>[1] = a /\ <<a, b>>[2] = b /\ 1..(1 - 1) = {} /\ 1..(2 - 1) = {1}
  OBVIOUS
<1>. QED
  BY <1>1 DEF E!Fails

\* A variable's value, verbatim or trimmed.
LEMMA ValueOf ==
  ASSUME NEW v
  PROVE  /\ E!EnvValue(v, TRUE) = env[v] /\ E!EnvValue(v, FALSE) = E!Trimmed(v)
         /\ E!Trimmed(v) = [text |-> env[v].text, padded |-> FALSE]
         /\ E!Trimmed(v) = E!Unset <=> env[v].text = ""
         /\ ~E!Refuses(v[2], E!Unset)
<1>1. [text |-> env[v].text, padded |-> FALSE] = [text |-> "", padded |-> FALSE] <=> env[v].text = ""
  OBVIOUS
<1>2. ~E!Refuses(v[2], E!Unset)
  BY DEF E!Refuses, E!Unset, E!Value
<1>. QED
  BY <1>1, <1>2 DEF E!EnvValue, E!Trimmed, E!Unset, E!Value

\* A variable by itself, and a client certificate with its key.
LEMMA SingleAlternative ==
  ASSUME NEW v, v[2] # "CLIENT_CERTIFICATE", NEW verbatim
  PROVE  LET a == E!Alternative(v, verbatim) IN
           /\ E!IsSet(a) <=> E!EnvValue(v, verbatim) # E!Unset
           /\ E!RefusesAlternative(a) <=> E!Refuses(v[2], E!EnvValue(v, verbatim))
  BY DEF E!Alternative, E!IsSet, E!RefusesAlternative

LEMMA PairAlternative ==
  ASSUME NEW p, NEW verbatim
  PROVE  LET a == E!Alternative(<<p, "CLIENT_CERTIFICATE">>, verbatim)
             x == E!EnvValue(<<p, "CLIENT_CERTIFICATE">>, verbatim)
             y == E!EnvValue(<<p, "CLIENT_KEY">>, verbatim)
         IN  /\ E!IsSet(a) <=> x # E!Unset /\ y # E!Unset
             /\ E!RefusesAlternative(a) <=> E!Refuses("CLIENT_CERTIFICATE", x) \/ E!Refuses("CLIENT_KEY", y)
  BY DEF E!Alternative, E!IsSet, E!RefusesAlternative
FirstSettings == {"ENDPOINT", "TIMEOUT", "HEADERS", "CERTIFICATE", "CLIENT_CERTIFICATE"}
LogSettings == {"TIMEOUT", "COMPRESSION", "CERTIFICATE", "CLIENT_CERTIFICATE"}

\* The exporters that read the environment first: each setting of the signal's
\* and of the generic variables is checked.
LEMMA FirstMade ==
  ASSUME NEW g, NEW x PROVE
    x \in E!EnvFirst(g) <=> \E v \in {"", g} \X FirstSettings : x = <<E!Alternative(v, FALSE)>>
  BY DEF E!EnvFirst, FirstSettings

\* Which checks are made.
LEMMA OtlpMade ==
  ASSUME NEW x PROVE
    x \in E!OtlpExporterEnvChecks <=>
      \/ cfg.trace /\ x \in E!EnvFirst("TRACES")
      \/ E!Push(cfg) /\ x \in E!EnvFirst("METRICS")
      \/ E!Push(cfg) /\ x = <<E!Alternative(<<"SDK", "TEMPORALITY">>, FALSE)>>
      \/ cfg.log /\ \E s \in LogSettings : x = E!SignalFirst(s)
      \/ cfg.log /\ cfg.otlpHeaders = "none" /\ x = E!SignalFirst("HEADERS")
  BY ZenonT(60) DEF E!OtlpExporterEnvChecks, LogSettings

LEMMA SdkMade ==
  ASSUME NEW x PROVE
    x \in E!SdkEnvChecks <=>
      \/ cfg.trace /\ x = <<E!Alternative(<<"SDK", "BSP">>, TRUE)>>
      \/ cfg.trace /\ x = <<E!Alternative(<<"SDK", "SPAN_LIMIT">>, TRUE), E!Alternative(<<"SDK", "ATTRIBUTE_LIMIT">>, TRUE)>>
      \/ cfg.trace /\ x = <<E!Alternative(<<"SDK", "SAMPLER">>, FALSE)>>
      \/ cfg.trace /\ env[<<"SDK", "SAMPLER">>].text = "ratio" /\ x = <<E!Alternative(<<"SDK", "SAMPLER_ARG">>, FALSE)>>
      \/ cfg.log /\ x = <<E!Alternative(<<"SDK", "BLRP">>, TRUE)>>
      \/ cfg.metrics /\ x = <<E!Alternative(<<"SDK", "CARDINALITY">>, FALSE)>>
      \/ E!Push(cfg) /\ x = <<E!Alternative(<<"SDK", "INTERVAL">>, TRUE)>>
<1>1. E!EnvValue(<<"SDK", "SAMPLER">>, FALSE).text = env[<<"SDK", "SAMPLER">>].text
  BY DEF E!EnvValue, E!Value
<1>. QED
  BY <1>1 DEF E!SdkEnvChecks

\* The pairs of a product.
LEMMA Product == ASSUME NEW A, NEW B, NEW v PROVE v \in A \X B <=> \E p \in A : \E s \in B : v = <<p, s>>
<1>1. ASSUME v \in A \X B PROVE \E p \in A : \E s \in B : v = <<p, s>>
  <2>1. v[1] \in A /\ v[2] \in B /\ v = <<v[1], v[2]>>
    BY <1>1
  <2>. QED
    BY <2>1, Zenon
<1>2. ASSUME NEW p \in A, NEW s \in B, v = <<p, s>> PROVE v \in A \X B
  BY <1>2
<1>. QED
  BY <1>1, <1>2

\* What the trace and the metric exporter would echo is what these checks refuse.
LEMMA ExporterEchoes ==
  ASSUME NEW g
  PROVE  (\E x \in E!EnvFirst(g) : E!Fails(x)) <=> (\E v \in E!ReadByExporter(g) : E!Refuses(v[2], E!Trimmed(v)))
<1>. DEFINE Set(v) == E!Trimmed(v) # E!Unset
           Refused(v) == E!Refuses(v[2], E!Trimmed(v))
           Singles == {"ENDPOINT", "TIMEOUT", "HEADERS", "CERTIFICATE"}
           Cert(p) == <<p, "CLIENT_CERTIFICATE">>
           Key(p) == <<p, "CLIENT_KEY">>
<1>1. \A v : /\ E!EnvValue(v, FALSE) = E!Trimmed(v) /\ (Set(v) <=> env[v].text # "")
             /\ Refused(v) => Set(v)
  BY ValueOf
<1>2. (\E x \in E!EnvFirst(g) : E!Fails(x)) <=>
        \E v \in {"", g} \X FirstSettings : LET a == E!Alternative(v, FALSE) IN E!IsSet(a) /\ E!RefusesAlternative(a)
  <2>1. \A x : x \in E!EnvFirst(g) <=> \E v \in {"", g} \X FirstSettings : x = <<E!Alternative(v, FALSE)>>
    BY FirstMade
  <2>2. \A a : E!Fails(<<a>>) <=> E!IsSet(a) /\ E!RefusesAlternative(a)
    BY FailsOne
  <2>3. ASSUME NEW x \in E!EnvFirst(g), E!Fails(x)
        PROVE  \E v \in {"", g} \X FirstSettings : LET a == E!Alternative(v, FALSE) IN E!IsSet(a) /\ E!RefusesAlternative(a)
    <3>1. PICK v \in {"", g} \X FirstSettings : x = <<E!Alternative(v, FALSE)>>
      BY <2>1
    <3>2. E!IsSet(E!Alternative(v, FALSE)) /\ E!RefusesAlternative(E!Alternative(v, FALSE))
      BY <2>2, <2>3, <3>1
    <3>. QED
      BY <3>2
  <2>4. ASSUME NEW v \in {"", g} \X FirstSettings, E!IsSet(E!Alternative(v, FALSE)), E!RefusesAlternative(E!Alternative(v, FALSE))
        PROVE  \E x \in E!EnvFirst(g) : E!Fails(x)
    <3>1. <<E!Alternative(v, FALSE)>> \in E!EnvFirst(g)
      BY <2>1, Zenon
    <3>. QED
      BY <2>2, <2>4, <3>1
  <2>. QED
    BY <2>3, <2>4
<1>3. ASSUME NEW p \in {"", g}, NEW s \in Singles
      PROVE  LET a == E!Alternative(<<p, s>>, FALSE) IN E!IsSet(a) /\ E!RefusesAlternative(a) <=> Refused(<<p, s>>)
  <2>1. <<p, s>>[2] = s /\ s # "CLIENT_CERTIFICATE"
    OBVIOUS
  <2>. QED
    BY <1>1, <2>1, SingleAlternative
<1>4. ASSUME NEW p \in {"", g}
      PROVE  LET a == E!Alternative(Cert(p), FALSE) IN
               E!IsSet(a) /\ E!RefusesAlternative(a) <=> Set(Cert(p)) /\ Set(Key(p)) /\ (Refused(Cert(p)) \/ Refused(Key(p)))
  <2>1. Cert(p)[2] = "CLIENT_CERTIFICATE" /\ Key(p)[2] = "CLIENT_KEY"
    OBVIOUS
  <2>. QED
    BY <1>1, <2>1, PairAlternative
<1>5. (\E x \in E!EnvFirst(g) : E!Fails(x)) <=>
        \E p \in {"", g} : \/ \E s \in Singles : Refused(<<p, s>>)
                           \/ Set(Cert(p)) /\ Set(Key(p)) /\ (Refused(Cert(p)) \/ Refused(Key(p)))
  <2>1. PICK G : G = {"", g}
    OBVIOUS
  <2>2. \A v : v \in G \X FirstSettings <=> \E p \in G : \E s \in FirstSettings : v = <<p, s>>
    BY Product
  <2>3. FirstSettings = Singles \cup {"CLIENT_CERTIFICATE"}
    BY DEF FirstSettings
  <2>. HIDE DEF Singles, Set, Refused
  <2>. QED
    BY <1>2, <1>3, <1>4, <2>1, <2>2, <2>3, ZenonT(60)
<1>6. ASSUME NEW v
      PROVE  v \in E!ReadByExporter(g) <=>
               \E p \in {"", g} : \/ \E s \in Singles : v = <<p, s>>
                                  \/ v \in {Cert(p), Key(p)} /\ Set(Cert(p)) /\ Set(Key(p))
  <2>1. E!OTLPSettings \ {"COMPRESSION", "PROTOCOL"} = Singles \cup {"CLIENT_CERTIFICATE", "CLIENT_KEY"}
    BY DEF E!OTLPSettings
  <2>2. v \in E!ReadByExporter(g) <=>
          /\ v \in {"", g} \X (E!OTLPSettings \ {"COMPRESSION", "PROTOCOL"})
          /\ v \in {Cert(v[1]), Key(v[1])} => \A w \in {Cert(v[1]), Key(v[1])} : env[w].text # ""
    BY DEF E!ReadByExporter, E!ClientPair
  <2>0. PICK G, S : G = {"", g} /\ S = Singles \cup {"CLIENT_CERTIFICATE", "CLIENT_KEY"}
    OBVIOUS
  <2>3. v \in G \X S <=> \E p \in G : \E s \in S : v = <<p, s>>
    BY Product
  <2>4. \A p, s : /\ <<p, s>>[1] = p /\ <<p, s>>[2] = s
                  /\ <<p, s>> = Cert(p) <=> s = "CLIENT_CERTIFICATE"
                  /\ <<p, s>> = Key(p) <=> s = "CLIENT_KEY"
    OBVIOUS
  <2>5. \A p : /\ Cert(p)[1] = p /\ Key(p)[1] = p
    OBVIOUS
  <2>6. "CLIENT_CERTIFICATE" \notin Singles /\ "CLIENT_KEY" \notin Singles
    OBVIOUS
  <2>. HIDE DEF Singles, Set
  <2>7. ASSUME v \in E!ReadByExporter(g)
        PROVE  \E p \in {"", g} : \/ \E s \in Singles : v = <<p, s>>
                                  \/ v \in {Cert(p), Key(p)} /\ Set(Cert(p)) /\ Set(Key(p))
    <3>1. PICK p \in G : \E s \in S : v = <<p, s>>
      BY <2>0, <2>1, <2>2, <2>3, <2>7
    <3>2. PICK s \in S : v = <<p, s>>
      BY <3>1
    <3>. HIDE DEF Cert, Key
    <3>3. p \in {"", g} /\ (s \in Singles \/ v \in {Cert(p), Key(p)})
      BY <2>0, <2>4, <3>2
    <3>4. v \in {Cert(p), Key(p)} => Set(Cert(p)) /\ Set(Key(p))
      BY <1>1, <2>2, <2>4, <2>7, <3>2
    <3>5. \/ \E x \in Singles : v = <<p, x>>
          \/ v \in {Cert(p), Key(p)} /\ Set(Cert(p)) /\ Set(Key(p))
      BY <3>2, <3>3, <3>4
    <3>6. p \in {"", g}
      BY <3>3
    <3>. QED
      BY <3>5, <3>6, Zenon DEF Cert, Key, Set
  <2>8. ASSUME NEW p \in {"", g}, NEW s \in Singles, v = <<p, s>> PROVE v \in E!ReadByExporter(g)
    BY <2>0, <2>1, <2>2, <2>3, <2>4, <2>6, <2>8
  <2>9. ASSUME NEW p \in {"", g}, v \in {Cert(p), Key(p)}, Set(Cert(p)), Set(Key(p)) PROVE v \in E!ReadByExporter(g)
    <3>0. p \in G /\ "CLIENT_CERTIFICATE" \in S /\ "CLIENT_KEY" \in S
      BY <2>0
    <3>1. v \in G \X S
      BY <2>3, <2>9, <3>0
    <3>2. v[1] = p
      BY <2>5, <2>9
    <3>. HIDE DEF Cert, Key
    <3>3. \A w \in {Cert(v[1]), Key(v[1])} : env[w].text # ""
      BY <1>1, <2>9, <3>2
    <3>. QED
      BY <2>0, <2>1, <2>2, <3>1, <3>3
  <2>. QED
    BY <2>7, <2>8, <2>9
<1>. HIDE DEF Singles, Set, Refused, Cert, Key
<1>. QED
  BY <1>5, <1>6 DEF Refused

\* A variable as the log exporter reads it, and its client certificate with the key.
LogSet(v) == env[v] # E!Unset
LogBad(v) == E!Refuses(v[2], env[v])
CertOf(p) == <<p, "CLIENT_CERTIFICATE">>
KeyOf(p) == <<p, "CLIENT_KEY">>
PairSet(p) == LogSet(CertOf(p)) /\ LogSet(KeyOf(p))
PairBad(p) == LogBad(CertOf(p)) \/ LogBad(KeyOf(p))
LogSingles == {"TIMEOUT", "COMPRESSION", "CERTIFICATE"} \cup (IF cfg.otlpHeaders = "none" THEN {"HEADERS"} ELSE {})

\* What the log exporter reads.
LEMMA LogsRead ==
  ASSUME NEW p \in {"LOGS", ""}
  PROVE  /\ \A s \in LogSingles :
              <<p, s>> \in E!ReadByLogs <=>
                /\ LogSet(<<p, s>>)
                /\ p = "" => ~(LogSet(<<"LOGS", s>>) /\ ~LogBad(<<"LOGS", s>>))
         /\ \A v \in {CertOf(p), KeyOf(p)} :
              v \in E!ReadByLogs <=> PairSet(p) /\ (p = "" => ~(PairSet("LOGS") /\ ~PairBad("LOGS")))
<1>. DEFINE settings == {"TIMEOUT", "COMPRESSION", "CERTIFICATE", "CLIENT_CERTIFICATE", "CLIENT_KEY"}
                          \cup (IF cfg.otlpHeaders = "none" THEN {"HEADERS"} ELSE {})
           pair(q) == E!ClientPair(q)
           group(v) == E!Together(v)
           there(g) == \A w \in g : env[w] # E!Unset
           parses(g) == \A w \in g : ~E!Refuses(w[2], env[w])
           Read(v) == /\ there(group(v))
                      /\ v[1] = "" => ~(there(group(<<"LOGS", v[2]>>)) /\ parses(group(<<"LOGS", v[2]>>)))
<1>1. \A v : v \in E!ReadByLogs <=> v \in {"LOGS", ""} \X settings /\ Read(v)
  BY DEF E!ReadByLogs
<1>2. \A q, s : <<q, s>>[1] = q /\ <<q, s>>[2] = s
  OBVIOUS
<1>3. \A q : \A s \in LogSingles : group(<<q, s>>) = {<<q, s>>}
  BY DEF LogSingles, E!Together, E!ClientPair
<1>4. \A q : group(<<q, "CLIENT_CERTIFICATE">>) = pair(q) /\ group(<<q, "CLIENT_KEY">>) = pair(q)
  BY <1>2 DEF E!Together, E!ClientPair
<1>5. ASSUME NEW s \in LogSingles
      PROVE  <<p, s>> \in E!ReadByLogs <=>
                /\ LogSet(<<p, s>>)
                /\ p = "" => ~(LogSet(<<"LOGS", s>>) /\ ~LogBad(<<"LOGS", s>>))
  <2>1. <<p, s>> \in {"LOGS", ""} \X settings
    BY DEF LogSingles
  <2>2. there({<<p, s>>}) <=> LogSet(<<p, s>>)
    BY DEF LogSet
  <2>3. there({<<"LOGS", s>>}) /\ parses({<<"LOGS", s>>}) <=> LogSet(<<"LOGS", s>>) /\ ~LogBad(<<"LOGS", s>>)
    BY DEF LogSet, LogBad
  <2>4. Read(<<p, s>>) <=> /\ there({<<p, s>>})
                           /\ p = "" => ~(there({<<"LOGS", s>>}) /\ parses({<<"LOGS", s>>}))
    <3>. HIDE DEF group, there, parses
    <3>. QED
      BY <1>2, <1>3
  <2>. HIDE DEF settings, Read, there, parses
  <2>. QED
    BY <1>1, <2>1, <2>2, <2>3, <2>4
<1>6. ASSUME NEW s \in {"CLIENT_CERTIFICATE", "CLIENT_KEY"}
      PROVE  <<p, s>> \in E!ReadByLogs <=> PairSet(p) /\ (p = "" => ~(PairSet("LOGS") /\ ~PairBad("LOGS")))
  <2>1. <<p, s>> \in {"LOGS", ""} \X settings
    OBVIOUS
  <2>2. \A q : /\ there(pair(q)) <=> PairSet(q)
               /\ parses(pair(q)) <=> ~PairBad(q)
    BY <1>2 DEF PairSet, PairBad, LogSet, LogBad, CertOf, KeyOf, E!ClientPair
  <2>3. group(<<p, s>>) = pair(p) /\ group(<<"LOGS", s>>) = pair("LOGS")
    BY <1>4
  <2>4. Read(<<p, s>>) <=> there(pair(p)) /\ (p = "" => ~(there(pair("LOGS")) /\ parses(pair("LOGS"))))
    <3>. HIDE DEF group, there, parses, pair
    <3>. QED
      BY <1>2, <2>3
  <2>. HIDE DEF settings, Read, there, parses, pair
  <2>. QED
    BY <1>1, <2>1, <2>2, <2>4
<1>. QED
  BY <1>5, <1>6 DEF CertOf, KeyOf

\* What the log exporter would echo is what its checks refuse.
LEMMA LogsEchoes ==
  (\/ \E s \in LogSettings : E!Fails(E!SignalFirst(s))
   \/ cfg.otlpHeaders = "none" /\ E!Fails(E!SignalFirst("HEADERS")))
  <=> \E v \in E!ReadByLogs : LogBad(v)
<1>1. \A v : LogBad(v) => LogSet(v)
  BY ValueOf DEF LogBad, LogSet
<1>2. ASSUME NEW s \in LogSingles
      PROVE  E!Fails(E!SignalFirst(s)) <=> \E p \in {"LOGS", ""} : <<p, s>> \in E!ReadByLogs /\ LogBad(<<p, s>>)
  <2>1. s # "CLIENT_CERTIFICATE" /\ \A p : <<p, s>>[2] = s
    BY DEF LogSingles
  <2>2. \A p : LET a == E!Alternative(<<p, s>>, TRUE) IN
          /\ E!IsSet(a) <=> LogSet(<<p, s>>)
          /\ E!RefusesAlternative(a) <=> LogBad(<<p, s>>)
    BY <2>1, SingleAlternative DEF LogSet, LogBad, E!EnvValue
  <2>3. E!Fails(E!SignalFirst(s)) <=>
          \/ LogSet(<<"LOGS", s>>) /\ LogBad(<<"LOGS", s>>)
          \/ ~LogSet(<<"LOGS", s>>) /\ LogSet(<<"", s>>) /\ LogBad(<<"", s>>)
    BY <2>2, FailsTwo DEF E!SignalFirst
  <2>. QED
    BY <1>1, <2>3, LogsRead
<1>3. E!Fails(E!SignalFirst("CLIENT_CERTIFICATE")) <=>
        \E p \in {"LOGS", ""} : \E v \in {CertOf(p), KeyOf(p)} : v \in E!ReadByLogs /\ LogBad(v)
  <2>1. \A p : CertOf(p)[2] = "CLIENT_CERTIFICATE" /\ KeyOf(p)[2] = "CLIENT_KEY"
    BY DEF CertOf, KeyOf
  <2>2. \A p : LET a == E!Alternative(CertOf(p), TRUE) IN
          /\ E!IsSet(a) <=> PairSet(p)
          /\ E!RefusesAlternative(a) <=> PairBad(p)
    BY <2>1, PairAlternative DEF LogSet, LogBad, E!EnvValue, PairSet, PairBad, CertOf, KeyOf
  <2>3. E!Fails(E!SignalFirst("CLIENT_CERTIFICATE")) <=>
          \/ PairSet("LOGS") /\ PairBad("LOGS")
          \/ ~PairSet("LOGS") /\ PairSet("") /\ PairBad("")
    BY <2>2, FailsTwo DEF E!SignalFirst, CertOf
  <2>4. \A p \in {"LOGS", ""} : \A v \in {CertOf(p), KeyOf(p)} :
          v \in E!ReadByLogs <=> PairSet(p) /\ (p = "" => ~(PairSet("LOGS") /\ ~PairBad("LOGS")))
    BY LogsRead
  <2>. QED
    BY <2>3, <2>4 DEF PairBad
<1>4. ASSUME NEW v \in E!ReadByLogs
      PROVE  \E p \in {"LOGS", ""} : v \in {CertOf(p), KeyOf(p)} \/ \E s \in LogSingles : v = <<p, s>>
  <2>1. PICK G, S : /\ G = {"LOGS", ""} /\ v \in G \X S
                    /\ S = LogSingles \cup {"CLIENT_CERTIFICATE", "CLIENT_KEY"}
    <3>1. LogSingles \cup {"CLIENT_CERTIFICATE", "CLIENT_KEY"} =
            {"TIMEOUT", "COMPRESSION", "CERTIFICATE", "CLIENT_CERTIFICATE", "CLIENT_KEY"}
              \cup (IF cfg.otlpHeaders = "none" THEN {"HEADERS"} ELSE {})
      BY DEF LogSingles
    <3>2. v \in {"LOGS", ""} \X (LogSingles \cup {"CLIENT_CERTIFICATE", "CLIENT_KEY"})
      BY <3>1 DEF E!ReadByLogs
    <3>. QED
      BY <3>2
  <2>2. PICK p \in G : \E s \in S : v = <<p, s>>
    <3>1. v \in G \X S => \E p \in G : \E s \in S : v = <<p, s>>
      BY ONLY Product
    <3>. QED
      BY <2>1, <3>1
  <2>. QED
    BY <2>1, <2>2 DEF CertOf, KeyOf
<1>5. (\/ \E s \in LogSettings : E!Fails(E!SignalFirst(s))
       \/ cfg.otlpHeaders = "none" /\ E!Fails(E!SignalFirst("HEADERS")))
      <=> \/ E!Fails(E!SignalFirst("CLIENT_CERTIFICATE"))
          \/ \E s \in LogSingles : E!Fails(E!SignalFirst(s))
  BY DEF LogSettings, LogSingles
<1>. QED
  BY <1>2, <1>3, <1>4, <1>5

\* The settings of the SDK itself, as their readers see them.
RawBad(s) == E!Refuses(s, env[<<"SDK", s>>])
TrimBad(s) == E!Refuses(s, E!Trimmed(<<"SDK", s>>))
LimitUnset == env[<<"SDK", "SPAN_LIMIT">>] = E!Unset
SdkBad(s) ==
  \/ s \in {"BSP", "SPAN_LIMIT"} /\ cfg.trace /\ RawBad(s)
  \/ s = "ATTRIBUTE_LIMIT" /\ cfg.trace /\ LimitUnset /\ RawBad(s)
  \/ s = "BLRP" /\ cfg.log /\ RawBad(s)
  \/ s = "INTERVAL" /\ E!Push(cfg) /\ RawBad(s)
  \/ s = "TEMPORALITY" /\ E!Push(cfg) /\ TrimBad(s)
  \/ s = "CARDINALITY" /\ cfg.metrics /\ TrimBad(s)
  \/ s = "SAMPLER" /\ cfg.trace /\ TrimBad(s)
  \/ s = "SAMPLER_ARG" /\ cfg.trace /\ env[<<"SDK", "SAMPLER">>].text = "ratio" /\ TrimBad(s)

LEMMA SdkFails ==
  (\/ \E x \in E!SdkEnvChecks : E!Fails(x)
   \/ E!Push(cfg) /\ E!Fails(<<E!Alternative(<<"SDK", "TEMPORALITY">>, FALSE)>>))
  <=> \E s \in E!SDKSettings : SdkBad(s)
<1>. DEFINE Sdk(s) == <<"SDK", s>>
<1>1. \A s : Sdk(s)[2] = s
  OBVIOUS
<1>2. \A s \in E!SDKSettings : s # "CLIENT_CERTIFICATE"
  BY DEF E!SDKSettings
<1>3. \A s \in E!SDKSettings : LET a == E!Alternative(Sdk(s), TRUE) IN
        /\ E!IsSet(a) <=> env[Sdk(s)] # E!Unset
        /\ E!RefusesAlternative(a) <=> RawBad(s)
        /\ RawBad(s) => env[Sdk(s)] # E!Unset
  <2>1. SUFFICES ASSUME NEW s \in E!SDKSettings PROVE LET a == E!Alternative(Sdk(s), TRUE) IN
          /\ E!IsSet(a) <=> env[Sdk(s)] # E!Unset
          /\ E!RefusesAlternative(a) <=> RawBad(s)
          /\ RawBad(s) => env[Sdk(s)] # E!Unset
    OBVIOUS
  <2>2. PICK v : v = Sdk(s) /\ v[2] = s /\ v[2] # "CLIENT_CERTIFICATE"
    BY <1>1, <1>2
  <2>3. LET a == E!Alternative(v, TRUE) IN
          /\ E!IsSet(a) <=> E!EnvValue(v, TRUE) # E!Unset
          /\ E!RefusesAlternative(a) <=> E!Refuses(v[2], E!EnvValue(v, TRUE))
    BY <2>2, SingleAlternative
  <2>4. E!EnvValue(v, TRUE) = env[v] /\ ~E!Refuses(v[2], E!Unset)
    BY ValueOf
  <2>. HIDE DEF Sdk
  <2>. QED
    BY <2>2, <2>3, <2>4 DEF RawBad, Sdk
<1>4. \A s \in E!SDKSettings : LET a == E!Alternative(Sdk(s), FALSE) IN
        E!IsSet(a) /\ E!RefusesAlternative(a) <=> TrimBad(s)
  <2>1. SUFFICES ASSUME NEW s \in E!SDKSettings PROVE LET a == E!Alternative(Sdk(s), FALSE) IN
          E!IsSet(a) /\ E!RefusesAlternative(a) <=> TrimBad(s)
    OBVIOUS
  <2>2. PICK v : v = Sdk(s) /\ v[2] = s /\ v[2] # "CLIENT_CERTIFICATE"
    BY <1>1, <1>2
  <2>3. LET a == E!Alternative(v, FALSE) IN
          /\ E!IsSet(a) <=> E!EnvValue(v, FALSE) # E!Unset
          /\ E!RefusesAlternative(a) <=> E!Refuses(v[2], E!EnvValue(v, FALSE))
    BY <2>2, SingleAlternative
  <2>4. E!EnvValue(v, FALSE) = E!Trimmed(v) /\ ~E!Refuses(v[2], E!Unset)
    BY ValueOf
  <2>. HIDE DEF Sdk
  <2>. QED
    BY <2>2, <2>3, <2>4 DEF TrimBad, Sdk
<1>5. \A s \in E!SDKSettings : /\ E!Fails(<<E!Alternative(Sdk(s), TRUE)>>) <=> RawBad(s)
                               /\ E!Fails(<<E!Alternative(Sdk(s), FALSE)>>) <=> TrimBad(s)
  BY <1>3, <1>4, FailsOne
<1>6. E!Fails(<<E!Alternative(Sdk("SPAN_LIMIT"), TRUE), E!Alternative(Sdk("ATTRIBUTE_LIMIT"), TRUE)>>) <=>
        RawBad("SPAN_LIMIT") \/ (LimitUnset /\ RawBad("ATTRIBUTE_LIMIT"))
  <2>1. "SPAN_LIMIT" \in E!SDKSettings /\ "ATTRIBUTE_LIMIT" \in E!SDKSettings
    BY DEF E!SDKSettings
  <2>2. PICK a, b : a = E!Alternative(Sdk("SPAN_LIMIT"), TRUE) /\ b = E!Alternative(Sdk("ATTRIBUTE_LIMIT"), TRUE)
    OBVIOUS
  <2>3. /\ E!IsSet(a) <=> env[Sdk("SPAN_LIMIT")] # E!Unset
        /\ E!RefusesAlternative(a) <=> RawBad("SPAN_LIMIT")
        /\ RawBad("SPAN_LIMIT") => env[Sdk("SPAN_LIMIT")] # E!Unset
        /\ E!IsSet(b) <=> env[Sdk("ATTRIBUTE_LIMIT")] # E!Unset
        /\ E!RefusesAlternative(b) <=> RawBad("ATTRIBUTE_LIMIT")
        /\ RawBad("ATTRIBUTE_LIMIT") => env[Sdk("ATTRIBUTE_LIMIT")] # E!Unset
    <3>. HIDE DEF Sdk
    <3>. QED
      BY <1>3, <2>1, <2>2
  <2>4. E!Fails(<<a, b>>) <=> \/ E!IsSet(a) /\ E!RefusesAlternative(a)
                              \/ ~E!IsSet(a) /\ E!IsSet(b) /\ E!RefusesAlternative(b)
    BY ONLY FailsTwo, Zenon
  <2>5. E!Fails(<<a, b>>) <=> RawBad("SPAN_LIMIT") \/ (LimitUnset /\ RawBad("ATTRIBUTE_LIMIT"))
    BY <2>3, <2>4 DEF LimitUnset
  <2>. QED
    BY <2>2, <2>5
<1>7. (\E x \in E!SdkEnvChecks : E!Fails(x)) <=>
        \/ cfg.trace /\ E!Fails(<<E!Alternative(Sdk("BSP"), TRUE)>>)
        \/ cfg.trace /\ E!Fails(<<E!Alternative(Sdk("SPAN_LIMIT"), TRUE), E!Alternative(Sdk("ATTRIBUTE_LIMIT"), TRUE)>>)
        \/ cfg.trace /\ E!Fails(<<E!Alternative(Sdk("SAMPLER"), FALSE)>>)
        \/ cfg.trace /\ env[Sdk("SAMPLER")].text = "ratio" /\ E!Fails(<<E!Alternative(Sdk("SAMPLER_ARG"), FALSE)>>)
        \/ cfg.log /\ E!Fails(<<E!Alternative(Sdk("BLRP"), TRUE)>>)
        \/ cfg.metrics /\ E!Fails(<<E!Alternative(Sdk("CARDINALITY"), FALSE)>>)
        \/ E!Push(cfg) /\ E!Fails(<<E!Alternative(Sdk("INTERVAL"), TRUE)>>)
  <2>. HIDE DEF Sdk
  <2>1. ASSUME NEW x \in E!SdkEnvChecks
        PROVE  \/ cfg.trace /\ x = <<E!Alternative(Sdk("BSP"), TRUE)>>
               \/ cfg.trace /\ x = <<E!Alternative(Sdk("SPAN_LIMIT"), TRUE), E!Alternative(Sdk("ATTRIBUTE_LIMIT"), TRUE)>>
               \/ cfg.trace /\ x = <<E!Alternative(Sdk("SAMPLER"), FALSE)>>
               \/ cfg.trace /\ env[Sdk("SAMPLER")].text = "ratio" /\ x = <<E!Alternative(Sdk("SAMPLER_ARG"), FALSE)>>
               \/ cfg.log /\ x = <<E!Alternative(Sdk("BLRP"), TRUE)>>
               \/ cfg.metrics /\ x = <<E!Alternative(Sdk("CARDINALITY"), FALSE)>>
               \/ E!Push(cfg) /\ x = <<E!Alternative(Sdk("INTERVAL"), TRUE)>>
    BY SdkMade DEF Sdk
  <2>2. /\ cfg.trace => <<E!Alternative(Sdk("BSP"), TRUE)>> \in E!SdkEnvChecks
        /\ cfg.trace => <<E!Alternative(Sdk("SPAN_LIMIT"), TRUE), E!Alternative(Sdk("ATTRIBUTE_LIMIT"), TRUE)>> \in E!SdkEnvChecks
        /\ cfg.trace => <<E!Alternative(Sdk("SAMPLER"), FALSE)>> \in E!SdkEnvChecks
        /\ cfg.trace /\ env[Sdk("SAMPLER")].text = "ratio" => <<E!Alternative(Sdk("SAMPLER_ARG"), FALSE)>> \in E!SdkEnvChecks
        /\ cfg.log => <<E!Alternative(Sdk("BLRP"), TRUE)>> \in E!SdkEnvChecks
        /\ cfg.metrics => <<E!Alternative(Sdk("CARDINALITY"), FALSE)>> \in E!SdkEnvChecks
        /\ E!Push(cfg) => <<E!Alternative(Sdk("INTERVAL"), TRUE)>> \in E!SdkEnvChecks
    BY SdkMade DEF Sdk
  <2>. QED
    BY <2>1, <2>2
<1>8. (\E s \in E!SDKSettings : SdkBad(s)) <=>
        \/ SdkBad("BSP") \/ SdkBad("SPAN_LIMIT") \/ SdkBad("ATTRIBUTE_LIMIT") \/ SdkBad("BLRP") \/ SdkBad("INTERVAL")
        \/ SdkBad("TEMPORALITY") \/ SdkBad("CARDINALITY") \/ SdkBad("SAMPLER") \/ SdkBad("SAMPLER_ARG")
  BY DEF E!SDKSettings
<1>9. {"BSP", "SAMPLER", "SAMPLER_ARG", "BLRP", "CARDINALITY", "INTERVAL", "TEMPORALITY"} \subseteq E!SDKSettings
  BY DEF E!SDKSettings
<1>10. /\ SdkBad("BSP") <=> cfg.trace /\ RawBad("BSP")
       /\ SdkBad("SPAN_LIMIT") <=> cfg.trace /\ RawBad("SPAN_LIMIT")
       /\ SdkBad("ATTRIBUTE_LIMIT") <=> cfg.trace /\ LimitUnset /\ RawBad("ATTRIBUTE_LIMIT")
       /\ SdkBad("BLRP") <=> cfg.log /\ RawBad("BLRP")
       /\ SdkBad("INTERVAL") <=> E!Push(cfg) /\ RawBad("INTERVAL")
       /\ SdkBad("TEMPORALITY") <=> E!Push(cfg) /\ TrimBad("TEMPORALITY")
       /\ SdkBad("CARDINALITY") <=> cfg.metrics /\ TrimBad("CARDINALITY")
       /\ SdkBad("SAMPLER") <=> cfg.trace /\ TrimBad("SAMPLER")
       /\ SdkBad("SAMPLER_ARG") <=> cfg.trace /\ env[Sdk("SAMPLER")].text = "ratio" /\ TrimBad("SAMPLER_ARG")
  BY DEF SdkBad
<1>. HIDE DEF Sdk
<1>11. /\ E!Fails(<<E!Alternative(Sdk("BSP"), TRUE)>>) <=> RawBad("BSP")
       /\ E!Fails(<<E!Alternative(Sdk("BLRP"), TRUE)>>) <=> RawBad("BLRP")
       /\ E!Fails(<<E!Alternative(Sdk("INTERVAL"), TRUE)>>) <=> RawBad("INTERVAL")
       /\ E!Fails(<<E!Alternative(Sdk("SAMPLER"), FALSE)>>) <=> TrimBad("SAMPLER")
       /\ E!Fails(<<E!Alternative(Sdk("SAMPLER_ARG"), FALSE)>>) <=> TrimBad("SAMPLER_ARG")
       /\ E!Fails(<<E!Alternative(Sdk("CARDINALITY"), FALSE)>>) <=> TrimBad("CARDINALITY")
       /\ E!Fails(<<E!Alternative(Sdk("TEMPORALITY"), FALSE)>>) <=> TrimBad("TEMPORALITY")
  BY <1>5, <1>9
<1>12. Sdk("TEMPORALITY") = <<"SDK", "TEMPORALITY">>
  BY DEF Sdk
<1>13. (\E x \in E!SdkEnvChecks : E!Fails(x)) <=>
         \/ cfg.trace /\ RawBad("BSP")
         \/ cfg.trace /\ (RawBad("SPAN_LIMIT") \/ (LimitUnset /\ RawBad("ATTRIBUTE_LIMIT")))
         \/ cfg.trace /\ TrimBad("SAMPLER")
         \/ cfg.trace /\ env[Sdk("SAMPLER")].text = "ratio" /\ TrimBad("SAMPLER_ARG")
         \/ cfg.log /\ RawBad("BLRP")
         \/ cfg.metrics /\ TrimBad("CARDINALITY")
         \/ E!Push(cfg) /\ RawBad("INTERVAL")
  BY <1>6, <1>7, <1>11
<1>14. E!Fails(<<E!Alternative(<<"SDK", "TEMPORALITY">>, FALSE)>>) <=> TrimBad("TEMPORALITY")
  BY <1>11, <1>12
<1>. QED
  BY <1>8, <1>10, <1>13, <1>14

LEMMA EchoedBy ==
  E!Echoed # {} <=>
    \/ cfg.trace /\ \E v \in E!ReadByExporter("TRACES") : E!Refuses(v[2], E!Trimmed(v))
    \/ E!Push(cfg) /\ \E v \in E!ReadByExporter("METRICS") : E!Refuses(v[2], E!Trimmed(v))
    \/ cfg.log /\ \E v \in E!ReadByLogs : LogBad(v)
    \/ \E s \in E!SDKSettings : SdkBad(s)
<1>. DEFINE Sdk(v) ==
       LET raw(s, on)  == v[2] = s /\ on /\ env[v] # E!Unset /\ E!Refuses(s, env[v])
           trim(s, on) == v[2] = s /\ on /\ E!Refuses(s, E!Trimmed(v))
       IN  \/ raw("BSP", cfg.trace) \/ raw("SPAN_LIMIT", cfg.trace) \/ raw("BLRP", cfg.log)
           \/ raw("ATTRIBUTE_LIMIT", cfg.trace /\ env[<<"SDK", "SPAN_LIMIT">>] = E!Unset)
           \/ raw("INTERVAL", E!Push(cfg)) \/ trim("TEMPORALITY", E!Push(cfg))
           \/ trim("CARDINALITY", cfg.metrics) \/ trim("SAMPLER", cfg.trace)
           \/ trim("SAMPLER_ARG", cfg.trace /\ env[<<"SDK", "SAMPLER">>].text = "ratio")
<1>1. E!Echoed = UNION {
        {v \in UNION {IF cfg.trace THEN E!ReadByExporter("TRACES") ELSE {},
                      IF E!Push(cfg) THEN E!ReadByExporter("METRICS") ELSE {}} : E!Refuses(v[2], E!Trimmed(v))},
        {v \in IF cfg.log THEN E!ReadByLogs ELSE {} : E!Refuses(v[2], env[v])},
        {v \in {"SDK"} \X E!SDKSettings : Sdk(v)}}
  BY Zenon DEF E!Echoed
<1>2. ASSUME NEW s \in E!SDKSettings PROVE Sdk(<<"SDK", s>>) <=> SdkBad(s)
  <2>1. <<"SDK", s>>[2] = s
    OBVIOUS
  <2>2. RawBad(s) => env[<<"SDK", s>>] # E!Unset
    BY <2>1, ValueOf DEF RawBad
  <2>. QED
    BY <2>1, <2>2 DEF SdkBad, RawBad, TrimBad, LimitUnset
<1>. HIDE DEF Sdk
<1>3. (\E v \in {"SDK"} \X E!SDKSettings : Sdk(v)) <=> \E s \in E!SDKSettings : SdkBad(s)
  <2>1. \A v : v \in {"SDK"} \X E!SDKSettings <=> \E p \in {"SDK"} : \E s \in E!SDKSettings : v = <<p, s>>
    BY Product
  <2>. QED
    BY <1>2, <2>1, ZenonT(60)
<1>. QED
  BY <1>1, <1>3 DEF LogBad

\* The checks pass exactly if no reader of the environment would echo a variable.
LEMMA ChecksExact == E!ValidateOTLPExporterEnv <=> E!Echoed = {}
<1>1. ~E!ValidateOTLPExporterEnv <=>
        (\E x \in E!OtlpExporterEnvChecks : E!Fails(x)) \/ (\E x \in E!SdkEnvChecks : E!Fails(x))
  BY DEF E!ValidateOTLPExporterEnv
<1>2. (\E x \in E!OtlpExporterEnvChecks : E!Fails(x)) <=>
        \/ cfg.trace /\ \E x \in E!EnvFirst("TRACES") : E!Fails(x)
        \/ E!Push(cfg) /\ \E x \in E!EnvFirst("METRICS") : E!Fails(x)
        \/ E!Push(cfg) /\ E!Fails(<<E!Alternative(<<"SDK", "TEMPORALITY">>, FALSE)>>)
        \/ cfg.log /\ \/ \E s \in LogSettings : E!Fails(E!SignalFirst(s))
                      \/ cfg.otlpHeaders = "none" /\ E!Fails(E!SignalFirst("HEADERS"))
  BY OtlpMade
<1>. QED
  BY <1>1, <1>2, ExporterEchoes, LogsEchoes, SdkFails, EchoedBy

-----------------------------------------------------------------------------

\* The endpoint of a signal, by where it comes from.
LEMMA ResolvedEndpoint ==
  ASSUME NEW s \in E!Resolved
  PROVE  LET r == E!ResolveEndpoint(s) IN
           /\ r.source = "option" <=> cfg.otlpEndpoint # ""
           /\ r.source = "generic" => r.url[2] = "signal" /\ env[<<s, "ENDPOINT">>].text = ""
           /\ r.url[1] = r.raw
<1>. DEFINE own == E!EnvValue(<<s, "ENDPOINT">>, FALSE)
           generic == E!EnvValue(<<"", "ENDPOINT">>, FALSE)
           r == E!ResolveEndpoint(s)
<1>1. own = E!Unset <=> env[<<s, "ENDPOINT">>].text = ""
  BY ValueOf
<1>2. s \in {"TRACES", "LOGS"}
  BY DEF E!Resolved
<1>3. CASE cfg.otlpEndpoint # ""
  <2>1. r.source = "option" /\ r.url[1] = r.raw
    BY <1>3 DEF E!ResolveEndpoint, E!NewSignalEndpoint
  <2>. QED
    BY <1>3, <2>1
<1>4. CASE cfg.otlpEndpoint = "" /\ own # E!Unset
  <2>1. r.source = s /\ r.url[1] = r.raw
    BY <1>4 DEF E!ResolveEndpoint, E!NewEnvSignalEndpoint
  <2>. QED
    BY <1>2, <1>4, <2>1
<1>5. CASE cfg.otlpEndpoint = "" /\ own = E!Unset /\ generic # E!Unset
  <2>1. r.source = "generic" /\ r.url[2] = "signal" /\ r.url[1] = r.raw
    BY <1>5 DEF E!ResolveEndpoint, E!NewEnvSignalEndpoint
  <2>. QED
    BY <1>1, <1>5, <2>1
<1>6. CASE cfg.otlpEndpoint = "" /\ own = E!Unset /\ generic = E!Unset
  <2>1. r.source = "" /\ r.url[1] = r.raw
    BY <1>6 DEF E!ResolveEndpoint, E!NewSignalEndpoint
  <2>. QED
    BY <1>6, <2>1
<1>. QED
  BY <1>3, <1>4, <1>5, <1>6

\* A variable that is set meanwhile.
LEMMA SetenvEffect ==
  ASSUME EnvTyped, E!Setenv
  PROVE  /\ EnvTyped' /\ UNCHANGED <<cfg, pc, resolved, used, redacted, echoed>>
         /\ touched \subseteq touched'
         /\ \A v : v \notin touched' => env'[v] = env[v]
<1>1. PICK c \in Changes : env' = [env EXCEPT ![c[1]] = c[2]] /\ touched' = touched \cup {c[1]}
  BY DEF E!Setenv
<1>2. c[1] \in E!Variables /\ c[2] \in E!Values
  <2>. DEFINE A == E!Variables  B == E!Values
  <2>. HIDE DEF A, B
  <2>1. c \in A \X B
    BY ChangesAssumption DEF A, B
  <2>2. c[1] \in A /\ c[2] \in B
    BY ONLY <2>1
  <2>. QED
    BY <2>2 DEF A, B
<1>3. UNCHANGED <<cfg, pc, resolved, used, redacted, echoed>>
  BY DEF E!Setenv
<1>4. env \in [E!Variables -> E!Values]
  BY DEF EnvTyped
<1>5. env' \in [E!Variables -> E!Values]
  BY <1>1, <1>2, <1>4
<1>6. \A v : v # c[1] => env'[v] = env[v]
  BY <1>1, <1>4
<1>. QED
  BY <1>1, <1>3, <1>5, <1>6 DEF EnvTyped

\* The three kinds of readers: what each makes of a variable.
ExporterRefuses(v, g) ==
  /\ v \in {"", g} \X (E!OTLPSettings \ {"COMPRESSION", "PROTOCOL"})
  /\ v \in E!ClientPair(v[1]) => \A w \in E!ClientPair(v[1]) : env[w].text # ""
  /\ E!Refuses(v[2], E!Trimmed(v))

LogsRefuse(v) ==
  /\ v \in {"LOGS", ""} \X ({"TIMEOUT", "COMPRESSION", "CERTIFICATE", "CLIENT_CERTIFICATE", "CLIENT_KEY"}
                               \cup (IF cfg.otlpHeaders = "none" THEN {"HEADERS"} ELSE {}))
  /\ \A w \in E!Together(v) : env[w] # E!Unset
  /\ v[1] = "" => ~(/\ \A w \in E!Together(<<"LOGS", v[2]>>) : env[w] # E!Unset
                    /\ \A w \in E!Together(<<"LOGS", v[2]>>) : ~E!Refuses(w[2], env[w]))
  /\ E!Refuses(v[2], env[v])

SdkRefuses(v) ==
  /\ v \in {"SDK"} \X E!SDKSettings
  /\ LET raw(s, on)  == v[2] = s /\ on /\ env[v] # E!Unset /\ E!Refuses(s, env[v])
         trim(s, on) == v[2] = s /\ on /\ E!Refuses(s, E!Trimmed(v))
     IN  \/ raw("BSP", cfg.trace) \/ raw("SPAN_LIMIT", cfg.trace) \/ raw("BLRP", cfg.log)
         \/ raw("ATTRIBUTE_LIMIT", cfg.trace /\ env[<<"SDK", "SPAN_LIMIT">>] = E!Unset)
         \/ raw("INTERVAL", E!Push(cfg)) \/ trim("TEMPORALITY", E!Push(cfg))
         \/ trim("CARDINALITY", cfg.metrics) \/ trim("SAMPLER", cfg.trace)
         \/ trim("SAMPLER_ARG", cfg.trace /\ env[<<"SDK", "SAMPLER">>].text = "ratio")

IsEchoed(v) ==
  \/ cfg.trace /\ ExporterRefuses(v, "TRACES")
  \/ E!Push(cfg) /\ ExporterRefuses(v, "METRICS")
  \/ cfg.log /\ LogsRefuse(v)
  \/ SdkRefuses(v)

EchoedExactly == \A v : v \in E!Echoed <=> IsEchoed(v)

LEMMA EchoedOne == EchoedExactly
<1>1. \A v, g : v \in E!ReadByExporter(g) /\ E!Refuses(v[2], E!Trimmed(v)) <=> ExporterRefuses(v, g)
  BY DEF E!ReadByExporter, ExporterRefuses
<1>2. \A v : v \in E!ReadByLogs /\ E!Refuses(v[2], env[v]) <=> LogsRefuse(v)
  BY Zenon DEF E!ReadByLogs, LogsRefuse
<1>. DEFINE Sdk(v) ==
       LET raw(s, on)  == v[2] = s /\ on /\ env[v] # E!Unset /\ E!Refuses(s, env[v])
           trim(s, on) == v[2] = s /\ on /\ E!Refuses(s, E!Trimmed(v))
       IN  \/ raw("BSP", cfg.trace) \/ raw("SPAN_LIMIT", cfg.trace) \/ raw("BLRP", cfg.log)
           \/ raw("ATTRIBUTE_LIMIT", cfg.trace /\ env[<<"SDK", "SPAN_LIMIT">>] = E!Unset)
           \/ raw("INTERVAL", E!Push(cfg)) \/ trim("TEMPORALITY", E!Push(cfg))
           \/ trim("CARDINALITY", cfg.metrics) \/ trim("SAMPLER", cfg.trace)
           \/ trim("SAMPLER_ARG", cfg.trace /\ env[<<"SDK", "SAMPLER">>].text = "ratio")
<1>3. E!Echoed = UNION {
        {v \in UNION {IF cfg.trace THEN E!ReadByExporter("TRACES") ELSE {},
                      IF E!Push(cfg) THEN E!ReadByExporter("METRICS") ELSE {}} : E!Refuses(v[2], E!Trimmed(v))},
        {v \in IF cfg.log THEN E!ReadByLogs ELSE {} : E!Refuses(v[2], env[v])},
        {v \in {"SDK"} \X E!SDKSettings : Sdk(v)}}
  BY Zenon DEF E!Echoed
<1>4. \A v : v \in {"SDK"} \X E!SDKSettings /\ Sdk(v) <=> SdkRefuses(v)
  BY Zenon DEF SdkRefuses
<1>. HIDE DEF Sdk
<1>. QED
  BY <1>1, <1>2, <1>3, <1>4 DEF IsEchoed, EchoedExactly

\* Whether a variable is echoed depends on those it is read with only.
LEMMA EchoDepends ==
  ASSUME NEW v, cfg' = cfg, \A w \in E!ReadWith(v) : env'[w] = env[w], v \in E!Echoed'
  PROVE  v \in E!Echoed
<1>1. v \in E!Together(v) /\ (v \in E!ClientPair(v[1]) => E!Together(v) = E!ClientPair(v[1]))
  BY DEF E!Together
<1>2. /\ \A w \in E!Together(v) : env'[w] = env[w]
      /\ v[1] = "" => \A w \in E!Together(<<"LOGS", v[2]>>) : env'[w] = env[w]
      /\ v = <<"SDK", "ATTRIBUTE_LIMIT">> => env'[<<"SDK", "SPAN_LIMIT">>] = env[<<"SDK", "SPAN_LIMIT">>]
      /\ v = <<"SDK", "SAMPLER_ARG">> => env'[<<"SDK", "SAMPLER">>] = env[<<"SDK", "SAMPLER">>]
  BY DEF E!ReadWith
<1>3. env'[v] = env[v] /\ E!Trimmed(v)' = E!Trimmed(v)
  BY <1>1, <1>2 DEF E!Trimmed
<1>4. IsEchoed(v)'
  <2>1. EchoedExactly'
    BY EchoedOne, PTL
  <2>. QED
    BY <2>1 DEF EchoedExactly
<1>5. E!Push(cfg)' = E!Push(cfg)
  BY DEF E!Push
<1>6. ASSUME NEW g, ExporterRefuses(v, g)' PROVE ExporterRefuses(v, g)
  BY <1>1, <1>2, <1>3, <1>6 DEF ExporterRefuses, E!Refuses
<1>7. LogsRefuse(v)' => LogsRefuse(v)
  BY <1>1, <1>2, <1>3 DEF LogsRefuse, E!Refuses, E!Unset, E!Value
<1>8. SdkRefuses(v)' => SdkRefuses(v)
  <2>1. v \in {"SDK"} \X E!SDKSettings => v = <<"SDK", v[2]>>
    OBVIOUS
  <2>. QED
    BY <1>2, <1>3, <1>5, <2>1 DEF SdkRefuses, E!Refuses, E!Unset, E!Value
<1>9. IsEchoed(v)
  BY <1>4, <1>5, <1>6, <1>7, <1>8 DEF IsEchoed
<1>. QED
  BY <1>9, EchoedOne DEF EchoedExactly

-----------------------------------------------------------------------------
(***************************************************************************)
(* The inductive invariant: what was resolved is sound once it is checked, *)
(* and as long as they have not read, what the readers refuse is read with *)
(* a variable that was set meanwhile.                                      *)
(***************************************************************************)

Refused ==
  \/ E!Echoed # {}
  \/ \E s \in E!Enabled : E!ResolveEndpoint(s).problem # "" \/ E!ResolveEndpoint(s).grpc
  \/ E!Push(cfg) /\ cfg.metricsEndpoint = "noscheme"
  \/ (cfg.trace \/ cfg.log \/ E!Push(cfg)) /\ cfg.otlpHeaders = "invalid"
  \/ cfg.profiling /\ cfg.profilingHeaders = "invalid"

SoundEndpoint(s) ==
  /\ resolved[s].problem = "" /\ ~resolved[s].grpc
  /\ cfg.otlpEndpoint # "" <=> resolved[s].source = "option"
  /\ resolved[s].source = "generic" => resolved[s].url[2] = "signal"
  /\ resolved[s].url[1] = resolved[s].raw

RedactedExactly ==
  /\ \A s \in E!Enabled : used[s] \in redacted
  /\ \A e \in redacted : \/ e[1] \in {cfg.metricsEndpoint, cfg.profilingEndpoint}
                         \/ \E s \in E!Enabled : e[1] = resolved[s].raw

EnvInv ==
  /\ EnvTyped
  /\ pc \in {"start", "checked", "built", "ready", "failed"}
  /\ pc = "start" => echoed = {} /\ touched = {}
  /\ \A v \in echoed : E!ReadWith(v) \cap touched # {}
  /\ pc = "failed" => Refused
  /\ pc = "checked" => \A v \in E!Echoed : E!ReadWith(v) \cap touched # {}
  /\ pc \in {"checked", "built", "ready"} => \A s \in E!Enabled : SoundEndpoint(s)
  /\ pc = "checked" => \A s \in E!Enabled :
                          resolved[s].source = "generic" =>
                            env[<<s, "ENDPOINT">>].text = "" \/ <<s, "ENDPOINT">> \in touched
  /\ pc \in {"built", "ready"} => \A s \in E!Enabled : used[s] = resolved[s].url
  /\ pc = "ready" => RedactedExactly

LEMMA EnabledResolved == E!Enabled \subseteq E!Resolved
  BY DEF E!Enabled, E!Resolved

\* What is read is the same while cfg and env are.
LEMMA StandsStill ==
  ASSUME UNCHANGED <<cfg, env>> PROVE (Refused' <=> Refused) /\ E!Echoed' = E!Echoed
  BY DEF Refused, E!Enabled, E!Echoed, E!ResolveEndpoint, E!Push, E!ReadByExporter, E!ReadByLogs, E!Refuses,
         E!Trimmed, E!EnvValue, E!Value, E!Unset, E!NewSignalEndpoint, E!NewEnvSignalEndpoint, E!ParseEndpoint

\* The checks pass, or there is a reason that they do not.
LEMMA ValidateKeeps ==
  ASSUME EnvInv, E!Validate PROVE EnvInv'
<1>1. /\ pc = "start" /\ UNCHANGED <<cfg, env, used, redacted, echoed, touched>> /\ echoed = {}
      /\ E!Enabled' = E!Enabled /\ EnvTyped'
  BY DEF E!Validate, EnvInv, EnvTyped, E!Enabled
<1>2. E!ValidateOTLPExporterEnv <=> E!Echoed = {}
  BY ChecksExact DEF EnvInv
<1>. DEFINE r == [s \in E!Resolved |-> E!ResolveEndpoint(s)]
<1>3. CASE ~E!ValidateOTLPExporterEnv
  <2>1. pc' = "failed" /\ (Refused' <=> Refused) /\ Refused
    <3>1. pc' = "failed"
      BY <1>3 DEF E!Validate
    <3>2. Refused
      BY <1>2, <1>3 DEF Refused
    <3>3. Refused' <=> Refused
      BY <1>1, StandsStill
    <3>. QED
      BY <3>1, <3>2, <3>3
  <2>. QED
    BY <1>1, <2>1 DEF EnvInv
<1>4. CASE E!ValidateOTLPExporterEnv /\ E!ValidateConfiguredEndpoints(r) /\ E!ValidateConfiguredHeaders
  <2>1. pc' = "checked" /\ resolved' = r
    BY <1>4 DEF E!Validate
  <2>2. E!Echoed' = {}
    <3>1. E!Echoed' = E!Echoed
      BY <1>1, StandsStill
    <3>. QED
      BY <1>2, <1>4, <3>1
  <2>3. ASSUME NEW s \in E!Enabled
        PROVE  SoundEndpoint(s)' /\ (resolved'[s].source = "generic" => env'[<<s, "ENDPOINT">>].text = "")
    <3>1. s \in E!Resolved /\ resolved'[s] = E!ResolveEndpoint(s)
      BY <2>1, EnabledResolved
    <3>2. r[s].problem = "" /\ ~r[s].grpc
      BY <1>4 DEF E!ValidateConfiguredEndpoints
    <3>. QED
      BY <1>1, <2>1, <3>1, <3>2, ResolvedEndpoint DEF SoundEndpoint
  <2>. QED
    BY <1>1, <2>1, <2>2, <2>3 DEF EnvInv
<1>5. CASE E!ValidateOTLPExporterEnv /\ ~(E!ValidateConfiguredEndpoints(r) /\ E!ValidateConfiguredHeaders)
  <2>1. pc' = "failed"
    BY <1>5 DEF E!Validate
  <2>2. Refused
    <3>1. CASE ~E!ValidateConfiguredEndpoints(r)
      <4>1. CASE \E s \in E!Enabled : ~(r[s].problem = "" /\ ~r[s].grpc)
        BY <4>1, EnabledResolved DEF Refused
      <4>2. CASE E!Push(cfg) /\ E!ParseEndpoint(cfg.metricsEndpoint) # ""
        BY <4>2 DEF Refused, E!ParseEndpoint, EnvInv, EnvTyped, E!Configs, E!Push
      <4>. QED
        BY <3>1, <4>1, <4>2 DEF E!ValidateConfiguredEndpoints
    <3>2. CASE ~E!ValidateConfiguredHeaders
      BY <3>2 DEF Refused, E!ValidateConfiguredHeaders
    <3>. QED
      BY <1>5, <3>1, <3>2
  <2>3. Refused' <=> Refused
    BY <1>1, StandsStill
  <2>. QED
    BY <1>1, <2>1, <2>2, <2>3 DEF EnvInv
<1>. QED
  BY <1>3, <1>4, <1>5

\* A variable changes between the checks and what they were for.
LEMMA MeanwhileKeeps ==
  ASSUME EnvInv, E!Setenv PROVE EnvInv'
<1>1. pc \in {"checked", "built"}
  BY DEF E!Setenv
<1>2. /\ EnvTyped' /\ UNCHANGED <<cfg, pc, resolved, used, redacted, echoed>> /\ touched \subseteq touched'
      /\ \A v : v \notin touched' => env'[v] = env[v]
  BY SetenvEffect DEF EnvInv
<1>3. ASSUME pc = "checked", NEW v \in E!Echoed' PROVE E!ReadWith(v) \cap touched' # {}
  <2>1. CASE \A w \in E!ReadWith(v) : env'[w] = env[w]
    <3>1. v \in E!Echoed
      BY <1>2, <1>3, <2>1, EchoDepends
    <3>. QED
      BY <1>2, <1>3, <3>1 DEF EnvInv
  <2>. QED
    BY <1>2, <2>1
<1>4. \A v : E!ReadWith(v)' = E!ReadWith(v)
  BY DEF E!ReadWith, E!Together, E!ClientPair
<1>5. E!Enabled' = E!Enabled /\ \A s : SoundEndpoint(s)' <=> SoundEndpoint(s)
  BY <1>2 DEF E!Enabled, SoundEndpoint
<1>6. \A v \in echoed : E!ReadWith(v) \cap touched' # {}
  BY <1>2 DEF EnvInv
<1>. QED
  BY <1>1, <1>2, <1>3, <1>4, <1>5, <1>6 DEF EnvInv

LEMMA BuildKeeps ==
  ASSUME EnvInv, E!Build PROVE EnvInv'
<1>1. pc = "checked" /\ pc' = "built" /\ echoed' = E!Echoed /\ UNCHANGED <<cfg, env, resolved, redacted, touched>>
      /\ used' = [s \in E!Resolved |-> IF s \in E!Enabled THEN resolved[s].url ELSE <<"", "">>]
  BY DEF E!Build, E!EndpointOf
<1>2. E!Enabled' = E!Enabled /\ (\A s : SoundEndpoint(s)' <=> SoundEndpoint(s)) /\ EnvTyped'
  BY <1>1 DEF E!Enabled, SoundEndpoint, EnvInv, EnvTyped
<1>. QED
  BY <1>1, <1>2, EnabledResolved DEF EnvInv

LEMMA DiagnoseKeeps ==
  ASSUME EnvInv, E!Diagnose PROVE EnvInv'
<1>1. pc = "built" /\ pc' = "ready" /\ UNCHANGED <<cfg, env, resolved, used, echoed, touched>>
      /\ redacted' = E!DiagnosticEndpoints
  BY DEF E!Diagnose
<1>2. E!Enabled' = E!Enabled /\ (\A s : SoundEndpoint(s)' <=> SoundEndpoint(s)) /\ EnvTyped'
  BY <1>1 DEF E!Enabled, SoundEndpoint, EnvInv, EnvTyped
<1>3. \A s \in E!Enabled : SoundEndpoint(s) /\ used[s] = resolved[s].url
  BY <1>1 DEF EnvInv
<1>4. ASSUME NEW e
      PROVE  e \in E!DiagnosticEndpoints <=>
               \/ e \in {<<cfg.metricsEndpoint, "later">>, <<cfg.profilingEndpoint, "later">>}
               \/ \E s \in E!Enabled : resolved[s].problem = "" /\ e \in {<<resolved[s].raw, "later">>, resolved[s].url}
  BY DEF E!DiagnosticEndpoints
<1>5. RedactedExactly'
  <2>1. ASSUME NEW s \in E!Enabled PROVE used[s] \in redacted'
    BY <1>1, <1>3, <1>4 DEF SoundEndpoint
  <2>2. ASSUME NEW e \in redacted'
        PROVE  e[1] \in {cfg.metricsEndpoint, cfg.profilingEndpoint} \/ \E s \in E!Enabled : e[1] = resolved[s].raw
    <3>1. CASE e \in {<<cfg.metricsEndpoint, "later">>, <<cfg.profilingEndpoint, "later">>}
      BY <3>1
    <3>2. ASSUME NEW s \in E!Enabled, e \in {<<resolved[s].raw, "later">>, resolved[s].url}
          PROVE  e[1] = resolved[s].raw
      <4>1. resolved[s].url[1] = resolved[s].raw
        BY <1>3 DEF SoundEndpoint
      <4>2. CASE e = <<resolved[s].raw, "later">>
        BY <4>2
      <4>. QED
        BY <3>2, <4>1, <4>2
    <3>. QED
      BY <1>1, <1>4, <3>1, <3>2
  <2>. QED
    BY <1>1, <1>2, <2>1, <2>2 DEF RedactedExactly
<1>. QED
  BY <1>1, <1>2, <1>3, <1>5 DEF EnvInv

LEMMA EnvStepKeeps ==
  ASSUME EnvInv, E!Next PROVE EnvInv'
  BY ValidateKeeps, MeanwhileKeeps, BuildKeeps, DiagnoseKeeps DEF E!Next

-----------------------------------------------------------------------------

LEMMA EnvStill ==
  ASSUME EnvInv, UNCHANGED envVars PROVE EnvInv'
<1>1. UNCHANGED <<cfg, env, pc, resolved, used, redacted, echoed, touched>>
  BY DEF envVars
<1>2. (Refused' <=> Refused) /\ E!Echoed' = E!Echoed
  BY <1>1, StandsStill
<1>3. E!Enabled' = E!Enabled /\ (\A s : SoundEndpoint(s)' <=> SoundEndpoint(s)) /\ EnvTyped'
  BY <1>1 DEF E!Enabled, SoundEndpoint, EnvInv, EnvTyped
<1>4. RedactedExactly' <=> RedactedExactly
  BY <1>1, <1>3 DEF RedactedExactly
<1>. QED
  BY <1>1, <1>2, <1>3, <1>4 DEF EnvInv

LEMMA EnvMeans ==
  ASSUME EnvInv PROVE E!NothingEchoed /\ E!OneEndpoint
<1>1. E!NothingEchoed
  BY DEF EnvInv, Refused, E!NothingEchoed
<1>2. ASSUME pc \in {"built", "ready"}, NEW s \in E!Enabled
      PROVE  /\ used[s] = resolved[s].url /\ resolved[s].problem = "" /\ ~resolved[s].grpc
             /\ cfg.otlpEndpoint # "" <=> resolved[s].source = "option"
             /\ resolved[s].source = "generic" => used[s][2] = "signal"
  BY <1>2 DEF EnvInv, SoundEndpoint
<1>3. ASSUME pc = "ready"
      PROVE  /\ {used[s] : s \in E!Enabled} \subseteq redacted
             /\ \A e \in redacted : \/ e[1] \in {cfg.metricsEndpoint, cfg.profilingEndpoint}
                                    \/ \E s \in E!Enabled : e[1] = resolved[s].raw
  BY <1>3 DEF EnvInv, RedactedExactly
<1>. QED
  BY <1>1, <1>2, <1>3 DEF EnvInv, E!OneEndpoint

\* The checks, the exporters and the diagnostics agree: for every Config, every
\* environment and whatever variables are set to whatever values meanwhile, an
\* exporter echoes a variable only if it or one read with it was set after the
\* checks, Init refuses no environment it could have run with, and the endpoint
\* that was validated is the one that is used and redacted.
THEOREM EnvironmentAgreed ==
  E!Init /\ [][E!Next]_envVars => [](E!NothingEchoed /\ E!OneEndpoint)
<1>1. E!Init => EnvInv
  BY DEF E!Init, E!Start, EnvInv, EnvTyped
<1>3. EnvInv /\ [E!Next]_envVars => EnvInv'
  BY EnvStill, EnvStepKeeps
<1>4. EnvInv => E!NothingEchoed /\ E!OneEndpoint
  BY EnvMeans
<1>. QED
  BY <1>1, <1>3, <1>4, PTL

LEMMA SecondOf == \A a, b : <<a, b>>[2] = b
  OBVIOUS

\* The environments and the Configs of the run are among them.
LEMMA EnvInitMeans ==
  ASSUME EnvInit PROVE E!Init
<1>1. {E!Unset, E!Blank, Good(FALSE), Good(TRUE), Bad, E!Value("zero", FALSE), E!Value("ratio", TRUE), E!Value("path", FALSE),
       E!Value("noscheme", FALSE), E!Value("grpc", TRUE)} \subseteq E!Values
  <2>1. \A t \in E!Texts : \A b \in BOOLEAN : E!Value(t, b) \in E!Values
    BY DEF E!Value, E!Values
  <2>. QED
    BY <2>1 DEF E!Unset, E!Blank, Good, Bad, E!Texts
<1>2. E!Start
  BY DEF EnvInit
<1>3. cfg \in E!Configs
  BY DEF EnvInit, PlainConfigs, EndpointConfigs
<1>0. /\ E!Unset \in E!Values /\ E!Blank \in E!Values /\ Good(FALSE) \in E!Values /\ Good(TRUE) \in E!Values
      /\ Bad \in E!Values /\ E!Value("zero", FALSE) \in E!Values /\ E!Value("ratio", TRUE) \in E!Values
  BY <1>1
<1>4. ASSUME NEW g \in Groups PROVE g[2] \subseteq E!Values
  <2>1. ASSUME NEW s, g \in Single(s) PROVE g[2] \subseteq E!Values
    <3>1. g[2] = {E!Unset, E!Blank, Good(FALSE), Good(TRUE), E!Value("zero", FALSE), Bad}
      BY <2>1, SecondOf, Zenon DEF Single
    <3>. QED
      BY <1>0, <3>1, Zenon
  <2>2. ASSUME NEW s, g \in Own(s) PROVE g[2] \subseteq E!Values
    <3>1. \/ g[2] = {E!Unset, E!Blank, Good(FALSE), Good(TRUE), Bad}
          \/ g[2] = {E!Unset, E!Blank, Good(TRUE), Bad}
      BY <2>2, SecondOf, Zenon DEF Own
    <3>. QED
      BY <1>0, <3>1, Zenon
  <2>3. CASE \/ g[2] = {E!Unset, E!Blank, Good(FALSE), Good(TRUE), Bad}
             \/ g[2] = {E!Unset, E!Blank, Good(FALSE), E!Value("ratio", TRUE), Bad}
             \/ g[2] = {E!Unset, Good(TRUE), Bad}
    BY <1>0, <2>3, Zenon
  <2>. DEFINE X == UNION {Single(s) : s \in {"BSP", "BLRP", "CARDINALITY", "INTERVAL", "TEMPORALITY"}}
             Y == UNION {Own(s) : s \in {"TIMEOUT", "HEADERS", "CERTIFICATE", "COMPRESSION"}}
             Z == {<<{"SDK"} \X {"SPAN_LIMIT", "ATTRIBUTE_LIMIT"}, {E!Unset, E!Blank, Good(FALSE), Good(TRUE), Bad}>>,
                   <<{"SDK"} \X {"SAMPLER", "SAMPLER_ARG"}, {E!Unset, E!Blank, Good(FALSE), E!Value("ratio", TRUE), Bad}>>,
                   <<{"", "LOGS", "TRACES"} \X {"CLIENT_CERTIFICATE", "CLIENT_KEY"}, {E!Unset, Good(TRUE), Bad}>>}
  <2>4. g \in X \cup Y \cup Z
    BY Zenon DEF Groups
  <2>5. g \in X => \E s : g \in Single(s)
    BY Zenon
  <2>6. g \in Y => \E s : g \in Own(s)
    BY Zenon
  <2>7. CASE g \in Z
    BY <2>3, <2>7, SecondOf, Zenon
  <2>. HIDE DEF X, Y, Z
  <2>. QED
    BY <2>1, <2>2, <2>4, <2>5, <2>6, <2>7, Zenon
<1>5. CASE \E g \in Groups : env \in Environments(g)
  <2>1. PICK g \in Groups : env \in Environments(g)
    BY <1>5
  <2>2. PICK e \in [g[1] -> g[2]] : env = [v \in E!Variables |-> IF v \in g[1] THEN e[v] ELSE E!Unset]
    BY <2>1 DEF Environments
  <2>3. E!Unset \in E!Values
    BY <1>1
  <2>4. \A v \in g[1] : e[v] \in E!Values
    BY <1>4
  <2>. QED
    BY <1>2, <1>3, <2>2, <2>3, <2>4 DEF E!Init
<1>6. CASE EndpointEnvironment
  <2>. DEFINE Y == {"", "TRACES", "LOGS"} \X {"ENDPOINT"}
             Z == {"", "TRACES"} \X {"PROTOCOL"}
  <2>1. PICK e \in [Y -> E!Values], p \in [Z -> E!Values] :
          env = [v \in E!Variables |-> IF v \in DOMAIN e THEN e[v] ELSE IF v \in DOMAIN p THEN p[v] ELSE E!Unset]
    <3>. DEFINE A == {E!Unset, E!Blank, Good(TRUE), E!Value("path", FALSE), E!Value("noscheme", FALSE), Bad}
               B == {E!Unset, Good(FALSE), E!Value("grpc", TRUE)}
    <3>1. PICK e \in [Y -> A], p \in [Z -> B] :
            env = [v \in E!Variables |-> IF v \in DOMAIN e THEN e[v] ELSE IF v \in DOMAIN p THEN p[v] ELSE E!Unset]
      BY <1>6 DEF EndpointEnvironment
    <3>2. A \subseteq E!Values /\ B \subseteq E!Values
      BY <1>1
    <3>. HIDE DEF A, B, Y, Z
    <3>3. e \in [Y -> E!Values] /\ p \in [Z -> E!Values]
      BY <3>2
    <3>. QED
      BY <3>1, <3>3
  <2>. HIDE DEF Y, Z
  <2>2. E!Unset \in E!Values
    BY <1>1
  <2>. QED
    BY <1>2, <1>3, <2>1, <2>2 DEF E!Init
<1>7. CASE env = [v \in E!Variables |-> E!Unset]
  BY <1>1, <1>2, <1>3, <1>7 DEF E!Init
<1>. QED
  BY <1>5, <1>6, <1>7 DEF EnvInit

\* Init and its environment, in the specification the run checks.
THEOREM EnvironmentSafe == Spec => []ValidatedAsUsed
<1>. DEFINE Inv == which = "environment" => EnvInv
<1>1. Init => Inv
  BY EnvInitMeans DEF Init, E!Init, E!Start, EnvInv, EnvTyped
<1>2. Inv /\ [Next]_vars => Inv'
  <2>. SUFFICES ASSUME Inv, [Next]_vars PROVE Inv'
    OBVIOUS
  <2>1. CASE which = "environment" /\ E!Next /\ UNCHANGED which
    BY <2>1, EnvStepKeeps
  <2>2. CASE UNCHANGED <<which, envVars>>
    BY <2>2, EnvStill DEF envVars
  <2>. QED
    BY <2>1, <2>2 DEF Next, vars
<1>3. Inv => ValidatedAsUsed
  BY EnvMeans DEF ValidatedAsUsed
<1>. QED
  BY <1>1, <1>2, <1>3, PTL DEF Spec

-----------------------------------------------------------------------------
(***************************************************************************)
(* The views.  A name and a scope determine a view of those configured, so *)
(* that at most one matches an instrument.                                 *)
(***************************************************************************)

HttpNames == {"http.server.request.duration", "http.client.request.duration"}
RpcNames == V!CallDurations
LegacyNames ==
  {"db.client.connections.usage", "db.client.connections.idle.max", "db.client.connections.idle.min",
   "db.client.connections.max", "db.client.connections.pending_requests", "db.client.connections.timeouts",
   "db.client.connections.hits", "db.client.connections.misses", "db.client.connections.create_time",
   "db.client.connections.use_time", "db.client.connections.wait_time"}
AnyScope == HttpNames \cup RpcNames \cup LegacyNames

\* The views of one scope: the names they are for, and each name has one.
Fits(S, scope, N) ==
  /\ \A v \in S : v.scope = scope /\ v.name \in N
  /\ \A v, w \in S : v.name = w.name => v = w

LEMMA ViewFits ==
  ASSUME NEW N, NEW scope, NEW agg, NEW allow
  PROVE  Fits(V!View(N, scope, agg, allow), scope, N)
<1>. DEFINE R(n) == [name |-> n, scope |-> scope, kind |-> V!Every, unit |-> V!Every, agg |-> agg, allow |-> allow, drops |-> FALSE]
<1>1. \A v \in V!View(N, scope, agg, allow) : \E n \in N : v = R(n)
  BY DEF V!View
<1>2. \A n : R(n).name = n /\ R(n).scope = scope
  OBVIOUS
<1>. HIDE DEF R
<1>. QED
  BY <1>1, <1>2 DEF Fits

LEMMA JoinFits ==
  ASSUME NEW S, NEW T, NEW scope, NEW N, NEW M, Fits(S, scope, N), Fits(T, scope, M), N \cap M = {}
  PROVE  Fits(S \cup T, scope, N \cup M)
  BY DEF Fits

\* Names that no view of any scope has.
Apart(N) == N \cap AnyScope = {}

LEMMA CassandraViews == \E N : Fits(V!Cassandra, {"cassandra"}, N) /\ Apart(N)
<1>. DEFINE query == V!Call \cup {"db.namespace", "db.collection.name"}
           a == {"db.client.operation.duration"}       A == V!View(a, {"cassandra"}, "buckets", query)
           b == {"db.client.connection.create_time"}   B == V!View(b, {"cassandra"}, "buckets", V!Pool)
           c == {"cassandra.query.attempts"}           C == V!View(c, {"cassandra"}, "default", query)
           d == {"cassandra.connection.attempts"}
           D == V!View(d, {"cassandra"}, "default", V!Pool \cup {"error.type"})
<1>0. V!Cassandra = A \cup B \cup C \cup D
  BY DEF V!Cassandra
<1>1. Fits(A, {"cassandra"}, a) /\ Fits(B, {"cassandra"}, b) /\ Fits(C, {"cassandra"}, c) /\ Fits(D, {"cassandra"}, d)
  BY ViewFits, Zenon
<1>2. a \cap b = {} /\ (a \cup b) \cap c = {} /\ (a \cup b \cup c) \cap d = {} /\ Apart(a \cup b \cup c \cup d)
  BY DEF Apart, AnyScope, HttpNames, RpcNames, V!CallDurations, LegacyNames
<1>. HIDE DEF A, B, C, D, a, b, c, d
<1>3. Fits(A \cup B, {"cassandra"}, a \cup b)
  BY <1>1, <1>2, JoinFits
<1>4. Fits(A \cup B \cup C, {"cassandra"}, a \cup b \cup c)
  BY <1>1, <1>2, <1>3, JoinFits
<1>5. Fits(A \cup B \cup C \cup D, {"cassandra"}, a \cup b \cup c \cup d)
  BY <1>1, <1>2, <1>4, JoinFits
<1>. QED
  BY <1>0, <1>2, <1>5

LEMMA ElasticsearchViews == \E N : Fits(V!Elasticsearch, {"elasticsearch"}, N) /\ Apart(N)
<1>1. Fits(V!Elasticsearch, {"elasticsearch"}, {"db.client.operation.duration"})
  BY ViewFits, Zenon DEF V!Elasticsearch
<1>2. Apart({"db.client.operation.duration"})
  BY DEF Apart, AnyScope, HttpNames, RpcNames, V!CallDurations, LegacyNames
<1>. QED
  BY <1>1, <1>2

LEMMA MinioViews == \E N : Fits(V!Minio, {"minio"}, N) /\ Apart(N)
<1>1. Fits(V!Minio, {"minio"}, {"minio.client.operation.duration"})
  BY ViewFits, Zenon DEF V!Minio
<1>2. Apart({"minio.client.operation.duration"})
  BY DEF Apart, AnyScope, HttpNames, RpcNames, V!CallDurations, LegacyNames
<1>. QED
  BY <1>1, <1>2

LEMMA MongoViews ==
  \E S, T, N, M : /\ V!Mongo = S \cup T
                  /\ Fits(S, {"otelmongo"}, N) /\ Apart(N) /\ Fits(T, {"mongo"}, M) /\ Apart(M)
<1>. DEFINE o == {"db.client.operation.duration"}
           O1 == V!View(o, {"otelmongo"}, "buckets",
                        {"db.system.name", "db.operation.name", "network.peer.address", "network.peer.port", "error.type"})
           a == {"db.client.connection.count"}
           A == V!View(a, {"mongo"}, "default", V!Pool \cup {"db.client.connection.state"})
           b == {"db.client.connection.create_time"}   B == V!View(b, {"mongo"}, "buckets", V!Pool)
           c == {"db.client.connection.idle.min", "db.client.connection.max",
                 "db.client.connection.pending_requests", "db.client.connection.timeouts"}
           C == V!View(c, {"mongo"}, "default", V!Pool)
           d == {"db.client.connection.idle.max", "db.client.connection.use_time", "db.client.connection.wait_time"}
           D == V!View(d, {"mongo"}, "drop", V!Every)
<1>0. V!Mongo = O1 \cup (A \cup B \cup C \cup D)
  BY DEF V!Mongo
<1>1. /\ Fits(O1, {"otelmongo"}, o)
      /\ Fits(A, {"mongo"}, a) /\ Fits(B, {"mongo"}, b) /\ Fits(C, {"mongo"}, c) /\ Fits(D, {"mongo"}, d)
  BY ViewFits, Zenon
<1>2. /\ a \cap b = {} /\ (a \cup b) \cap c = {} /\ (a \cup b \cup c) \cap d = {} /\ Apart(a \cup b \cup c \cup d)
      /\ Apart(o)
  BY DEF Apart, AnyScope, HttpNames, RpcNames, V!CallDurations, LegacyNames
<1>. HIDE DEF A, B, C, D, O1, a, b, c, d, o
<1>3. Fits(A \cup B, {"mongo"}, a \cup b)
  BY <1>1, <1>2, JoinFits
<1>4. Fits(A \cup B \cup C, {"mongo"}, a \cup b \cup c)
  BY <1>1, <1>2, <1>3, JoinFits
<1>5. Fits(A \cup B \cup C \cup D, {"mongo"}, a \cup b \cup c \cup d)
  BY <1>1, <1>2, <1>4, JoinFits
<1>. QED
  BY <1>0, <1>1, <1>2, <1>5, Zenon

LEMMA RedisViews ==
  \E S, T, N : /\ V!Redis = S \cup T
               /\ Fits(S, {"redis"}, N) /\ Apart(N) /\ Fits(T, V!Every, LegacyNames)
<1>. DEFINE a == {"db.client.operation.duration"}       A == V!View(a, {"redis"}, "buckets", V!Call)
           b == {"db.client.connection.create_time"}   B == V!View(b, {"redis"}, "buckets", V!Pool)
           c == {"db.client.connection.count"}
           C == V!View(c, {"redis"}, "default", V!Pool \cup {"db.client.connection.state"})
           d == {"db.client.connection.idle.max", "db.client.connection.idle.min",
                 "db.client.connection.max", "db.client.connection.timeouts"}
           D == V!View(d, {"redis"}, "default", V!Pool)
           L == V!View(LegacyNames, V!Every, "drop", V!Every)
<1>0. V!Redis = (A \cup B \cup C \cup D) \cup L
  BY DEF V!Redis, LegacyNames
<1>1. /\ Fits(A, {"redis"}, a) /\ Fits(B, {"redis"}, b) /\ Fits(C, {"redis"}, c) /\ Fits(D, {"redis"}, d)
      /\ Fits(L, V!Every, LegacyNames)
  BY ViewFits, Zenon
<1>2. a \cap b = {} /\ (a \cup b) \cap c = {} /\ (a \cup b \cup c) \cap d = {} /\ Apart(a \cup b \cup c \cup d)
  BY DEF Apart, AnyScope, HttpNames, RpcNames, V!CallDurations, LegacyNames
<1>. HIDE DEF A, B, C, D, L, a, b, c, d
<1>3. Fits(A \cup B, {"redis"}, a \cup b)
  BY <1>1, <1>2, JoinFits
<1>4. Fits(A \cup B \cup C, {"redis"}, a \cup b \cup c)
  BY <1>1, <1>2, <1>3, JoinFits
<1>5. Fits(A \cup B \cup C \cup D, {"redis"}, a \cup b \cup c \cup d)
  BY <1>1, <1>2, <1>4, JoinFits
<1>. QED
  BY <1>0, <1>1, <1>2, <1>5, Zenon

\* Views that are rewritten one by one keep their names and scopes.
LEMMA ViewFields ==
  ASSUME NEW N, NEW scope, NEW agg, NEW allow, NEW v \in V!View(N, scope, agg, allow)
  PROVE  \A x : /\ \A y : LET w == [v EXCEPT !.kind = x, !.unit = y] IN w.name = v.name /\ w.scope = v.scope /\ w.unit = y
                /\ [v EXCEPT !.drops = x].name = v.name /\ [v EXCEPT !.drops = x].scope = v.scope
  BY DEF V!View

LEMMA RPCViews == Fits(V!RPC, V!Every, RpcNames) /\ \A v \in V!RPC : v.unit = {"s"}
<1>. DEFINE A == V!View(RpcNames, V!Every, "buckets", V!Every)
           f(v) == [v EXCEPT !.kind = {"histogram"}, !.unit = {"s"}]
<1>1. V!RPC = {f(v) : v \in A}
  BY DEF V!RPC, RpcNames
<1>2. Fits(A, V!Every, RpcNames)
  BY ViewFits
<1>3. \A v \in A : f(v).name = v.name /\ f(v).scope = v.scope /\ f(v).unit = {"s"}
  BY ViewFields
<1>. HIDE DEF A, f
<1>. QED
  BY <1>1, <1>2, <1>3 DEF Fits

LEMMA HttpViews == Fits(V!DefaultViews, V!Every, HttpNames)
<1>. DEFINE http == {"http.request.method", "http.route", "http.response.status_code"}
           a == {"http.server.request.duration"}
           b == {"http.client.request.duration"}
           A == V!View(a, V!Every, "buckets", http \cup extra)
           B == V!View(b, V!Every, "buckets", http \cup {"server.address", "server.port", "error.type"})
           f(v) == [v EXCEPT !.drops = TRUE]
<1>1. CASE disabled
  BY <1>1 DEF V!DefaultViews, Fits
<1>2. CASE ~disabled
  <2>1. V!DefaultViews = {f(v) : v \in A \cup B}
    BY <1>2 DEF V!DefaultViews
  <2>2. Fits(A, V!Every, a) /\ Fits(B, V!Every, b)
    <3>1. \A allow : Fits(V!View(a, V!Every, "buckets", allow), V!Every, a) /\ Fits(V!View(b, V!Every, "buckets", allow), V!Every, b)
      BY ViewFits, Zenon
    <3>. QED
      BY <3>1, Zenon
  <2>3. a \cap b = {} /\ a \cup b = HttpNames
    BY DEF HttpNames
  <2>4. \A v \in A \cup B : f(v).name = v.name /\ f(v).scope = v.scope
    <3>1. \A v \in A : f(v).name = v.name /\ f(v).scope = v.scope
      BY DEF V!View
    <3>2. \A v \in B : f(v).name = v.name /\ f(v).scope = v.scope
      BY DEF V!View
    <3>. QED
      BY <3>1, <3>2
  <2>. HIDE DEF A, B, a, b, f
  <2>5. Fits(A \cup B, V!Every, HttpNames)
    BY <2>2, <2>3, JoinFits
  <2>. QED
    BY <2>1, <2>4, <2>5 DEF Fits
<1>. QED
  BY <1>1, <1>2

\* Views of other scopes: a name and a scope determine one.
Settled(S, scopes) ==
  /\ \A v \in S : v.scope \in scopes /\ v.name \notin AnyScope
  /\ \A v, w \in S : v.name = w.name /\ v.scope = w.scope => v = w

LEMMA FitsSettled ==
  ASSUME NEW S, NEW scope, \E N : Fits(S, scope, N) /\ Apart(N) PROVE Settled(S, {scope})
  BY DEF Fits, Apart, Settled

LEMMA JoinSettled ==
  ASSUME NEW S, NEW T, NEW X, NEW Y, Settled(S, X), Settled(T, Y), X \cap Y = {}
  PROVE  Settled(S \cup T, X \cup Y)
  BY DEF Settled

LEMMA AllInstalled ==
  V!Configured = UNION {V!DefaultViews, V!Cassandra, V!Elasticsearch, V!Minio, V!Mongo, V!Redis, V!RPC}
<1>1. /\ V!Installed[1] = V!DefaultViews /\ V!Installed[2] = V!Cassandra /\ V!Installed[3] = V!Elasticsearch
      /\ V!Installed[4] = V!Minio /\ V!Installed[5] = V!Mongo /\ V!Installed[6] = V!Redis /\ V!Installed[7] = V!RPC
  BY DEF V!Installed
<1>2. \A i : i \in 1..7 <=> i = 1 \/ i = 2 \/ i = 3 \/ i = 4 \/ i = 5 \/ i = 6 \/ i = 7
  OBVIOUS
<1>. DEFINE Few == {V!DefaultViews, V!Cassandra, V!Elasticsearch, V!Minio, V!Mongo, V!Redis, V!RPC}
<1>3. {V!Installed[i] : i \in 1..7} = Few
  <2>. HIDE DEF V!Installed, V!DefaultViews, V!Cassandra, V!Elasticsearch, V!Minio, V!Mongo, V!Redis, V!RPC
  <2>1. \A i \in 1..7 : V!Installed[i] \in Few
    BY <1>1, <1>2
  <2>2. \A x \in Few : \E i \in 1..7 : x = V!Installed[i]
    BY <1>1
  <2>. HIDE DEF Few
  <2>. QED
    BY <2>1, <2>2, Zenon
<1>. QED
  BY <1>3 DEF V!Configured

\* At most one view of those configured matches an instrument, and one for a
\* call's duration is for seconds.
LEMMA OneView ==
  ASSUME NEW v \in V!Configured, NEW w \in V!Configured, NEW inst, V!Matches(v, inst), V!Matches(w, inst)
  PROVE  v = w /\ (v.name \in RpcNames => v.unit = {"s"})
<1>1. PICK Om, M, N1, N2 : /\ V!Mongo = Om \cup M
                           /\ Fits(Om, {"otelmongo"}, N1) /\ Apart(N1) /\ Fits(M, {"mongo"}, N2) /\ Apart(N2)
  BY MongoViews
<1>2. PICK R, L, N3 : V!Redis = R \cup L /\ Fits(R, {"redis"}, N3) /\ Apart(N3) /\ Fits(L, V!Every, LegacyNames)
  BY RedisViews
<1>. DEFINE S3 == V!Cassandra \cup V!Elasticsearch \cup V!Minio
           S == S3 \cup (Om \cup M) \cup R
           T == V!DefaultViews \cup V!RPC \cup L
<1>3. V!Configured = S \cup T
  BY <1>1, <1>2, AllInstalled
<1>4. /\ Settled(V!Cassandra, {{"cassandra"}}) /\ Settled(V!Elasticsearch, {{"elasticsearch"}})
      /\ Settled(V!Minio, {{"minio"}}) /\ Settled(Om, {{"otelmongo"}}) /\ Settled(M, {{"mongo"}})
      /\ Settled(R, {{"redis"}})
  BY <1>1, <1>2, CassandraViews, ElasticsearchViews, MinioViews, FitsSettled
<1>5. PICK X : Settled(S, X) /\ \A x \in X : \E c : x = {c} /\ x # V!Every
  <2>. DEFINE c1 == {"cassandra"} c2 == {"elasticsearch"} c3 == {"minio"} c4 == {"otelmongo"} c5 == {"mongo"} c6 == {"redis"}
  <2>0. /\ c1 # c2 /\ c1 # c3 /\ c1 # c4 /\ c1 # c5 /\ c1 # c6 /\ c2 # c3 /\ c2 # c4 /\ c2 # c5 /\ c2 # c6
        /\ c3 # c4 /\ c3 # c5 /\ c3 # c6 /\ c4 # c5 /\ c4 # c6 /\ c5 # c6
    OBVIOUS
  <2>6. \A x \in {c1} \cup {c2} \cup {c3} \cup ({c4} \cup {c5}) \cup {c6} : \E c : x = {c} /\ x # V!Every
    BY DEF V!Every
  <2>. HIDE DEF c1, c2, c3, c4, c5, c6
  <2>7. /\ Settled(V!Cassandra, {c1}) /\ Settled(V!Elasticsearch, {c2}) /\ Settled(V!Minio, {c3})
        /\ Settled(Om, {c4}) /\ Settled(M, {c5}) /\ Settled(R, {c6})
    BY <1>4 DEF c1, c2, c3, c4, c5, c6
  <2>1. Settled(V!Cassandra \cup V!Elasticsearch, {c1} \cup {c2})
    BY <2>0, <2>7, JoinSettled
  <2>2. Settled(S3, {c1} \cup {c2} \cup {c3})
    BY <2>0, <2>1, <2>7, JoinSettled
  <2>3. Settled(Om \cup M, {c4} \cup {c5})
    BY <2>0, <2>7, JoinSettled
  <2>. HIDE DEF S3
  <2>4. Settled(S3 \cup (Om \cup M), {c1} \cup {c2} \cup {c3} \cup ({c4} \cup {c5}))
    BY <2>0, <2>2, <2>3, JoinSettled
  <2>5. Settled(S, {c1} \cup {c2} \cup {c3} \cup ({c4} \cup {c5}) \cup {c6})
    BY <2>0, <2>4, <2>7, JoinSettled
  <2>. QED
    BY <2>5, <2>6
<1>6. Fits(T, V!Every, AnyScope)
  <2>1. HttpNames \cap RpcNames = {} /\ (HttpNames \cup RpcNames) \cap LegacyNames = {}
    BY DEF HttpNames, RpcNames, V!CallDurations, LegacyNames
  <2>2. Fits(V!DefaultViews \cup V!RPC, V!Every, HttpNames \cup RpcNames)
    BY <2>1, HttpViews, RPCViews, JoinFits
  <2>. QED
    BY <1>2, <2>1, <2>2, JoinFits DEF AnyScope
<1>7. v.name = inst.name /\ w.name = inst.name /\ V!Is(inst.scope, v.scope) /\ V!Is(inst.scope, w.scope)
  BY DEF V!Matches
<1>11. v.name \in RpcNames => v.unit = {"s"}
  <2>1. RpcNames \cap HttpNames = {} /\ RpcNames \cap LegacyNames = {} /\ RpcNames \subseteq AnyScope
    BY DEF RpcNames, V!CallDurations, HttpNames, LegacyNames, AnyScope
  <2>2. \A x \in S : x.name \notin AnyScope
    BY <1>5 DEF Settled
  <2>3. \A x \in V!DefaultViews \cup L : x.name \in HttpNames \cup LegacyNames
    BY <1>2, HttpViews DEF Fits
  <2>4. v \in S \/ v \in V!DefaultViews \cup L \/ v \in V!RPC
    BY <1>3
  <2>. HIDE DEF S, T
  <2>. QED
    BY <2>1, <2>2, <2>3, <2>4, RPCViews
<1>. HIDE DEF S, T
<1>8. CASE v \in T /\ w \in T
  BY <1>6, <1>7, <1>8, <1>11 DEF Fits
<1>9. CASE v \in S /\ w \in S
  <2>1. v.scope = {inst.scope} /\ w.scope = {inst.scope}
    BY <1>5, <1>7, <1>9 DEF Settled, V!Is
  <2>. QED
    BY <1>5, <1>7, <1>9, <1>11, <2>1 DEF Settled
<1>10. ~(v \in S /\ w \in T) /\ ~(v \in T /\ w \in S)
  BY <1>5, <1>6, <1>7 DEF Settled, Fits
<1>. QED
  BY <1>3, <1>8, <1>9, <1>10, <1>11

\* What an instrument's views make of it.
StreamGood(inst, attrs, C, S) ==
  /\ Cardinality(C) <= 1 /\ Cardinality(S) <= 1
  /\ S = {} <=> \E v \in V!Configured : V!Matches(v, inst) /\ v.agg = "drop"
  /\ \A s \in S :
       /\ V!Overridden(inst) => s.agg = "override"
       /\ \A v \in V!Configured : V!Matches(v, inst) => s.allow = v.allow
       /\ pull => V!Reserved \cap (V!Kept(s, attrs) \cup V!Exemplar(s, attrs)) = {}
       /\ (\A v \in V!Configured : ~V!Matches(v, inst)) /\ ~V!Overridden(inst) => s.agg = "default"
       /\ ~pull /\ (\A v \in V!Configured : ~V!Matches(v, inst)) => V!Kept(s, attrs) = attrs
       /\ inst.name \in RpcNames /\ inst.unit # "s" => s.agg # "buckets"

LEMMA AtMostOne == /\ Cardinality({}) <= 1 /\ \A x : Cardinality({x}) <= 1
<1>1. Cardinality({}) = 0 /\ \A x : Cardinality({x}) = 1
  BY FS_EmptySet, FS_Singleton
<1>. QED
  BY <1>1

\* A stream that the guard of the reserved keys has filtered.
LEMMA Guarded ==
  ASSUME NEW s, NEW attrs, s.guarded = TRUE, s.drops = TRUE
  PROVE  V!Reserved \cap (V!Kept(s, attrs) \cup V!Exemplar(s, attrs)) = {}
  BY DEF V!Kept, V!Exemplar

LEMMA UnclaimedStream ==
  ASSUME NEW inst, NEW attrs, \A v \in V!Configured : ~V!Matches(v, inst)
  PROVE  StreamGood(inst, attrs, V!Views(inst), V!SDKStreams(V!Views(inst)))
<1>1. V!Claimed(inst) = {}
  BY DEF V!Claimed
<1>. DEFINE agg == IF V!Overridden(inst) THEN "override" ELSE "default"
<1>2. PICK s : /\ V!SDKStreams(V!Views(inst)) = {s} /\ V!Views(inst) \subseteq {s}
               /\ s.agg = agg /\ s.allow = V!Every /\ (pull => s.guarded = TRUE /\ s.drops = TRUE) /\ (~pull => s.guarded = FALSE)
  <2>1. CASE V!Overridden(inst)
    <3>. DEFINE o == V!Own(V!OverridePlace, "override", "override", FALSE)
    <3>0. o.agg = "override" /\ o.allow = V!Every /\ o.guarded = FALSE
      BY DEF V!Own
    <3>1. V!ApplyHistogramBucketOverrides(inst) = {o}
      BY <1>1, <2>1 DEF V!ApplyHistogramBucketOverrides, V!UnclaimedBucketOverride
    <3>2. CASE ~pull
      <4>1. V!Views(inst) = {o}
        BY <3>1, <3>2 DEF V!Views
      <4>. QED
        BY <2>1, <3>0, <3>2, <4>1 DEF V!SDKStreams
    <3>3. CASE pull
      <4>. DEFINE g == V!WithReservedKeyFilter(o)
      <4>1. V!Views(inst) = {g}
        BY <3>1, <3>3 DEF V!Views, V!GuardReservedKeys, V!CatchAllReservedKeyFilter
      <4>2. g.agg = "override" /\ g.allow = V!Every /\ g.guarded = TRUE /\ g.drops = TRUE
        BY DEF V!WithReservedKeyFilter, V!Own
      <4>. QED
        BY <2>1, <3>3, <4>1, <4>2 DEF V!SDKStreams
    <3>. QED
      BY <3>2, <3>3
  <2>2. CASE ~V!Overridden(inst)
    <3>1. V!ApplyHistogramBucketOverrides(inst) = {}
      BY <1>1, <2>2 DEF V!ApplyHistogramBucketOverrides, V!UnclaimedBucketOverride
    <3>2. CASE ~pull
      <4>. DEFINE d == V!Own(0, "sdk", "default", FALSE)
      <4>1. V!SDKStreams(V!Views(inst)) = {d} /\ V!Views(inst) = {}
        BY <3>1, <3>2 DEF V!Views, V!SDKStreams
      <4>2. d.agg = "default" /\ d.allow = V!Every /\ d.guarded = FALSE
        BY DEF V!Own
      <4>. QED
        BY <2>2, <3>2, <4>1, <4>2
    <3>3. CASE pull
      <4>. DEFINE c == V!Own(V!CatchAllPlace, "catchAll", "default", TRUE)
      <4>1. V!Views(inst) = {c}
        BY <3>1, <3>3 DEF V!Views, V!GuardReservedKeys, V!CatchAllReservedKeyFilter
      <4>2. c.agg = "default" /\ c.allow = V!Every /\ c.guarded = TRUE /\ c.drops = TRUE
        BY DEF V!Own
      <4>. QED
        BY <2>2, <3>3, <4>1, <4>2 DEF V!SDKStreams
    <3>. QED
      BY <3>2, <3>3
  <2>. QED
    BY <2>1, <2>2
<1>3. ~pull => V!Kept(s, attrs) = attrs
  BY <1>2 DEF V!Kept, V!Is
<1>4. Cardinality(V!Views(inst)) <= 1
  <2>1. V!Views(inst) = {} \/ V!Views(inst) = {s}
    BY <1>2
  <2>. QED
    BY <2>1, AtMostOne, Zenon
<1>. QED
  BY <1>2, <1>3, <1>4, AtMostOne, Guarded DEF StreamGood

LEMMA ClaimedStream ==
  ASSUME NEW inst, NEW attrs, NEW v \in V!Configured, V!Matches(v, inst)
  PROVE  StreamGood(inst, attrs, V!Views(inst), V!SDKStreams(V!Views(inst)))
<1>1. {w \in V!Configured : V!Matches(w, inst)} = {v}
  BY OneView
<1>. DEFINE c == [at |-> V!Place(v), of |-> v.scope, agg |-> v.agg, allow |-> v.allow, guarded |-> FALSE, drops |-> v.drops]
           o == V!WithBucketOverride(c, inst)
           g == IF pull THEN V!WithReservedKeyFilter(o) ELSE o
<1>2. V!Claimed(inst) = {c}
  BY <1>1 DEF V!Claimed
<1>3. V!ApplyHistogramBucketOverrides(inst) = {o}
  BY <1>2 DEF V!ApplyHistogramBucketOverrides, V!UnclaimedBucketOverride
<1>4. V!Views(inst) = {g}
  BY <1>3 DEF V!Views, V!GuardReservedKeys, V!CatchAllReservedKeyFilter
<1>5. /\ o.agg = (IF V!Overridden(inst) /\ v.agg # "drop" THEN "override" ELSE v.agg)
      /\ o.allow = v.allow /\ o.guarded = FALSE
  BY DEF V!WithBucketOverride
<1>6. g.agg = o.agg /\ g.allow = o.allow /\ (pull => g.guarded = TRUE /\ g.drops = TRUE)
  BY DEF V!WithReservedKeyFilter, V!WithBucketOverride
<1>. HIDE DEF g, o
<1>7. V!SDKStreams(V!Views(inst)) = IF v.agg = "drop" THEN {} ELSE {g}
  BY <1>4, <1>5, <1>6 DEF V!SDKStreams
<1>8. \A w \in V!Configured : V!Matches(w, inst) => w = v
  BY <1>1
<1>9. inst.name \in RpcNames => inst.unit = "s"
  <2>1. v.name = inst.name /\ V!Is(inst.unit, v.unit)
    BY DEF V!Matches
  <2>2. inst.name \in RpcNames => v.unit = {"s"}
    BY <2>1, OneView
  <2>. QED
    BY <2>1, <2>2 DEF V!Is, V!Every
<1>10. Cardinality(V!Views(inst)) <= 1
  BY <1>4, AtMostOne
<1>. QED
  BY <1>5, <1>6, <1>7, <1>8, <1>9, <1>10, AtMostOne, Guarded DEF StreamGood

-----------------------------------------------------------------------------
(***************************************************************************)
(* Keys in order.  Before orders the keys totally, so a key's place is the *)
(* number of those before it.                                              *)
(***************************************************************************)

LEMMA LeastNumber ==
  ASSUME NEW S, S \subseteq Nat, S # {} PROVE \E m \in S : \A k \in S : m <= k
<1>1. \A k, m \in Nat : k < m => <<k, m>> \in OpToRel(<, Nat)
  BY Zenon DEF OpToRel
<1>2. PICK m \in S : \A k \in S : <<k, m>> \notin OpToRel(<, Nat)
  BY NatLessThanWellFounded, WFMin, Zenon
<1>3. \A k \in S : ~(k < m)
  BY <1>1, <1>2, Zenon
<1>. QED
  BY <1>3

LEMMA AlphabetSize == DOMAIN O!Alphabet = 1..18
  BY SMTT(60) DEF O!Alphabet

LEMMA RankOf ==
  ASSUME NEW c \in {O!Alphabet[i] : i \in DOMAIN O!Alphabet}
  PROVE  O!Rank(c) \in Nat /\ O!Alphabet[O!Rank(c)] = c
<1>1. DOMAIN O!Alphabet \subseteq Nat
  BY AlphabetSize
<1>2. \E i \in DOMAIN O!Alphabet : O!Alphabet[i] = c
  OBVIOUS
<1>3. O!Rank(c) \in DOMAIN O!Alphabet /\ O!Alphabet[O!Rank(c)] = c
  BY <1>2 DEF O!Rank
<1>. QED
  BY <1>1, <1>3

Chars == {O!Alphabet[i] : i \in DOMAIN O!Alphabet}

LEMMA KeyChars ==
  ASSUME NEW a \in O!Keys
  PROVE  /\ Len(a) \in Nat /\ DOMAIN a = 1..Len(a)
         /\ \A i \in 1..Len(a) : a[i] \in Chars
         /\ \A b \in O!Keys : Len(a) = Len(b) /\ (\A i \in 1..Len(a) : a[i] = b[i]) => a = b
<1>1. O!Keys = Seq(Chars)
  BY DEF O!Keys, Chars
<1>. QED
  BY <1>1

LEMMA BeforeIrreflexive == ASSUME NEW a \in O!Keys PROVE ~O!Before(a, a)
<1>1. \A i \in 1..Len(a) : i <= Len(a) /\ O!Rank(a[i]) \in Nat
  BY KeyChars, RankOf DEF Chars
<1>. QED
  BY <1>1, KeyChars DEF O!Before

LEMMA BeforeTotal ==
  ASSUME NEW a \in O!Keys, NEW b \in O!Keys, a # b PROVE O!Before(a, b) \/ O!Before(b, a)
<1>. DEFINE differ == {i \in Nat : i >= 1 /\ ~(i <= Len(a) /\ i <= Len(b) /\ a[i] = b[i])}
<1>1. Len(a) \in Nat /\ Len(b) \in Nat
  BY KeyChars
<1>2. Len(a) + 1 \in differ
  BY <1>1
<1>3. PICK i \in differ : \A j \in differ : i <= j
  BY <1>2, LeastNumber
<1>4. i \in Nat /\ i >= 1 /\ ~(i <= Len(a) /\ i <= Len(b) /\ a[i] = b[i])
  OBVIOUS
<1>5. \A j \in 1..(i - 1) : j <= Len(a) /\ j <= Len(b) /\ a[j] = b[j]
  BY <1>3, <1>4
<1>6. CASE i > Len(a) /\ i > Len(b)
  <2>1. Len(a) = i - 1 /\ Len(b) = i - 1
    BY <1>1, <1>4, <1>5, <1>6
  <2>. QED
    BY <1>1, <1>4, <1>5, <2>1, KeyChars
<1>7. CASE i > Len(a) /\ i <= Len(b)
  BY <1>1, <1>4, <1>5, <1>7 DEF O!Before
<1>8. CASE i <= Len(a) /\ i > Len(b)
  BY <1>1, <1>4, <1>5, <1>8 DEF O!Before
<1>9. CASE i <= Len(a) /\ i <= Len(b)
  <2>1. a[i] \in Chars /\ b[i] \in Chars /\ a[i] # b[i] /\ i \in 1..Len(a) /\ i \in 1..Len(b)
    BY <1>1, <1>4, <1>9, KeyChars
  <2>2. O!Rank(a[i]) < O!Rank(b[i]) \/ O!Rank(b[i]) < O!Rank(a[i])
    BY <2>1, RankOf DEF Chars
  <2>. QED
    BY <1>5, <2>1, <2>2 DEF O!Before
<1>. QED
  BY <1>1, <1>4, <1>6, <1>7, <1>8, <1>9

LEMMA BeforeTransitive ==
  ASSUME NEW a \in O!Keys, NEW b \in O!Keys, NEW c \in O!Keys, O!Before(a, b), O!Before(b, c)
  PROVE  O!Before(a, c)
<1>1. Len(a) \in Nat /\ Len(b) \in Nat /\ Len(c) \in Nat
  BY KeyChars
<1>2. PICK i \in 1..Len(b) : /\ \A j \in 1..(i - 1) : j <= Len(a) /\ a[j] = b[j]
                             /\ i <= Len(a) => O!Rank(a[i]) < O!Rank(b[i])
  BY DEF O!Before
<1>3. PICK k \in 1..Len(c) : /\ \A j \in 1..(k - 1) : j <= Len(b) /\ b[j] = c[j]
                             /\ k <= Len(b) => O!Rank(b[k]) < O!Rank(c[k])
  BY DEF O!Before
<1>4. CASE i < k
  <2>1. i \in 1..(k - 1) /\ i \in 1..Len(c) /\ b[i] = c[i]
    BY <1>1, <1>2, <1>3, <1>4
  <2>2. \A j \in 1..(i - 1) : j <= Len(a) /\ a[j] = c[j]
    BY <1>1, <1>2, <1>3, <1>4
  <2>. QED
    BY <1>2, <2>1, <2>2 DEF O!Before
<1>5. CASE k < i
  <2>1. k <= Len(a) /\ k <= Len(b) /\ a[k] = b[k]
    BY <1>1, <1>2, <1>3, <1>5
  <2>2. \A j \in 1..(k - 1) : j <= Len(a) /\ a[j] = c[j]
    BY <1>1, <1>2, <1>3, <1>5
  <2>. QED
    BY <1>3, <2>1, <2>2 DEF O!Before
<1>6. CASE k = i
  <2>1. k <= Len(b)
    BY <1>1, <1>2, <1>6
  <2>2. \A j \in 1..(k - 1) : j <= Len(a) /\ a[j] = c[j]
    BY <1>1, <1>2, <1>3, <1>6
  <2>3. ASSUME k <= Len(a) PROVE O!Rank(a[k]) < O!Rank(c[k])
    <3>1. O!Rank(a[k]) < O!Rank(b[k]) /\ O!Rank(b[k]) < O!Rank(c[k])
      BY <1>2, <1>3, <1>6, <2>1, <2>3
    <3>2. O!Rank(a[k]) \in Nat /\ O!Rank(b[k]) \in Nat /\ O!Rank(c[k]) \in Nat
      BY <1>1, <1>3, <2>1, <2>3, KeyChars, RankOf DEF Chars
    <3>. QED
      BY <3>1, <3>2
  <2>. QED
    BY <1>3, <2>2, <2>3 DEF O!Before
<1>. QED
  BY <1>1, <1>2, <1>3, <1>4, <1>5, <1>6

\* The place of a key of a set is its own, and every place is taken.
Place(keys, k) == Cardinality({j \in keys : O!Before(j, k)})

LEMMA Places ==
  ASSUME NEW keys, IsFiniteSet(keys), keys \subseteq O!Keys
  PROVE  /\ Cardinality(keys) \in Nat
         /\ \A a, b \in keys : Place(keys, a) = Place(keys, b) => a = b
         /\ \A i \in 1..Cardinality(keys) : \E k \in keys : Place(keys, k) = i - 1
         /\ \A k \in keys : Place(keys, k) + 1 \in 1..Cardinality(keys)
<1>. DEFINE n == Cardinality(keys)
           P(k) == {j \in keys : O!Before(j, k)}
<1>1. n \in Nat
  BY FS_CardinalityType
<1>2. ASSUME NEW k \in keys PROVE IsFiniteSet(P(k)) /\ Place(keys, k) \in 0..(n - 1)
  <2>1. IsFiniteSet(keys \ {k}) /\ Cardinality(keys \ {k}) = n - 1
    BY FS_RemoveElement
  <2>2. P(k) \subseteq keys \ {k}
    BY BeforeIrreflexive
  <2>3. IsFiniteSet(P(k)) /\ Cardinality(P(k)) <= n - 1
    BY <2>1, <2>2, FS_Subset
  <2>4. Cardinality(P(k)) \in Nat
    BY <2>3, FS_CardinalityType
  <2>. QED
    BY <1>1, <2>3, <2>4 DEF Place
<1>3. ASSUME NEW a \in keys, NEW b \in keys, O!Before(a, b) PROVE Place(keys, a) < Place(keys, b)
  <2>1. P(a) \subseteq P(b)
    BY <1>3, BeforeTransitive
  <2>2. a \in P(b) /\ a \notin P(a)
    BY <1>3, BeforeIrreflexive
  <2>3. Cardinality(P(a)) <= Cardinality(P(b)) /\ (Cardinality(P(a)) = Cardinality(P(b)) => P(a) = P(b))
    BY <1>2, <2>1, FS_Subset
  <2>4. Cardinality(P(a)) \in Nat /\ Cardinality(P(b)) \in Nat
    BY <1>2, FS_CardinalityType
  <2>. QED
    BY <2>2, <2>3, <2>4 DEF Place
<1>4. \A a, b \in keys : Place(keys, a) = Place(keys, b) => a = b
  <2>1. \A a, b \in keys : a # b => Place(keys, a) < Place(keys, b) \/ Place(keys, b) < Place(keys, a)
    BY <1>3, BeforeTotal
  <2>2. ASSUME NEW k \in keys PROVE Place(keys, k) \in Int
    <3>1. Place(keys, k) \in 0..(n - 1)
      BY <1>2
    <3>. QED
      BY <1>1, <3>1
  <2>. QED
    BY <2>1, <2>2
<1>5. \A i \in 1..n : \E k \in keys : Place(keys, k) = i - 1
  <2>. DEFINE f == [k \in keys |-> Place(keys, k)]
             T == 0..(n - 1)
  <2>1. f \in Injection(keys, T)
    BY <1>2, <1>4 DEF Injection, IsInjective
  <2>2. IsFiniteSet(T) /\ Cardinality(T) = n
    BY <1>1, FS_Interval
  <2>3. f \in Surjection(keys, T)
    BY <2>1, <2>2, FS_Injection
  <2>4. \A t \in T : \E k \in keys : f[k] = t
    BY <2>3 DEF Surjection
  <2>. QED
    BY <1>1, <2>4
<1>6. ASSUME NEW k \in keys PROVE Place(keys, k) + 1 \in 1..n
  <2>1. Place(keys, k) \in 0..(n - 1)
    BY <1>2
  <2>. QED
    BY <1>1, <2>1
<1>. QED
  BY <1>1, <1>4, <1>5, <1>6

LEMMA ListOf ==
  ASSUME NEW n \in Nat, NEW S, NEW s, s = [i \in 1..n |-> s[i]], \A i \in 1..n : s[i] \in S
  PROVE  s \in Seq(S) /\ Len(s) = n
<1>1. s \in [1..n -> S]
  OBVIOUS
<1>. QED
  BY <1>1

LEMMA SameCardinality == ASSUME NEW S PROVE O!Cardinality(S) = Cardinality(S) /\ V!Cardinality(S) = Cardinality(S)
  BY DEF O!Cardinality, V!Cardinality, Cardinality

LEMMA SortedAll ==
  ASSUME NEW keys, IsFiniteSet(keys), keys \subseteq O!Keys
  PROVE  /\ O!Sorted(keys) \in Seq(keys)
         /\ \A k \in keys : \E i \in 1..Len(O!Sorted(keys)) : O!Sorted(keys)[i] = k
         /\ V!Sorted(keys) \in Seq(keys)
         /\ \A k \in keys : \E i \in 1..Len(V!Sorted(keys)) : V!Sorted(keys)[i] = k
<1>. DEFINE n == Cardinality(keys)
<1>1. /\ n \in Nat
      /\ \A a, b \in keys : Place(keys, a) = Place(keys, b) => a = b
      /\ \A i \in 1..n : \E k \in keys : Place(keys, k) = i - 1
      /\ \A k \in keys : Place(keys, k) + 1 \in 1..n /\ Place(keys, k) \in Nat
  <2>1. \A k \in keys : Place(keys, k) + 1 \in 1..n
    BY Places
  <2>2. \A k \in keys : Place(keys, k) \in Nat
    <3>1. \A k \in keys : IsFiniteSet({j \in keys : O!Before(j, k)})
      BY FS_Subset
    <3>. QED
      BY <3>1, FS_CardinalityType DEF Place
  <2>. QED
    BY <2>1, <2>2, Places
<1>2. ASSUME NEW s, s = [i \in 1..n |-> s[i]], \A i \in 1..n : s[i] \in keys /\ Place(keys, s[i]) = i - 1
      PROVE  s \in Seq(keys) /\ \A k \in keys : \E i \in 1..Len(s) : s[i] = k
  <2>1. \A i \in 1..n : s[i] \in keys /\ Place(keys, s[i]) = i - 1
    BY <1>2
  <2>2. s \in Seq(keys) /\ Len(s) = n
    BY <1>1, <1>2, <2>1, ListOf
  <2>3. ASSUME NEW k \in keys PROVE s[Place(keys, k) + 1] = k
    <3>1. PICK p : p = Place(keys, k) + 1
      OBVIOUS
    <3>2. p \in 1..n /\ p - 1 = Place(keys, k)
      BY <1>1, <3>1
    <3>3. s[p] \in keys /\ Place(keys, s[p]) = Place(keys, k)
      BY <2>1, <3>2
    <3>. QED
      BY <1>1, <3>1, <3>3
  <2>. QED
    BY <1>1, <2>2, <2>3
<1>3. ASSUME NEW i \in 1..n
      PROVE  /\ O!Sorted(keys)[i] \in keys /\ Place(keys, O!Sorted(keys)[i]) = i - 1
             /\ V!Sorted(keys)[i] \in keys /\ Place(keys, V!Sorted(keys)[i]) = i - 1
  <2>1. PICK k \in keys : Place(keys, k) = i - 1
    BY <1>1
  <2>2. \A c : V!Rank(c) = O!Rank(c)
    BY DEF V!Rank, O!Rank, V!Alphabet, O!Alphabet
  <2>3. \A a, b : V!Before(a, b) <=> O!Before(a, b)
    BY <2>2 DEF V!Before, O!Before
  <2>4. \A x : {j \in keys : V!Before(j, x)} = {j \in keys : O!Before(j, x)}
    BY <2>3
  <2>5. \A x : Cardinality({j \in keys : V!Before(j, x)}) = Place(keys, x)
    BY <2>4 DEF Place
  <2>6. O!Sorted(keys)[i] = CHOOSE x \in keys : O!Cardinality({j \in keys : O!Before(j, x)}) = i - 1
    BY SameCardinality, Zenon DEF O!Sorted
  <2>7. V!Sorted(keys)[i] = CHOOSE x \in keys : V!Cardinality({j \in keys : V!Before(j, x)}) = i - 1
    BY SameCardinality, Zenon DEF V!Sorted
  <2>8. \E x \in keys : V!Cardinality({j \in keys : V!Before(j, x)}) = i - 1
    BY <2>1, <2>5, SameCardinality
  <2>9. \E x \in keys : O!Cardinality({j \in keys : O!Before(j, x)}) = i - 1
    BY <2>1, SameCardinality DEF Place
  <2>10. O!Sorted(keys)[i] \in keys /\ O!Cardinality({j \in keys : O!Before(j, O!Sorted(keys)[i])}) = i - 1
    BY <2>6, <2>9, Zenon
  <2>11. V!Sorted(keys)[i] \in keys /\ V!Cardinality({j \in keys : V!Before(j, V!Sorted(keys)[i])}) = i - 1
    BY <2>7, <2>8, Zenon
  <2>. QED
    BY <2>5, <2>10, <2>11, SameCardinality DEF Place
<1>4. O!Sorted(keys) = [i \in 1..n |-> O!Sorted(keys)[i]] /\ V!Sorted(keys) = [i \in 1..n |-> V!Sorted(keys)[i]]
  <2>1. O!Sorted(keys) = [i \in 1..O!Cardinality(keys) |-> O!Sorted(keys)[i]]
    <3>. DEFINE e(i) == CHOOSE k \in keys : O!Cardinality({j \in keys : O!Before(j, k)}) = i - 1
    <3>1. O!Sorted(keys) = [i \in 1..O!Cardinality(keys) |-> e(i)]
      BY DEF O!Sorted
    <3>. HIDE DEF e
    <3>. QED
      BY <3>1
  <2>2. V!Sorted(keys) = [i \in 1..V!Cardinality(keys) |-> V!Sorted(keys)[i]]
    <3>. DEFINE e(i) == CHOOSE k \in keys : V!Cardinality({j \in keys : V!Before(j, k)}) = i - 1
    <3>1. V!Sorted(keys) = [i \in 1..V!Cardinality(keys) |-> e(i)]
      BY DEF V!Sorted
    <3>. HIDE DEF e
    <3>. QED
      BY <3>1
  <2>. QED
    BY <2>1, <2>2, SameCardinality
<1>. QED
  BY <1>2, <1>3, <1>4

-----------------------------------------------------------------------------
(***************************************************************************)
(* The first key of every label.  The pass over the keys in order is a     *)
(* recursive function: there is one, and what it holds after i keys is     *)
(* shown from what it holds after i - 1.                                   *)
(***************************************************************************)

\* One key of the pass, the labels as a relation of the keys.
PassStep(kept, k, fit, same) ==
  IF k \in fit /\ \A i \in DOMAIN kept : <<kept[i], k>> \notin same THEN Append(kept, k) ELSE kept

IsPass(g, order, n, fit, same) ==
  g = [i \in 0..n |-> IF i = 0 THEN <<>> ELSE PassStep(g[i - 1], order[i], fit, same)]

LEMMA PassExists == ASSUME NEW order, NEW fit, NEW same, NEW n \in Nat PROVE \E g : IsPass(g, order, n, fit, same)
<1>. DEFINE bad == {m \in Nat : ~\E g : IsPass(g, order, m, fit, same)}
<1>1. SUFFICES ASSUME bad # {} PROVE FALSE
  BY Zenon
<1>2. PICK m \in bad : \A k \in bad : m <= k
  BY <1>1, LeastNumber
<1>3. m \in Nat /\ ~\E g : IsPass(g, order, m, fit, same)
  OBVIOUS
<1>. HIDE DEF bad
<1>4. m # 0
  <2>1. IsPass([i \in 0..0 |-> <<>>], order, 0, fit, same)
    BY DEF IsPass
  <2>. QED
    BY <1>3, <2>1
<1>5. PICK h : IsPass(h, order, m - 1, fit, same)
  BY <1>2, <1>3, <1>4 DEF bad
<1>6. PICK last : last = PassStep(h[m - 1], order[m], fit, same)
  OBVIOUS
<1>7. PICK g : g = [i \in 0..m |-> IF i = m THEN last ELSE h[i]]
  OBVIOUS
<1>8. \A i \in 0..(m - 1) : h[i] = IF i = 0 THEN <<>> ELSE PassStep(h[i - 1], order[i], fit, same)
  BY <1>5 DEF IsPass
<1>9. \A i \in 0..m : i # m => i \in 0..(m - 1) /\ g[i] = h[i]
  BY <1>3, <1>7
<1>10. ASSUME NEW i \in 0..m PROVE g[i] = IF i = 0 THEN <<>> ELSE PassStep(g[i - 1], order[i], fit, same)
  <2>1. CASE i = m
    <3>1. g[m] = last /\ g[m - 1] = h[m - 1]
      BY <1>3, <1>4, <1>7
    <3>. QED
      BY <1>4, <1>6, <2>1, <3>1
  <2>2. CASE i # m
    <3>1. g[i] = h[i] /\ (i # 0 => g[i - 1] = h[i - 1])
      BY <1>3, <1>7, <2>2
    <3>. QED
      BY <1>8, <1>9, <2>2, <3>1
  <2>. QED
    BY <2>1, <2>2
<1>11. IsPass(g, order, m, fit, same)
  <2>1. g = [i \in 0..m |-> g[i]]
    BY <1>7
  <2>. QED
    BY <1>10, <2>1 DEF IsPass
<1>. QED
  BY <1>3, <1>11

\* What the pass holds after the first i keys.
PassHolds(q, order, i, S, fit, same) ==
  /\ q \in Seq(S)
  /\ \A a \in DOMAIN q : q[a] \in fit
  /\ \A a, b \in DOMAIN q : a # b => <<q[a], q[b]>> \notin same
  /\ \A j \in 1..i : order[j] \in fit => \E a \in DOMAIN q : <<q[a], order[j]>> \in same

SameOf(same, S) ==
  /\ \A a \in S : <<a, a>> \in same
  /\ \A a, b \in S : <<a, b>> \in same => <<b, a>> \in same

LEMMA PassStepHolds ==
  ASSUME NEW S, NEW fit, NEW same, SameOf(same, S), NEW order, NEW i \in Nat, order[i + 1] \in S,
         NEW q, PassHolds(q, order, i, S, fit, same)
  PROVE  PassHolds(PassStep(q, order[i + 1], fit, same), order, i + 1, S, fit, same)
<1>. DEFINE k == order[i + 1]
<1>0. q \in Seq(S) /\ DOMAIN q = 1..Len(q) /\ Len(q) \in Nat
  BY DEF PassHolds
<1>1. \A j \in 1..(i + 1) : j \in 1..i \/ j = i + 1
  OBVIOUS
<1>2. CASE k \in fit /\ \A a \in DOMAIN q : <<q[a], k>> \notin same
  <2>. DEFINE r == Append(q, k)
  <2>1. PassStep(q, k, fit, same) = r
    BY <1>2 DEF PassStep
  <2>2. r \in Seq(S) /\ DOMAIN r = 1..(Len(q) + 1) /\ r[Len(q) + 1] = k /\ \A a \in DOMAIN q : r[a] = q[a]
    BY <1>0
  <2>3. \A a \in DOMAIN r : a \in DOMAIN q \/ a = Len(q) + 1
    BY <1>0, <2>2
  <2>4. \A a \in DOMAIN q : a \in DOMAIN r /\ q[a] \in S
    BY <1>0, <2>2
  <2>. HIDE DEF r, k
  <2>5. \A a \in DOMAIN r : r[a] \in fit
    BY <1>2, <2>2, <2>3 DEF PassHolds
  <2>6. \A a, b \in DOMAIN r : a # b => <<r[a], r[b]>> \notin same
    <3>. SUFFICES ASSUME NEW a \in DOMAIN r, NEW b \in DOMAIN r, a # b, <<r[a], r[b]>> \in same PROVE FALSE
      OBVIOUS
    <3>1. CASE a \in DOMAIN q /\ b \in DOMAIN q
      BY <2>2, <3>1 DEF PassHolds
    <3>2. CASE a \in DOMAIN q /\ b = Len(q) + 1
      BY <1>2, <2>2, <3>2
    <3>3. CASE a = Len(q) + 1 /\ b \in DOMAIN q
      <4>1. r[a] = k /\ r[b] = q[b] /\ q[b] \in S /\ k \in S
        BY <2>2, <2>4, <3>3 DEF k
      <4>. QED
        BY <1>2, <3>3, <4>1 DEF SameOf
    <3>. QED
      BY <2>3, <3>1, <3>2, <3>3
  <2>7. \A j \in 1..(i + 1) : order[j] \in fit => \E a \in DOMAIN r : <<r[a], order[j]>> \in same
    <3>1. ASSUME NEW j \in 1..i, order[j] \in fit PROVE \E a \in DOMAIN r : <<r[a], order[j]>> \in same
      <4>1. PICK a \in DOMAIN q : <<q[a], order[j]>> \in same
        BY <3>1 DEF PassHolds
      <4>. QED
        BY <2>2, <2>4, <4>1
    <3>2. Len(q) + 1 \in DOMAIN r /\ <<r[Len(q) + 1], order[i + 1]>> \in same
      BY <1>0, <2>2 DEF SameOf, k
    <3>. QED
      BY <1>1, <3>1, <3>2
  <2>. QED
    BY <2>1, <2>2, <2>5, <2>6, <2>7 DEF PassHolds, k
<1>3. CASE ~(k \in fit /\ \A a \in DOMAIN q : <<q[a], k>> \notin same)
  <2>1. PassStep(q, k, fit, same) = q
    BY <1>3 DEF PassStep
  <2>2. \A j \in 1..(i + 1) : order[j] \in fit => \E a \in DOMAIN q : <<q[a], order[j]>> \in same
    BY <1>1, <1>3 DEF PassHolds
  <2>. QED
    BY <2>1, <2>2 DEF PassHolds
<1>. QED
  BY <1>2, <1>3

\* By the least number of keys after which it does not.
LEMMA PassEnds ==
  ASSUME NEW S, NEW fit, NEW same, SameOf(same, S), NEW order \in Seq(S), NEW g, g[0] = <<>>,
         \A i \in 1..Len(order) : g[i - 1] \in Seq(S) => g[i] = PassStep(g[i - 1], order[i], fit, same)
  PROVE  \A i \in 0..Len(order) : PassHolds(g[i], order, i, S, fit, same)
<1>. DEFINE bad == {i \in 0..Len(order) : ~PassHolds(g[i], order, i, S, fit, same)}
<1>1. SUFFICES ASSUME bad # {} PROVE FALSE
  OBVIOUS
<1>2. PICK m \in bad : \A k \in bad : m <= k
  <2>1. bad \subseteq Nat
    OBVIOUS
  <2>. HIDE DEF bad
  <2>. QED
    BY <1>1, <2>1, LeastNumber
<1>3. m \in 0..Len(order) /\ ~PassHolds(g[m], order, m, S, fit, same)
  OBVIOUS
<1>4. m # 0
  <2>1. PassHolds(<<>>, order, 0, S, fit, same)
    BY DEF PassHolds
  <2>. QED
    BY <1>3, <2>1
<1>5. m - 1 \in 0..Len(order) /\ m \in 1..Len(order) /\ m - 1 \in Nat /\ m - 1 + 1 = m /\ order[m] \in S
  BY <1>3, <1>4
<1>6. PassHolds(g[m - 1], order, m - 1, S, fit, same)
  <2>1. m - 1 \notin bad
    BY <1>2, <1>3, <1>4
  <2>. QED
    BY <1>5, <2>1
<1>7. g[m] = PassStep(g[m - 1], order[m], fit, same)
  BY <1>5, <1>6 DEF PassHolds
<1>. QED
  BY <1>3, <1>5, <1>6, <1>7, PassStepHolds

\* All of it, for the keys of a set: what fits, no label twice, none left out.
KeptFirst(kept, keys, fit, same) ==
  /\ kept \in Seq(keys)
  /\ \A a \in DOMAIN kept : kept[a] \in fit
  /\ \A a, b \in DOMAIN kept : a # b => <<kept[a], kept[b]>> \notin same
  /\ \A k \in keys : k \in fit => \E a \in DOMAIN kept : <<kept[a], k>> \in same

LEMMA KeepFirstO ==
  ASSUME NEW keys, IsFiniteSet(keys), keys \subseteq O!Keys, NEW fit, NEW same,
         \A a, b \in keys : <<a, b>> \in same <=> O!SameLabel(a, b)
  PROVE  KeptFirst(O!KeepFirst(keys, fit), keys, fit, same)
<1>. DEFINE order == O!Sorted(keys)
           n == Len(order)
           Is(g) == g = [i \in 0..n |-> IF i = 0 THEN <<>> ELSE O!KeepStep(g[i - 1], order[i], fit)]
           f == CHOOSE g : Is(g)
<1>1. order \in Seq(keys) /\ \A k \in keys : \E i \in 1..n : order[i] = k
  BY SortedAll
<1>2. SameOf(same, keys)
  BY DEF SameOf, O!SameLabel
<1>3. O!KeepFirst(keys, fit) = f[n]
  BY Zenon DEF O!KeepFirst
<1>. HIDE DEF order
<1>4. \A q \in Seq(keys) : \A k \in keys : O!KeepStep(q, k, fit) = PassStep(q, k, fit, same)
  <2>. SUFFICES ASSUME NEW q \in Seq(keys), NEW k \in keys PROVE O!KeepStep(q, k, fit) = PassStep(q, k, fit, same)
    OBVIOUS
  <2>1. \A i \in DOMAIN q : <<q[i], k>> \in same <=> O!SameLabel(q[i], k)
    OBVIOUS
  <2>. QED
    BY <2>1 DEF O!KeepStep, PassStep
<1>5. n \in Nat /\ \A i \in 1..n : order[i] \in keys
  BY <1>1
<1>6. PICK h : IsPass(h, order, n, fit, same)
  BY <1>5, PassExists
<1>7. /\ h = [i \in 0..n |-> h[i]] /\ h[0] = <<>>
      /\ \A i \in 1..n : h[i] = PassStep(h[i - 1], order[i], fit, same)
  <2>1. \A i \in 0..n : h[i] = IF i = 0 THEN <<>> ELSE PassStep(h[i - 1], order[i], fit, same)
    BY <1>6 DEF IsPass
  <2>2. h = [i \in 0..n |-> h[i]]
    BY <1>6 DEF IsPass
  <2>3. 0 \in 0..n /\ \A i \in 1..n : i \in 0..n /\ i # 0
    BY <1>5
  <2>. QED
    BY <2>1, <2>2, <2>3
<1>8. \A i \in 0..n : PassHolds(h[i], order, i, keys, fit, same)
  BY <1>1, <1>2, <1>7, PassEnds
<1>9. Is(h)
  <2>1. ASSUME NEW i \in 0..n PROVE h[i] = IF i = 0 THEN <<>> ELSE O!KeepStep(h[i - 1], order[i], fit)
    <3>1. CASE i = 0
      BY <1>7, <3>1
    <3>2. CASE i # 0
      <4>1. i \in 1..n /\ i - 1 \in 0..n
        BY <1>5, <3>2
      <4>2. h[i - 1] \in Seq(keys) /\ order[i] \in keys
        BY <1>5, <1>8, <4>1 DEF PassHolds
      <4>. QED
        BY <1>4, <1>7, <3>2, <4>1, <4>2
    <3>. QED
      BY <3>1, <3>2
  <2>. QED
    BY <1>7, <2>1
<1>10. Is(f)
  BY <1>9, Zenon
<1>11. f[0] = <<>> /\ \A i \in 1..n : f[i] = O!KeepStep(f[i - 1], order[i], fit)
  <2>1. PICK e : e = f
    OBVIOUS
  <2>2. e = [i \in 0..n |-> IF i = 0 THEN <<>> ELSE O!KeepStep(e[i - 1], order[i], fit)]
    BY <1>10, <2>1, Zenon
  <2>3. e[0] = <<>> /\ \A i \in 1..n : e[i] = O!KeepStep(e[i - 1], order[i], fit)
    BY <1>5, <2>2
  <2>. QED
    BY <2>1, <2>3, Zenon
<1>. HIDE DEF f
<1>12. \A i \in 1..n : f[i - 1] \in Seq(keys) => f[i] = PassStep(f[i - 1], order[i], fit, same)
  BY <1>4, <1>5, <1>11
<1>13. \A i \in 0..n : PassHolds(f[i], order, i, keys, fit, same)
  BY <1>1, <1>2, <1>11, <1>12, PassEnds
<1>14. PassHolds(f[n], order, n, keys, fit, same)
  BY <1>5, <1>13
<1>. QED
  BY <1>1, <1>3, <1>14, ZenonT(60) DEF PassHolds, KeptFirst

LEMMA KeepFirstV ==
  ASSUME NEW keys, IsFiniteSet(keys), keys \subseteq O!Keys, NEW fit, NEW same,
         \A a, b \in keys : <<a, b>> \in same <=> V!SameLabel(a, b)
  PROVE  KeptFirst(V!KeepFirst(keys, fit), keys, fit, same)
<1>. DEFINE order == V!Sorted(keys)
           n == Len(order)
           Is(g) == g = [i \in 0..n |-> IF i = 0 THEN <<>> ELSE V!KeepStep(g[i - 1], order[i], fit)]
           f == CHOOSE g : Is(g)
<1>1. order \in Seq(keys) /\ \A k \in keys : \E i \in 1..n : order[i] = k
  BY SortedAll
<1>2. SameOf(same, keys)
  BY DEF SameOf, V!SameLabel
<1>3. V!KeepFirst(keys, fit) = f[n]
  BY Zenon DEF V!KeepFirst
<1>. HIDE DEF order
<1>4. \A q \in Seq(keys) : \A k \in keys : V!KeepStep(q, k, fit) = PassStep(q, k, fit, same)
  <2>. SUFFICES ASSUME NEW q \in Seq(keys), NEW k \in keys PROVE V!KeepStep(q, k, fit) = PassStep(q, k, fit, same)
    OBVIOUS
  <2>1. \A i \in DOMAIN q : <<q[i], k>> \in same <=> V!SameLabel(q[i], k)
    OBVIOUS
  <2>. QED
    BY <2>1 DEF V!KeepStep, PassStep
<1>5. n \in Nat /\ \A i \in 1..n : order[i] \in keys
  BY <1>1
<1>6. PICK h : IsPass(h, order, n, fit, same)
  BY <1>5, PassExists
<1>7. /\ h = [i \in 0..n |-> h[i]] /\ h[0] = <<>>
      /\ \A i \in 1..n : h[i] = PassStep(h[i - 1], order[i], fit, same)
  <2>1. \A i \in 0..n : h[i] = IF i = 0 THEN <<>> ELSE PassStep(h[i - 1], order[i], fit, same)
    BY <1>6 DEF IsPass
  <2>2. h = [i \in 0..n |-> h[i]]
    BY <1>6 DEF IsPass
  <2>3. 0 \in 0..n /\ \A i \in 1..n : i \in 0..n /\ i # 0
    BY <1>5
  <2>. QED
    BY <2>1, <2>2, <2>3
<1>8. \A i \in 0..n : PassHolds(h[i], order, i, keys, fit, same)
  BY <1>1, <1>2, <1>7, PassEnds
<1>9. Is(h)
  <2>1. ASSUME NEW i \in 0..n PROVE h[i] = IF i = 0 THEN <<>> ELSE V!KeepStep(h[i - 1], order[i], fit)
    <3>1. CASE i = 0
      BY <1>7, <3>1
    <3>2. CASE i # 0
      <4>1. i \in 1..n /\ i - 1 \in 0..n
        BY <1>5, <3>2
      <4>2. h[i - 1] \in Seq(keys) /\ order[i] \in keys
        BY <1>5, <1>8, <4>1 DEF PassHolds
      <4>. QED
        BY <1>4, <1>7, <3>2, <4>1, <4>2
    <3>. QED
      BY <3>1, <3>2
  <2>. QED
    BY <1>7, <2>1
<1>10. Is(f)
  BY <1>9, Zenon
<1>11. f[0] = <<>> /\ \A i \in 1..n : f[i] = V!KeepStep(f[i - 1], order[i], fit)
  <2>1. PICK e : e = f
    OBVIOUS
  <2>2. e = [i \in 0..n |-> IF i = 0 THEN <<>> ELSE V!KeepStep(e[i - 1], order[i], fit)]
    BY <1>10, <2>1, Zenon
  <2>3. e[0] = <<>> /\ \A i \in 1..n : e[i] = V!KeepStep(e[i - 1], order[i], fit)
    BY <1>5, <2>2
  <2>. QED
    BY <2>1, <2>3, Zenon
<1>. HIDE DEF f
<1>12. \A i \in 1..n : f[i - 1] \in Seq(keys) => f[i] = PassStep(f[i - 1], order[i], fit, same)
  BY <1>4, <1>5, <1>11
<1>13. \A i \in 0..n : PassHolds(f[i], order, i, keys, fit, same)
  BY <1>1, <1>2, <1>11, <1>12, PassEnds
<1>14. PassHolds(f[n], order, n, keys, fit, same)
  BY <1>5, <1>13
<1>. QED
  BY <1>1, <1>3, <1>14, ZenonT(60) DEF PassHolds, KeptFirst

-----------------------------------------------------------------------------
(***************************************************************************)
(* Measurements and meters.                                                *)
(***************************************************************************)

\* A meter's scope, for the keys it was asked for.
LEMMA ScopeKept ==
  ASSUME NEW keys \in ScopeAttrs, NEW kept, kept = V!SanitizeScopeAttributes(keys)
  PROVE  /\ V!Range(kept) \subseteq keys
         /\ \A a \in V!Range(kept) : ~V!ScopeLabelTaken(a) /\ \A b \in V!Range(kept) : a # b => ~V!SameLabel(a, b)
         /\ \A a \in keys \ V!Range(kept) : V!ScopeLabelTaken(a) \/ \E b \in V!Range(kept) : V!SameLabel(a, b)
<1>. DEFINE fit == {k \in keys : ~V!ScopeLabelTaken(k)}
           same == {p \in keys \X keys : V!SameLabel(p[1], p[2])}
<1>1. IsFiniteSet(keys) /\ keys \subseteq O!Keys
  BY ScopeAttrsAssumption DEF V!Keys, O!Keys, V!Alphabet, O!Alphabet
<1>2. \A a, b \in keys : <<a, b>> \in same <=> V!SameLabel(a, b)
  OBVIOUS
<1>. HIDE DEF same
<1>3. KeptFirst(kept, keys, fit, same)
  BY <1>1, <1>2, KeepFirstV DEF V!SanitizeScopeAttributes
<1>4. V!Range(kept) = {kept[i] : i \in DOMAIN kept}
  BY DEF V!Range
<1>5. \A i \in DOMAIN kept : kept[i] \in keys /\ kept[i] \in fit
  BY <1>3 DEF KeptFirst
<1>6. ASSUME NEW a \in V!Range(kept) PROVE ~V!ScopeLabelTaken(a) /\ \A b \in V!Range(kept) : a # b => ~V!SameLabel(a, b)
  <2>1. a \in keys /\ a \in fit /\ \A b \in V!Range(kept) : b \in keys
    BY <1>4, <1>5
  <2>2. \A b \in V!Range(kept) : a # b => <<a, b>> \notin same
    BY <1>3, <1>4 DEF KeptFirst
  <2>. QED
    BY <1>2, <2>1, <2>2
<1>7. ASSUME NEW a \in keys \ V!Range(kept), ~V!ScopeLabelTaken(a) PROVE \E b \in V!Range(kept) : V!SameLabel(a, b)
  <2>1. PICK i \in DOMAIN kept : <<kept[i], a>> \in same
    BY <1>3, <1>7 DEF KeptFirst
  <2>2. kept[i] \in V!Range(kept) /\ V!SameLabel(kept[i], a)
    BY <1>2, <1>4, <1>5, <2>1
  <2>. QED
    BY <2>2 DEF V!SameLabel
<1>8. V!Range(kept) \subseteq keys
  BY <1>4, <1>5
<1>. QED
  BY <1>6, <1>7, <1>8

ViewInv ==
  /\ recorded # V!Nothing => /\ recorded.claims = V!Views(recorded.inst)
                             /\ streams = V!SDKStreams(V!Views(recorded.inst))
  /\ meter = V!NoMeter \/ \E keys \in ScopeAttrs : meter.keys = keys /\ meter.kept = V!ScopeOf(keys)

LEMMA ViewMeans == ASSUME ViewInv PROVE V!OneStream /\ V!ScopeLabelsDistinct
<1>1. V!OneStream
  <2>1. ASSUME recorded # V!Nothing PROVE StreamGood(recorded.inst, recorded.attrs, recorded.claims, streams)
    <3>1. recorded.claims = V!Views(recorded.inst) /\ streams = V!SDKStreams(V!Views(recorded.inst))
      BY <2>1 DEF ViewInv
    <3>. QED
      BY <3>1, ClaimedStream, UnclaimedStream
  <2>2. V!Cardinality(streams) = Cardinality(streams) /\ V!Cardinality(recorded.claims) = Cardinality(recorded.claims)
    BY SameCardinality
  <2>. QED
    BY <2>1, <2>2 DEF V!OneStream, StreamGood, RpcNames
<1>2. V!ScopeLabelsDistinct
  <2>1. CASE meter = V!NoMeter
    <3>1. meter.keys = {} /\ meter.kept = {}
      BY <2>1 DEF V!NoMeter
    <3>. QED
      BY <3>1 DEF V!ScopeLabelsDistinct
  <2>2. ASSUME NEW keys \in ScopeAttrs, meter.keys = keys, meter.kept = V!ScopeOf(keys) PROVE V!ScopeLabelsDistinct
    <3>1. CASE pull
      <4>1. meter.kept = V!Range(V!SanitizeScopeAttributes(keys))
        BY <2>2, <3>1 DEF V!ScopeOf
      <4>. QED
        BY <2>2, <3>1, <4>1, ScopeKept DEF V!ScopeLabelsDistinct
    <3>2. CASE ~pull
      <4>1. meter.kept = keys
        BY <2>2, <3>2 DEF V!ScopeOf
      <4>. QED
        BY <2>2, <3>2, <4>1 DEF V!ScopeLabelsDistinct
    <3>. QED
      BY <3>1, <3>2
  <2>. QED
    BY <2>1, <2>2 DEF ViewInv
<1>. QED
  BY <1>1, <1>2

LEMMA ViewsStill ==
  ASSUME UNCHANGED <<pull, disabled, overrides, extra>>, NEW inst
  PROVE  V!SDKStreams(V!Views(inst))' = V!SDKStreams(V!Views(inst)) /\ V!Views(inst)' = V!Views(inst)
  BY DEF V!SDKStreams, V!Views, V!ApplyHistogramBucketOverrides, V!GuardReservedKeys, V!CatchAllReservedKeyFilter,
         V!WithReservedKeyFilter, V!WithBucketOverride, V!UnclaimedBucketOverride, V!Overridden, V!Claimed, V!Matches,
         V!Configured, V!Installed, V!Place, V!DefaultViews

LEMMA ViewStepKeeps == ASSUME ViewInv, V!Next PROVE ViewInv'
<1>1. CASE \E inst \in V!Instruments, attrs \in Measured : V!Record(inst, attrs)
  <2>1. PICK inst \in V!Instruments, attrs \in Measured : V!Record(inst, attrs)
    BY <1>1
  <2>2. /\ recorded'.inst = inst /\ recorded'.claims = V!Views(inst) /\ streams' = V!SDKStreams(V!Views(inst))
        /\ UNCHANGED <<pull, disabled, overrides, extra>> /\ meter' = meter
    BY <2>1 DEF V!Record
  <2>3. streams' = V!SDKStreams(V!Views(inst))' /\ recorded'.claims = V!Views(inst)'
    BY <2>2, ViewsStill
  <2>4. streams' = V!SDKStreams(V!Views(recorded.inst))' /\ recorded'.claims = V!Views(recorded.inst)'
    BY <2>2, <2>3
  <2>. QED
    BY <2>2, <2>4 DEF ViewInv, V!NoMeter, V!ScopeOf, V!SanitizeScopeAttributes
<1>2. CASE \E keys \in ScopeAttrs : V!Meter(keys)
  <2>1. PICK keys \in ScopeAttrs : V!Meter(keys)
    BY <1>2
  <2>2. /\ recorded = V!Nothing /\ recorded' = recorded
        /\ meter'.keys = keys /\ meter'.kept = V!ScopeOf(keys) /\ pull' = pull
    BY <2>1 DEF V!Meter, V!Fresh
  <2>. QED
    BY <2>2 DEF ViewInv, V!Nothing, V!NoMeter, V!ScopeOf, V!SanitizeScopeAttributes
<1>. QED
  BY <1>1, <1>2 DEF V!Next

LEMMA ViewStill == ASSUME ViewInv, UNCHANGED viewVars PROVE ViewInv'
<1>1. UNCHANGED <<pull, disabled, overrides, extra, recorded, streams, meter>>
  BY DEF viewVars
<1>2. /\ V!SDKStreams(V!Views(recorded.inst))' = V!SDKStreams(V!Views(recorded.inst))
      /\ V!Views(recorded.inst)' = V!Views(recorded.inst)
  BY <1>1, ViewsStill
<1>. QED
  BY <1>1, <1>2 DEF ViewInv, V!Nothing, V!NoMeter, V!ScopeOf, V!SanitizeScopeAttributes

\* However many integrations are active and whatever is overridden, no two views
\* claim an instrument, it has one stream or a view drops it, and for Prometheus
\* no label of the exporter's; and there the labels of a meter's scope are
\* distinct.
THEOREM StreamsSafe == Spec => []OneStream
<1>. DEFINE Inv == which = "views" => ViewInv
<1>1. Init => Inv
  BY DEF Init, V!Init, ViewInv
<1>2. Inv /\ [Next]_vars => Inv'
  <2>. SUFFICES ASSUME Inv, [Next]_vars PROVE Inv'
    OBVIOUS
  <2>1. CASE which = "views" /\ V!Next /\ UNCHANGED which
    BY <2>1, ViewStepKeeps
  <2>2. CASE UNCHANGED <<which, viewVars>>
    BY <2>2, ViewStill DEF viewVars
  <2>. QED
    BY <2>1, <2>2 DEF Next, vars
<1>3. Inv => OneStream
  BY ViewMeans DEF OneStream
<1>. QED
  BY <1>1, <1>2, <1>3, PTL DEF Spec

-----------------------------------------------------------------------------
(***************************************************************************)
(* The options.  What a Config holds is a function of the options given so *)
(* far, each setting of the last one that says something about it.         *)
(***************************************************************************)

Fields ==
  {"serviceName", "serviceVersion", "namespace", "environment", "logLevel", "profilingEndpoint",
   "metricsOTLPEndpoint", "metricsAddr", "runtimeMetrics", "exemplars", "disableDefaultViews", "userBaggage",
   "otlpEndpoint", "otlpEndpointSet", "otlpHeaders", "profilingAuthHeaders", "sampler", "samplingRatio",
   "samplingRatioSet", "histogramBuckets", "histogramBucketOverrides", "maxUniqueRoutes",
   "maxUniqueCollections", "cardinalityLimit", "resourceAttrs", "extraHTTPServerAttrKeys", "baggageKeys",
   "enabled", "warned"}

Shaped(c) == DOMAIN c = Fields /\ DOMAIN c.enabled = Toggles

Touched(op) ==
  CASE op = "WithServiceName" -> {"serviceName"}
    [] op = "WithServiceVersion" -> {"serviceVersion"}
    [] op = "WithServiceNamespace" -> {"namespace"}
    [] op = "WithEnvironment" -> {"environment"}
    [] op = "WithLogLevel" -> {"logLevel"}
    [] op = "WithProfilingEndpoint" -> {"profilingEndpoint"}
    [] op = "WithMetricsOTLPEndpoint" -> {"metricsOTLPEndpoint"}
    [] op = "WithMetricsAddr" -> {"metricsAddr"}
    [] op = "WithRuntimeMetrics" -> {"runtimeMetrics"}
    [] op = "WithExemplars" -> {"exemplars"}
    [] op = "WithDisableDefaultViews" -> {"disableDefaultViews"}
    [] op = "WithUserBaggage" -> {"userBaggage"}
    [] op \in {"WithTraceEnabled", "WithMetricsEnabled", "WithLogEnabled", "WithProfilingEnabled"} -> {"enabled"}
    [] op = "WithOTLPEndpoint" -> {"otlpEndpoint", "otlpEndpointSet"}
    [] op \in {"WithSamplingRatio", "WithTraceSampler"} -> {"sampler", "samplingRatio", "samplingRatioSet"}
    [] op = "WithOTLPHeaders" -> {"otlpHeaders"}
    [] op = "WithProfilingAuthHeaders" -> {"profilingAuthHeaders"}
    [] op = "WithHistogramBuckets" -> {"histogramBuckets"}
    [] op = "WithInstrumentHistogramBuckets" -> {"histogramBucketOverrides"}
    [] op = "WithMaxUniqueRoutes" -> {"maxUniqueRoutes"}
    [] op = "WithMaxUniqueCollections" -> {"maxUniqueCollections"}
    [] op = "WithCardinalityLimit" -> {"cardinalityLimit"}
    [] op = "WithResourceAttributes" -> {"resourceAttrs", "warned"}
    [] op = "WithExtraHTTPServerAttributeKeys" -> {"extraHTTPServerAttrKeys", "warned"}
    [] op = "WithBaggageAttributes" -> {"baggageKeys", "warned"}

\* An option touches its own fields only.
LEMMA ApplyTouches ==
  ASSUME NEW c, Shaped(c), NEW o, O!IsOption(o)
  PROVE  LET d == O!Apply(c, o) IN Shaped(d) /\ \A f \in Fields \ Touched(o.op) : d[f] = c[f]
<1>1. CASE o.op = "WithServiceName"
  <2>1. O!Apply(c, o) = O!WithServiceName(c, o.v) /\ Touched(o.op) = {"serviceName"}
    BY <1>1 DEF O!Apply, Touched
  <2>. QED
    BY <2>1 DEF O!WithServiceName, Shaped, Fields, Toggles
<1>2. CASE o.op = "WithServiceVersion"
  <2>1. O!Apply(c, o) = O!WithServiceVersion(c, o.v) /\ Touched(o.op) = {"serviceVersion"}
    BY <1>2 DEF O!Apply, Touched
  <2>. QED
    BY <2>1 DEF O!WithServiceVersion, Shaped, Fields, Toggles
<1>3. CASE o.op = "WithServiceNamespace"
  <2>1. O!Apply(c, o) = O!WithServiceNamespace(c, o.v) /\ Touched(o.op) = {"namespace"}
    BY <1>3 DEF O!Apply, Touched
  <2>. QED
    BY <2>1 DEF O!WithServiceNamespace, Shaped, Fields, Toggles
<1>4. CASE o.op = "WithEnvironment"
  <2>1. O!Apply(c, o) = O!WithEnvironment(c, o.v) /\ Touched(o.op) = {"environment"}
    BY <1>4 DEF O!Apply, Touched
  <2>. QED
    BY <2>1 DEF O!WithEnvironment, Shaped, Fields, Toggles
<1>5. CASE o.op = "WithLogLevel"
  <2>1. O!Apply(c, o) = O!WithLogLevel(c, o.v) /\ Touched(o.op) = {"logLevel"}
    BY <1>5 DEF O!Apply, Touched
  <2>. QED
    BY <2>1 DEF O!WithLogLevel, Shaped, Fields, Toggles
<1>6. CASE o.op = "WithProfilingEndpoint"
  <2>1. O!Apply(c, o) = O!WithProfilingEndpoint(c, o.v) /\ Touched(o.op) = {"profilingEndpoint"}
    BY <1>6 DEF O!Apply, Touched
  <2>. QED
    BY <2>1 DEF O!WithProfilingEndpoint, Shaped, Fields, Toggles
<1>7. CASE o.op = "WithMetricsOTLPEndpoint"
  <2>1. O!Apply(c, o) = O!WithMetricsOTLPEndpoint(c, o.v) /\ Touched(o.op) = {"metricsOTLPEndpoint"}
    BY <1>7 DEF O!Apply, Touched
  <2>. QED
    BY <2>1 DEF O!WithMetricsOTLPEndpoint, Shaped, Fields, Toggles
<1>8. CASE o.op = "WithMetricsAddr"
  <2>1. O!Apply(c, o) = O!WithMetricsAddr(c, o.v) /\ Touched(o.op) = {"metricsAddr"}
    BY <1>8 DEF O!Apply, Touched
  <2>. QED
    BY <2>1 DEF O!WithMetricsAddr, Shaped, Fields, Toggles
<1>9. CASE o.op = "WithRuntimeMetrics"
  <2>1. O!Apply(c, o) = O!WithRuntimeMetrics(c, o.v) /\ Touched(o.op) = {"runtimeMetrics"}
    BY <1>9 DEF O!Apply, Touched
  <2>. QED
    BY <2>1 DEF O!WithRuntimeMetrics, Shaped, Fields, Toggles
<1>10. CASE o.op = "WithExemplars"
  <2>1. O!Apply(c, o) = O!WithExemplars(c, o.v) /\ Touched(o.op) = {"exemplars"}
    BY <1>10 DEF O!Apply, Touched
  <2>. QED
    BY <2>1 DEF O!WithExemplars, Shaped, Fields, Toggles
<1>11. CASE o.op = "WithDisableDefaultViews"
  <2>1. O!Apply(c, o) = O!WithDisableDefaultViews(c, o.v) /\ Touched(o.op) = {"disableDefaultViews"}
    BY <1>11 DEF O!Apply, Touched
  <2>. QED
    BY <2>1 DEF O!WithDisableDefaultViews, Shaped, Fields, Toggles
<1>12. CASE o.op = "WithUserBaggage"
  <2>1. O!Apply(c, o) = O!WithUserBaggage(c, o.v) /\ Touched(o.op) = {"userBaggage"}
    BY <1>12 DEF O!Apply, Touched
  <2>. QED
    BY <2>1 DEF O!WithUserBaggage, Shaped, Fields, Toggles
<1>13. CASE o.op = "WithTraceEnabled"
  <2>1. O!Apply(c, o) = O!WithTraceEnabled(c, o.v) /\ Touched(o.op) = {"enabled"}
    BY <1>13 DEF O!Apply, Touched
  <2>. QED
    BY <2>1 DEF O!WithTraceEnabled, Shaped, Fields, Toggles
<1>14. CASE o.op = "WithMetricsEnabled"
  <2>1. O!Apply(c, o) = O!WithMetricsEnabled(c, o.v) /\ Touched(o.op) = {"enabled"}
    BY <1>14 DEF O!Apply, Touched
  <2>. QED
    BY <2>1 DEF O!WithMetricsEnabled, Shaped, Fields, Toggles
<1>15. CASE o.op = "WithLogEnabled"
  <2>1. O!Apply(c, o) = O!WithLogEnabled(c, o.v) /\ Touched(o.op) = {"enabled"}
    BY <1>15 DEF O!Apply, Touched
  <2>. QED
    BY <2>1 DEF O!WithLogEnabled, Shaped, Fields, Toggles
<1>16. CASE o.op = "WithProfilingEnabled"
  <2>1. O!Apply(c, o) = O!WithProfilingEnabled(c, o.v) /\ Touched(o.op) = {"enabled"}
    BY <1>16 DEF O!Apply, Touched
  <2>. QED
    BY <2>1 DEF O!WithProfilingEnabled, Shaped, Fields, Toggles
<1>17. CASE o.op = "WithOTLPEndpoint"
  <2>1. O!Apply(c, o) = O!WithOTLPEndpoint(c, o.v) /\ Touched(o.op) = {"otlpEndpoint", "otlpEndpointSet"}
    BY <1>17 DEF O!Apply, Touched
  <2>. QED
    BY <2>1 DEF O!WithOTLPEndpoint, Shaped, Fields, Toggles
<1>18. CASE o.op = "WithSamplingRatio"
  <2>1. O!Apply(c, o) = O!WithSamplingRatio(c, o.v) /\ Touched(o.op) = {"sampler", "samplingRatio", "samplingRatioSet"}
    BY <1>18 DEF O!Apply, Touched
  <2>. QED
    BY <2>1 DEF O!WithSamplingRatio, Shaped, Fields, Toggles
<1>19. CASE o.op = "WithTraceSampler"
  <2>1. O!Apply(c, o) = O!WithTraceSampler(c, o.v) /\ Touched(o.op) = {"sampler", "samplingRatio", "samplingRatioSet"}
    BY <1>19 DEF O!Apply, Touched
  <2>. QED
    BY <2>1 DEF O!WithTraceSampler, Shaped, Fields, Toggles
<1>20. CASE o.op = "WithOTLPHeaders"
  <2>1. O!Apply(c, o) = O!WithOTLPHeaders(c, o.v) /\ Touched(o.op) = {"otlpHeaders"}
    BY <1>20 DEF O!Apply, Touched
  <2>. QED
    BY <2>1 DEF O!WithOTLPHeaders, Shaped, Fields, Toggles
<1>21. CASE o.op = "WithProfilingAuthHeaders"
  <2>1. O!Apply(c, o) = O!WithProfilingAuthHeaders(c, o.v) /\ Touched(o.op) = {"profilingAuthHeaders"}
    BY <1>21 DEF O!Apply, Touched
  <2>. QED
    BY <2>1 DEF O!WithProfilingAuthHeaders, Shaped, Fields, Toggles
<1>22. CASE o.op = "WithHistogramBuckets"
  <2>1. O!Apply(c, o) = O!WithHistogramBuckets(c, o.v) /\ Touched(o.op) = {"histogramBuckets"}
    BY <1>22 DEF O!Apply, Touched
  <2>. QED
    BY <2>1 DEF O!WithHistogramBuckets, Shaped, Fields, Toggles
<1>23. CASE o.op = "WithInstrumentHistogramBuckets"
  <2>1. O!Apply(c, o) = O!WithInstrumentHistogramBuckets(c, o.v) /\ Touched(o.op) = {"histogramBucketOverrides"}
    BY <1>23 DEF O!Apply, Touched
  <2>. QED
    BY <2>1 DEF O!WithInstrumentHistogramBuckets, Shaped, Fields, Toggles
<1>24. CASE o.op = "WithMaxUniqueRoutes"
  <2>1. O!Apply(c, o) = O!WithMaxUniqueRoutes(c, o.v) /\ Touched(o.op) = {"maxUniqueRoutes"}
    BY <1>24 DEF O!Apply, Touched
  <2>. QED
    BY <2>1 DEF O!WithMaxUniqueRoutes, Shaped, Fields, Toggles
<1>25. CASE o.op = "WithMaxUniqueCollections"
  <2>1. O!Apply(c, o) = O!WithMaxUniqueCollections(c, o.v) /\ Touched(o.op) = {"maxUniqueCollections"}
    BY <1>25 DEF O!Apply, Touched
  <2>. QED
    BY <2>1 DEF O!WithMaxUniqueCollections, Shaped, Fields, Toggles
<1>26. CASE o.op = "WithCardinalityLimit"
  <2>1. O!Apply(c, o) = O!WithCardinalityLimit(c, o.v) /\ Touched(o.op) = {"cardinalityLimit"}
    BY <1>26 DEF O!Apply, Touched
  <2>. QED
    BY <2>1 DEF O!WithCardinalityLimit, Shaped, Fields, Toggles
<1>27. CASE o.op = "WithResourceAttributes"
  <2>1. O!Apply(c, o) = O!WithResourceAttributes(c, o.v) /\ Touched(o.op) = {"resourceAttrs", "warned"}
    BY <1>27 DEF O!Apply, Touched
  <2>. QED
    BY <2>1 DEF O!WithResourceAttributes, O!AppendResourceAttribute, O!Warn, Shaped, Fields, Toggles
<1>28. CASE o.op = "WithExtraHTTPServerAttributeKeys"
  <2>1. O!Apply(c, o) = O!WithExtraHTTPServerAttributeKeys(c, o.v) /\ Touched(o.op) = {"extraHTTPServerAttrKeys", "warned"}
    BY <1>28 DEF O!Apply, Touched
  <2>. QED
    BY <2>1 DEF O!WithExtraHTTPServerAttributeKeys, O!Warn, Shaped, Fields, Toggles
<1>29. CASE o.op = "WithBaggageAttributes"
  <2>1. O!Apply(c, o) = O!WithBaggageAttributes(c, o.v) /\ Touched(o.op) = {"baggageKeys", "warned"}
    BY <1>29 DEF O!Apply, Touched
  <2>. QED
    BY <2>1 DEF O!WithBaggageAttributes, O!Warn, Shaped, Fields, Toggles
<1>. QED
  BY <1>1, <1>2, <1>3, <1>4, <1>5, <1>6, <1>7, <1>8, <1>9, <1>10, <1>11, <1>12, <1>13, <1>14, <1>15, <1>16, <1>17, <1>18, <1>19, <1>20, <1>21, <1>22, <1>23, <1>24, <1>25, <1>26, <1>27, <1>28, <1>29 DEF O!IsOption

\* The options of a list g that are op, those that decide about the sampler,
\* those that name a header, and the last of some places.
PlacesOf(g, op) == {i \in DOMAIN g : g[i].op = op}
Decides(o) == o.op = "WithSamplingRatio" \/ (o.op = "WithTraceSampler" /\ o.v # "nil")
SamplersOf(g) == {i \in DOMAIN g : Decides(g[i])}
NamingOf(g, h) == {i \in PlacesOf(g, "WithOTLPHeaders") : h \in DOMAIN g[i].v}
LastIn(g, S) == g[O!MaxOf(S)]

RatioLast(g) == SamplersOf(g) # {} /\ LastIn(g, SamplersOf(g)).op = "WithSamplingRatio"
SamplerLast(g) == IF SamplersOf(g) = {} \/ RatioLast(g) THEN <<"none">> ELSE <<LastIn(g, SamplersOf(g)).v>>

RatioAgrees(g, c) ==
  /\ c.samplingRatioSet <=> RatioLast(g)
  /\ RatioLast(g) => c.samplingRatio = LastIn(g, SamplersOf(g)).v

EndpointAgrees(g, c) ==
  LET S == PlacesOf(g, "WithOTLPEndpoint")
  IN  /\ c.otlpEndpointSet <=> S # {} /\ O!Trim(LastIn(g, S).v) # ""
      /\ c.otlpEndpoint = IF c.otlpEndpointSet THEN LastIn(g, S).v ELSE "default"

HeadersAgree(g, c) ==
  /\ \A h \in DOMAIN c.otlpHeaders : NamingOf(g, h) # {} /\ c.otlpHeaders[h] = LastIn(g, NamingOf(g, h)).v[h]
  /\ \A i \in PlacesOf(g, "WithOTLPHeaders") : DOMAIN g[i].v \subseteq DOMAIN c.otlpHeaders

ToggleOption == [trace |-> "WithTraceEnabled", metrics |-> "WithMetricsEnabled",
                 log |-> "WithLogEnabled", profiling |-> "WithProfilingEnabled"]

ToggledTo(g, e, p) ==
  IF PlacesOf(g, ToggleOption[p]) # {} THEN LastIn(g, PlacesOf(g, ToggleOption[p])).v
  ELSE e[p] = "true" \/ (p # "profiling" /\ e[p] # "false")

TogglesAgree(g, c, e) == \A p \in Toggles : c.enabled[p] = ToggledTo(g, e, p)

LimitsAgree(g, c) ==
  LET S == PlacesOf(g, "WithCardinalityLimit")
  IN  /\ c.maxUniqueRoutes \in 1..MaxInt /\ c.maxUniqueCollections \in 1..MaxInt
      /\ c.cardinalityLimit \in Int
      /\ S = {} \/ LastIn(g, S).v <= 0 => c.cardinalityLimit = 0
      /\ S # {} /\ LastIn(g, S).v > 0 => c.cardinalityLimit = LastIn(g, S).v

\* The largest of some places.
LEMMA MaxPlace ==
  ASSUME NEW n \in Nat, NEW S, S \subseteq 1..n, S # {}
  PROVE  O!MaxOf(S) \in S /\ \A y \in S : y <= O!MaxOf(S)
<1>. DEFINE T == {k \in Nat : \A y \in S : y <= k}
<1>1. T \subseteq Nat /\ n \in T
  OBVIOUS
<1>2. PICK m \in T : \A k \in T : m <= k
  BY <1>1, LeastNumber
<1>3. m \in S
  <2>1. SUFFICES ASSUME m \notin S PROVE FALSE
    OBVIOUS
  <2>2. PICK y \in S : TRUE
    OBVIOUS
  <2>3. m - 1 \in Nat /\ \A z \in S : z <= m - 1
    BY <1>2, <2>1, <2>2
  <2>. QED
    BY <1>2, <2>3
<1>4. \E x \in S : \A y \in S : y <= x
  BY <1>2, <1>3
<1>. QED
  BY <1>4, Zenon DEF O!MaxOf

\* One more option in the list.
LEMMA OneMore ==
  ASSUME NEW T, NEW g \in Seq(T), NEW o \in T
  PROVE  LET h == Append(g, o)
             n == Len(g) + 1
         IN  /\ DOMAIN h = DOMAIN g \cup {n} /\ n \notin DOMAIN g /\ h[n] = o
             /\ \A i \in DOMAIN g : h[i] = g[i]
             /\ \A S \in SUBSET DOMAIN g : S # {} => LastIn(h, S) = LastIn(g, S)
             /\ \A S \in SUBSET DOMAIN g : LastIn(h, S \cup {n}) = o
<1>. DEFINE h == Append(g, o)
            n == Len(g) + 1
<1>1. /\ DOMAIN g = 1..Len(g) /\ DOMAIN h = 1..n /\ h[n] = o /\ Len(g) \in Nat
      /\ \A i \in DOMAIN g : h[i] = g[i]
  OBVIOUS
<1>2. ASSUME NEW S \in SUBSET DOMAIN g, S # {} PROVE LastIn(h, S) = LastIn(g, S)
  BY <1>1, <1>2, MaxPlace DEF LastIn
<1>3. ASSUME NEW S \in SUBSET DOMAIN g PROVE LastIn(h, S \cup {n}) = o
  <2>1. n \in Nat /\ S \cup {n} \subseteq 1..n /\ n \in S \cup {n}
    BY <1>1
  <2>2. O!MaxOf(S \cup {n}) \in S \cup {n} /\ n <= O!MaxOf(S \cup {n})
    BY <2>1, MaxPlace
  <2>3. O!MaxOf(S \cup {n}) = n
    BY <1>1, <2>2
  <2>. QED
    BY <1>1, <2>3 DEF LastIn
<1>4. DOMAIN h = DOMAIN g \cup {n} /\ n \notin DOMAIN g
  BY <1>1
<1>. HIDE DEF h, n
<1>. QED
  BY <1>1, <1>2, <1>3, <1>4 DEF h, n

LEMMA PlacesMore ==
  ASSUME NEW T, NEW g \in Seq(T), NEW o \in T, NEW op
  PROVE  LET h == Append(g, o) IN
           /\ o.op = op => PlacesOf(h, op) # {} /\ LastIn(h, PlacesOf(h, op)) = o
           /\ o.op # op => /\ PlacesOf(h, op) = PlacesOf(g, op)
                           /\ PlacesOf(g, op) # {} => LastIn(h, PlacesOf(h, op)) = LastIn(g, PlacesOf(g, op))
<1>. DEFINE h == Append(g, o)
            n == Len(g) + 1
<1>0. /\ DOMAIN h = DOMAIN g \cup {n} /\ n \notin DOMAIN g /\ h[n] = o
      /\ \A i \in DOMAIN g : h[i] = g[i]
      /\ \A S \in SUBSET DOMAIN g : S # {} => LastIn(h, S) = LastIn(g, S)
      /\ \A S \in SUBSET DOMAIN g : LastIn(h, S \cup {n}) = o
  BY OneMore
<1>. HIDE DEF h, n
<1>1. PlacesOf(g, op) \in SUBSET DOMAIN g
  BY DEF PlacesOf
<1>2. PlacesOf(h, op) = IF o.op = op THEN PlacesOf(g, op) \cup {n} ELSE PlacesOf(g, op)
  BY <1>0 DEF PlacesOf
<1>. QED
  BY <1>0, <1>1, <1>2 DEF h

LEMMA SamplersMore ==
  ASSUME NEW T, NEW g \in Seq(T), NEW o \in T
  PROVE  LET h == Append(g, o)
         IN  /\ Decides(o) => SamplersOf(h) # {} /\ LastIn(h, SamplersOf(h)) = o
             /\ ~Decides(o) => /\ SamplersOf(h) = SamplersOf(g)
                               /\ SamplersOf(g) # {} => LastIn(h, SamplersOf(h)) = LastIn(g, SamplersOf(g))
<1>. DEFINE h == Append(g, o)
            n == Len(g) + 1
<1>0. /\ DOMAIN h = DOMAIN g \cup {n} /\ n \notin DOMAIN g /\ h[n] = o
      /\ \A i \in DOMAIN g : h[i] = g[i]
      /\ \A S \in SUBSET DOMAIN g : S # {} => LastIn(h, S) = LastIn(g, S)
      /\ \A S \in SUBSET DOMAIN g : LastIn(h, S \cup {n}) = o
  BY OneMore
<1>. HIDE DEF h, n
<1>1. SamplersOf(g) \in SUBSET DOMAIN g
  BY DEF SamplersOf
<1>2. SamplersOf(h) = IF Decides(o) THEN SamplersOf(g) \cup {n} ELSE SamplersOf(g)
  BY <1>0 DEF SamplersOf
<1>. QED
  BY <1>0, <1>1, <1>2 DEF h

LEMMA NamingMore ==
  ASSUME NEW T, NEW g \in Seq(T), NEW o \in T, NEW x
  PROVE  LET h == Append(g, o)
             says == o.op = "WithOTLPHeaders" /\ x \in DOMAIN o.v
         IN  /\ says => NamingOf(h, x) # {} /\ LastIn(h, NamingOf(h, x)) = o
             /\ ~says => /\ NamingOf(h, x) = NamingOf(g, x)
                         /\ NamingOf(g, x) # {} => LastIn(h, NamingOf(h, x)) = LastIn(g, NamingOf(g, x))
<1>. DEFINE h == Append(g, o)
            n == Len(g) + 1
            says == o.op = "WithOTLPHeaders" /\ x \in DOMAIN o.v
<1>0. /\ DOMAIN h = DOMAIN g \cup {n} /\ n \notin DOMAIN g /\ h[n] = o
      /\ \A i \in DOMAIN g : h[i] = g[i]
      /\ \A S \in SUBSET DOMAIN g : S # {} => LastIn(h, S) = LastIn(g, S)
      /\ \A S \in SUBSET DOMAIN g : LastIn(h, S \cup {n}) = o
  BY OneMore
<1>. HIDE DEF h, n
<1>1. NamingOf(g, x) \in SUBSET DOMAIN g
  BY DEF NamingOf, PlacesOf
<1>2. NamingOf(h, x) = IF says THEN NamingOf(g, x) \cup {n} ELSE NamingOf(g, x)
  BY <1>0 DEF NamingOf, PlacesOf
<1>. QED
  BY <1>0, <1>1, <1>2 DEF h

\* What one more option does to each setting.
LEMMA RatioMore ==
  ASSUME NEW T, NEW g \in Seq(T), NEW o \in T, O!IsOption(o), NEW c, Shaped(c),
         RatioAgrees(g, c), c.sampler = SamplerLast(g)
  PROVE  LET h == Append(g, o)
             d == O!Apply(c, o)
         IN  RatioAgrees(h, d) /\ d.sampler = SamplerLast(h)
<1>. DEFINE h == Append(g, o)
            d == O!Apply(c, o)
<1>1. CASE ~Decides(o)
  <2>1. d.samplingRatioSet = c.samplingRatioSet /\ d.samplingRatio = c.samplingRatio /\ d.sampler = c.sampler
    <3>1. CASE o.op = "WithTraceSampler"
      <4>1. d = O!WithTraceSampler(c, o.v) /\ o.v = "nil"
        BY <1>1, <3>1 DEF O!Apply, Decides
      <4>. QED
        BY <4>1 DEF O!WithTraceSampler
    <3>2. CASE o.op # "WithTraceSampler"
      <4>0. o.op # "WithSamplingRatio"
        BY <1>1 DEF Decides
      <4>1. Touched(o.op) \cap {"sampler", "samplingRatio", "samplingRatioSet"} = {}
        BY <4>0, <3>2 DEF Touched, O!IsOption
      <4>2. \A f \in {"sampler", "samplingRatio", "samplingRatioSet"} : d[f] = c[f]
        BY <4>1, ApplyTouches DEF Fields
      <4>. QED
        BY <4>2
    <3>. QED
      BY <3>1, <3>2
  <2>2. SamplersOf(h) = SamplersOf(g) /\ (SamplersOf(g) # {} => LastIn(h, SamplersOf(h)) = LastIn(g, SamplersOf(g)))
    BY <1>1, SamplersMore, Zenon
  <2>. HIDE DEF h, d
  <2>. QED
    BY <2>1, <2>2 DEF RatioAgrees, RatioLast, SamplerLast, d, h
<1>2. CASE Decides(o)
  <2>1. SamplersOf(h) # {} /\ LastIn(h, SamplersOf(h)) = o
    BY <1>2, SamplersMore
  <2>2. CASE o.op = "WithSamplingRatio"
    <3>1. d = O!WithSamplingRatio(c, o.v)
      BY <2>2 DEF O!Apply
    <3>2. d.samplingRatio = o.v /\ d.samplingRatioSet = TRUE /\ d.sampler = <<"none">>
      BY <3>1 DEF O!WithSamplingRatio, Shaped, Fields
    <3>. HIDE DEF h, d
    <3>. QED
      BY <2>1, <2>2, <3>2 DEF RatioAgrees, RatioLast, SamplerLast, d, h
  <2>3. CASE o.op = "WithTraceSampler" /\ o.v # "nil"
    <3>1. d = O!WithTraceSampler(c, o.v)
      BY <2>3 DEF O!Apply
    <3>2. d.samplingRatioSet = FALSE /\ d.sampler = <<o.v>>
      BY <2>3, <3>1 DEF O!WithTraceSampler, Shaped, Fields
    <3>. HIDE DEF h, d
    <3>. QED
      BY <2>1, <2>3, <3>2 DEF RatioAgrees, RatioLast, SamplerLast, d, h
  <2>. QED
    BY <1>2, <2>2, <2>3 DEF Decides
<1>. QED
  BY <1>1, <1>2

LEMMA EndpointMore ==
  ASSUME NEW T, NEW g \in Seq(T), NEW o \in T, O!IsOption(o), NEW c, Shaped(c), EndpointAgrees(g, c)
  PROVE  EndpointAgrees(Append(g, o), O!Apply(c, o))
<1>. DEFINE h == Append(g, o)
            d == O!Apply(c, o)
            Q == PlacesOf(g, "WithOTLPEndpoint")
            S == PlacesOf(h, "WithOTLPEndpoint")
<1>1. CASE o.op # "WithOTLPEndpoint"
  <2>1. Touched(o.op) \cap {"otlpEndpoint", "otlpEndpointSet"} = {}
    BY <1>1 DEF Touched, O!IsOption
  <2>2. \A f \in {"otlpEndpoint", "otlpEndpointSet"} : d[f] = c[f]
    BY <2>1, ApplyTouches DEF Fields
  <2>3. S = Q /\ (Q # {} => LastIn(h, S) = LastIn(g, Q))
    BY <1>1, PlacesMore
  <2>4. d.otlpEndpoint = c.otlpEndpoint /\ d.otlpEndpointSet = c.otlpEndpointSet
    BY <2>2
  <2>. HIDE DEF d, h
  <2>. QED
    BY <2>3, <2>4 DEF EndpointAgrees, d, h
<1>2. CASE o.op = "WithOTLPEndpoint"
  <2>1. S # {} /\ LastIn(h, S) = o
    BY <1>2, PlacesMore
  <2>2. d = O!WithOTLPEndpoint(c, o.v)
    BY <1>2 DEF O!Apply
  <2>3. /\ O!Trim(o.v) = "" => d.otlpEndpoint = "default" /\ d.otlpEndpointSet = FALSE
        /\ O!Trim(o.v) # "" => d.otlpEndpoint = O!Trim(o.v) /\ d.otlpEndpointSet = TRUE
    BY <2>2 DEF O!WithOTLPEndpoint, Shaped, Fields
  <2>4. O!Trim(o.v) # "" => O!Trim(o.v) = o.v
    BY DEF O!Trim
  <2>. HIDE DEF d, h
  <2>. QED
    BY <2>1, <2>3, <2>4 DEF EndpointAgrees, d, h
<1>. QED
  BY <1>1, <1>2

LEMMA HeadersMore ==
  ASSUME NEW T, NEW g \in Seq(T), NEW o \in T, O!IsOption(o), NEW c, Shaped(c), HeadersAgree(g, c)
  PROVE  HeadersAgree(Append(g, o), O!Apply(c, o))
<1>. DEFINE h == Append(g, o)
            d == O!Apply(c, o)
            Q == PlacesOf(g, "WithOTLPHeaders")
            S == PlacesOf(h, "WithOTLPHeaders")
<1>0. DOMAIN h = DOMAIN g \cup {Len(g) + 1} /\ h[Len(g) + 1] = o /\ \A i \in DOMAIN g : h[i] = g[i]
  BY OneMore
<1>1. CASE o.op # "WithOTLPHeaders"
  <2>1. "otlpHeaders" \notin Touched(o.op)
    BY <1>1 DEF Touched, O!IsOption
  <2>2. d.otlpHeaders = c.otlpHeaders
    BY <2>1, ApplyTouches DEF Fields
  <2>3. \A x : NamingOf(h, x) = NamingOf(g, x) /\ (NamingOf(g, x) # {} => LastIn(h, NamingOf(h, x)) = LastIn(g, NamingOf(g, x)))
    BY <1>1, NamingMore
  <2>4. S = Q /\ \A i \in Q : h[i] = g[i]
    BY <1>0, <1>1, PlacesMore DEF PlacesOf
  <2>. HIDE DEF d, h
  <2>. QED
    BY <2>2, <2>3, <2>4 DEF HeadersAgree, d, h
<1>2. CASE o.op = "WithOTLPHeaders"
  <2>1. d = O!WithOTLPHeaders(c, o.v)
    BY <1>2 DEF O!Apply
  <2>2. d.otlpHeaders = O!Over(o.v, c.otlpHeaders)
    BY <2>1 DEF O!WithOTLPHeaders, Shaped, Fields
  <2>3. /\ DOMAIN d.otlpHeaders = DOMAIN o.v \cup DOMAIN c.otlpHeaders
        /\ \A x \in DOMAIN d.otlpHeaders : d.otlpHeaders[x] = IF x \in DOMAIN o.v THEN o.v[x] ELSE c.otlpHeaders[x]
    BY <2>2 DEF O!Over
  <2>. HIDE DEF d
  <2>4. ASSUME NEW x \in DOMAIN d.otlpHeaders
        PROVE  NamingOf(h, x) # {} /\ d.otlpHeaders[x] = LastIn(h, NamingOf(h, x)).v[x]
    <3>1. CASE x \in DOMAIN o.v
      <4>1. NamingOf(h, x) # {} /\ LastIn(h, NamingOf(h, x)) = o
        BY <1>2, <3>1, NamingMore
      <4>. QED
        BY <2>3, <3>1, <4>1
    <3>2. CASE x \notin DOMAIN o.v
      <4>1. NamingOf(h, x) = NamingOf(g, x) /\ (NamingOf(g, x) # {} => LastIn(h, NamingOf(h, x)) = LastIn(g, NamingOf(g, x)))
        BY <3>2, NamingMore
      <4>2. x \in DOMAIN c.otlpHeaders /\ d.otlpHeaders[x] = c.otlpHeaders[x]
        BY <2>3, <3>2
      <4>. HIDE DEF h
      <4>. QED
        BY <4>1, <4>2 DEF HeadersAgree
    <3>. QED
      BY <3>1, <3>2
  <2>5. ASSUME NEW i \in S PROVE DOMAIN h[i].v \subseteq DOMAIN d.otlpHeaders
    <3>1. CASE i = Len(g) + 1
      BY <1>0, <2>3, <3>1
    <3>2. CASE i \in DOMAIN g
      <4>1. i \in Q /\ h[i] = g[i]
        BY <1>0, <3>2 DEF PlacesOf
      <4>. HIDE DEF h
      <4>. QED
        BY <2>3, <4>1 DEF HeadersAgree
    <3>. QED
      BY <1>0, <3>1, <3>2 DEF PlacesOf
  <2>. HIDE DEF h
  <2>. QED
    BY <2>4, <2>5 DEF HeadersAgree, d, h
<1>. QED
  BY <1>1, <1>2

\* An option sets its own pillar's toggle, and no other.
LEMMA OneToggle ==
  ASSUME NEW c, Shaped(c), NEW o, O!IsOption(o), NEW p \in Toggles
  PROVE  O!Apply(c, o).enabled[p] = IF o.op = ToggleOption[p] THEN o.v ELSE c.enabled[p]
<1>. DEFINE d == O!Apply(c, o)
<1>0. /\ ToggleOption["trace"] = "WithTraceEnabled" /\ ToggleOption["metrics"] = "WithMetricsEnabled"
      /\ ToggleOption["log"] = "WithLogEnabled" /\ ToggleOption["profiling"] = "WithProfilingEnabled"
  BY DEF ToggleOption
<1>1. CASE o.op = "WithTraceEnabled"
  <2>1. d = O!WithTraceEnabled(c, o.v)
    BY <1>1 DEF O!Apply
  <2>. QED
    BY <1>0, <1>1, <2>1 DEF O!WithTraceEnabled, Shaped, Fields, Toggles
<1>2. CASE o.op = "WithMetricsEnabled"
  <2>1. d = O!WithMetricsEnabled(c, o.v)
    BY <1>2 DEF O!Apply
  <2>. QED
    BY <1>0, <1>2, <2>1 DEF O!WithMetricsEnabled, Shaped, Fields, Toggles
<1>3. CASE o.op = "WithLogEnabled"
  <2>1. d = O!WithLogEnabled(c, o.v)
    BY <1>3 DEF O!Apply
  <2>. QED
    BY <1>0, <1>3, <2>1 DEF O!WithLogEnabled, Shaped, Fields, Toggles
<1>4. CASE o.op = "WithProfilingEnabled"
  <2>1. d = O!WithProfilingEnabled(c, o.v)
    BY <1>4 DEF O!Apply
  <2>. QED
    BY <1>0, <1>4, <2>1 DEF O!WithProfilingEnabled, Shaped, Fields, Toggles
<1>5. CASE o.op \notin {"WithTraceEnabled", "WithMetricsEnabled", "WithLogEnabled", "WithProfilingEnabled"}
  <2>1. "enabled" \notin Touched(o.op)
    BY <1>5 DEF Touched, O!IsOption
  <2>2. d.enabled = c.enabled
    BY <2>1, ApplyTouches DEF Fields
  <2>. HIDE DEF d
  <2>. QED
    BY <1>0, <1>5, <2>2 DEF Toggles, d
<1>. QED
  BY <1>1, <1>2, <1>3, <1>4, <1>5

LEMMA TogglesMore ==
  ASSUME NEW T, NEW g \in Seq(T), NEW o \in T, O!IsOption(o), NEW c, Shaped(c), NEW e, TogglesAgree(g, c, e)
  PROVE  TogglesAgree(Append(g, o), O!Apply(c, o), e)
<1>. SUFFICES ASSUME NEW p \in Toggles
             PROVE  O!Apply(c, o).enabled[p] = ToggledTo(Append(g, o), e, p)
  BY DEF TogglesAgree
<1>. DEFINE h == Append(g, o)
            op == ToggleOption[p]
<1>1. O!Apply(c, o).enabled[p] = IF o.op = op THEN o.v ELSE c.enabled[p]
  BY OneToggle
<1>2. c.enabled[p] = ToggledTo(g, e, p)
  BY DEF TogglesAgree
<1>3. /\ o.op = op => PlacesOf(h, op) # {} /\ LastIn(h, PlacesOf(h, op)) = o
      /\ o.op # op => /\ PlacesOf(h, op) = PlacesOf(g, op)
                      /\ PlacesOf(g, op) # {} => LastIn(h, PlacesOf(h, op)) = LastIn(g, PlacesOf(g, op))
  BY PlacesMore
<1>. HIDE DEF h
<1>4. ToggledTo(h, e, p) = IF o.op = op THEN o.v ELSE ToggledTo(g, e, p)
  BY <1>3, Zenon DEF ToggledTo
<1>. QED
  BY <1>1, <1>2, <1>4 DEF h

LEMMA LimitsMore ==
  ASSUME NEW T, NEW g \in Seq(T), NEW o \in T, O!IsOption(o), NEW c, Shaped(c), LimitsAgree(g, c)
  PROVE  LimitsAgree(Append(g, o), O!Apply(c, o))
<1>. DEFINE h == Append(g, o)
            d == O!Apply(c, o)
            Q == PlacesOf(g, "WithCardinalityLimit")
            S == PlacesOf(h, "WithCardinalityLimit")
<1>1. d.maxUniqueRoutes \in 1..MaxInt
  <2>1. CASE o.op = "WithMaxUniqueRoutes"
    <3>1. d = O!WithMaxUniqueRoutes(c, o.v) /\ o.v \in Int /\ o.v <= MaxInt
      BY <2>1 DEF O!Apply, O!IsOption
    <3>2. d.maxUniqueRoutes = IF o.v <= 0 THEN O!DefaultMaxUniqueRoutes ELSE o.v
      BY <3>1 DEF O!WithMaxUniqueRoutes, Shaped, Fields
    <3>. HIDE DEF d
    <3>. QED
      BY <3>1, <3>2, LimitsAssumption DEF O!DefaultMaxUniqueRoutes
  <2>2. CASE o.op # "WithMaxUniqueRoutes"
    <3>1. "maxUniqueRoutes" \notin Touched(o.op)
      BY <2>2 DEF Touched, O!IsOption
    <3>. QED
      BY <3>1, ApplyTouches DEF Fields, LimitsAgree
  <2>. QED
    BY <2>1, <2>2
<1>2. d.maxUniqueCollections \in 1..MaxInt
  <2>1. CASE o.op = "WithMaxUniqueCollections"
    <3>1. d = O!WithMaxUniqueCollections(c, o.v) /\ o.v \in Int /\ o.v <= MaxInt
      BY <2>1 DEF O!Apply, O!IsOption
    <3>2. d.maxUniqueCollections = IF o.v <= 0 THEN O!DefaultMaxUniqueCollections ELSE o.v
      BY <3>1 DEF O!WithMaxUniqueCollections, Shaped, Fields
    <3>. HIDE DEF d
    <3>. QED
      BY <3>1, <3>2, LimitsAssumption DEF O!DefaultMaxUniqueRoutes, O!DefaultMaxUniqueCollections
  <2>2. CASE o.op # "WithMaxUniqueCollections"
    <3>1. "maxUniqueCollections" \notin Touched(o.op)
      BY <2>2 DEF Touched, O!IsOption
    <3>. QED
      BY <3>1, ApplyTouches DEF Fields, LimitsAgree
  <2>. QED
    BY <2>1, <2>2
<1>3. /\ d.cardinalityLimit \in Int /\ (S = {} \/ LastIn(h, S).v <= 0 => d.cardinalityLimit = 0)
      /\ S # {} /\ LastIn(h, S).v > 0 => d.cardinalityLimit = LastIn(h, S).v
  <2>1. CASE o.op = "WithCardinalityLimit"
    <3>1. d = O!WithCardinalityLimit(c, o.v) /\ o.v \in Int
      BY <2>1 DEF O!Apply, O!IsOption
    <3>2. d.cardinalityLimit = IF o.v <= 0 THEN 0 ELSE o.v
      BY <3>1 DEF O!WithCardinalityLimit, Shaped, Fields
    <3>3. S # {} /\ LastIn(h, S) = o
      BY <2>1, PlacesMore
    <3>. HIDE DEF d, S
    <3>. QED
      BY <3>1, <3>2, <3>3
  <2>2. CASE o.op # "WithCardinalityLimit"
    <3>1. "cardinalityLimit" \notin Touched(o.op)
      BY <2>2 DEF Touched, O!IsOption
    <3>2. d.cardinalityLimit = c.cardinalityLimit
      BY <3>1, ApplyTouches DEF Fields
    <3>3. S = Q /\ (Q # {} => LastIn(h, S) = LastIn(g, Q))
      BY <2>2, PlacesMore
    <3>. HIDE DEF d, h
    <3>. QED
      BY <3>2, <3>3 DEF LimitsAgree
  <2>. QED
    BY <2>1, <2>2
<1>. HIDE DEF d, h
<1>. QED
  BY <1>1, <1>2, <1>3 DEF LimitsAgree, d, h

-----------------------------------------------------------------------------
(* The inductive invariant *)

Offerings == UNION {c.options \cup {c.first[i] : i \in DOMAIN c.first} : c \in Callers}

OptTyped == caller \in Callers /\ given \in Seq(Offerings) /\ Shaped(config)

Agreed(g, c, e) ==
  RatioAgrees(g, c) /\ EndpointAgrees(g, c) /\ HeadersAgree(g, c) /\ TogglesAgree(g, c, e) /\ LimitsAgree(g, c)

\* Until Init configures the sampler it is the last one given, and then the
\* ratio's if that was given last.
SamplerAgrees ==
  /\ at = "options" => config.sampler = SamplerLast(given)
  /\ at \in {"checked", "resource", "ready"} /\ config.enabled["trace"] =>
       /\ config.sampler = IF RatioLast(given) THEN <<"ratio", LastIn(given, SamplersOf(given)).v>> ELSE SamplerLast(given)
       /\ RatioLast(given) => LastIn(given, SamplersOf(given)).v \in 0..100

OptInv == OptTyped /\ Agreed(given, config, toggles) /\ SamplerAgrees

LEMMA OfferingsAreOptions == ASSUME NEW o \in Offerings PROVE O!IsOption(o)
  BY CallersAssumption DEF Offerings

LEMMA OfferedIsOption == ASSUME OptTyped, NEW o \in O!Offered PROVE o \in Offerings
<1>1. caller.options \subseteq Offerings /\ {caller.first[i] : i \in DOMAIN caller.first} \subseteq Offerings
  BY DEF OptTyped, Offerings
<1>2. CASE O!Opened
  BY <1>1, <1>2 DEF O!Offered
<1>3. CASE ~O!Opened
  <2>1. Len(caller.first) \in Nat /\ DOMAIN caller.first = 1..Len(caller.first) /\ Len(given) \in Nat
    BY CallersAssumption DEF OptTyped
  <2>2. Len(given) + 1 \in DOMAIN caller.first
    BY <1>3, <2>1 DEF O!Opened
  <2>. QED
    BY <1>1, <1>3, <2>2 DEF O!Offered
<1>. QED
  BY <1>2, <1>3

LEMMA DefaultShaped == ASSUME NEW e PROVE Shaped(O!DefaultConfig(e))
  BY DEF O!DefaultConfig, Shaped, Fields, Toggles, O!Pillars

LEMMA OptInitHolds == ASSUME O!Init PROVE OptInv
<1>1. given = <<>> /\ config = O!DefaultConfig(toggles) /\ caller \in Callers /\ at = "options"
  BY DEF O!Init
<1>2. OptTyped
  BY <1>1, DefaultShaped DEF OptTyped
<1>3. /\ \A op : PlacesOf(given, op) = {}
      /\ SamplersOf(given) = {}
  BY <1>1 DEF PlacesOf, SamplersOf
<1>4. /\ config.samplingRatioSet = FALSE /\ config.sampler = <<"none">>
      /\ config.otlpEndpointSet = FALSE /\ config.otlpEndpoint = "default"
      /\ config.otlpHeaders = <<>>
      /\ config.maxUniqueRoutes = O!DefaultMaxUniqueRoutes
      /\ config.maxUniqueCollections = O!DefaultMaxUniqueCollections
      /\ config.cardinalityLimit = 0
      /\ \A p \in Toggles : config.enabled[p] = O!ParseBoolEnv(toggles[p], p # "profiling")
  BY <1>1 DEF O!DefaultConfig, O!Pillars, Toggles
<1>5. RatioAgrees(given, config) /\ SamplerAgrees
  BY <1>1, <1>3, <1>4 DEF RatioAgrees, RatioLast, SamplerLast, SamplerAgrees
<1>6. EndpointAgrees(given, config)
  BY <1>3, <1>4 DEF EndpointAgrees
<1>7. HeadersAgree(given, config)
  BY <1>3, <1>4 DEF HeadersAgree
<1>8. TogglesAgree(given, config, toggles)
  BY <1>3, <1>4 DEF TogglesAgree, ToggledTo, O!ParseBoolEnv
<1>9. LimitsAgree(given, config)
  BY <1>3, <1>4, LimitsAssumption DEF LimitsAgree, O!DefaultMaxUniqueRoutes, O!DefaultMaxUniqueCollections
<1>. QED
  BY <1>2, <1>5, <1>6, <1>7, <1>8, <1>9 DEF OptInv, Agreed

\* The settings the later steps of Init leave alone.
Settings == {"samplingRatioSet", "samplingRatio", "otlpEndpoint", "otlpEndpointSet", "otlpHeaders", "enabled",
             "maxUniqueRoutes", "maxUniqueCollections", "cardinalityLimit"}

LEMMA AgreedKept ==
  ASSUME NEW g, NEW c, NEW e, Agreed(g, c, e), NEW d, \A f \in Settings : d[f] = c[f]
  PROVE  Agreed(g, d, e)
<1>1. /\ d.samplingRatioSet = c.samplingRatioSet /\ d.samplingRatio = c.samplingRatio
      /\ d.otlpEndpoint = c.otlpEndpoint /\ d.otlpEndpointSet = c.otlpEndpointSet
      /\ d.otlpHeaders = c.otlpHeaders /\ d.enabled = c.enabled
      /\ d.maxUniqueRoutes = c.maxUniqueRoutes /\ d.maxUniqueCollections = c.maxUniqueCollections
      /\ d.cardinalityLimit = c.cardinalityLimit
  BY DEF Settings
<1>. QED
  BY <1>1 DEF Agreed, RatioAgrees, EndpointAgrees, HeadersAgree, TogglesAgree, LimitsAgree

LEMMA WithKeeps == ASSUME OptInv, NEW o \in O!Offered, O!With(o) PROVE OptInv'
<1>1. /\ given' = Append(given, o) /\ config' = O!Apply(config, o) /\ at = "options" /\ at' = "options"
      /\ caller' = caller /\ toggles' = toggles
  BY DEF O!With
<1>2. o \in Offerings /\ O!IsOption(o) /\ given \in Seq(Offerings) /\ Shaped(config) /\ caller \in Callers
  BY OfferedIsOption, OfferingsAreOptions DEF OptInv, OptTyped
<1>3. OptTyped'
  BY <1>1, <1>2, ApplyTouches DEF OptTyped
<1>4. Agreed(given, config, toggles) /\ config.sampler = SamplerLast(given)
  BY <1>1 DEF OptInv, SamplerAgrees
<1>5. RatioAgrees(given, config)' /\ config'.sampler = SamplerLast(given)'
  BY <1>1, <1>2, <1>4, RatioMore DEF Agreed
<1>6. EndpointAgrees(given, config)' /\ HeadersAgree(given, config)' /\ LimitsAgree(given, config)'
  BY <1>1, <1>2, <1>4, EndpointMore, HeadersMore, LimitsMore DEF Agreed
<1>7. TogglesAgree(given, config, toggles)'
  BY <1>1, <1>2, <1>4, TogglesMore DEF Agreed
<1>. QED
  BY <1>1, <1>3, <1>5, <1>6, <1>7 DEF OptInv, Agreed, SamplerAgrees

LEMMA CheckKeeps == ASSUME OptInv, O!Check PROVE OptInv'
<1>1. given' = given /\ caller' = caller /\ toggles' = toggles /\ at = "options"
  BY DEF O!Check
<1>2. Shaped(config) /\ config.sampler = SamplerLast(given) /\ Agreed(given, config, toggles)
  BY <1>1 DEF OptInv, OptTyped, SamplerAgrees
<1>3. CASE ~O!Acceptable(config)
  <2>1. config' = config /\ at' = "failed"
    BY <1>3 DEF O!Check
  <2>. QED
    BY <1>1, <2>1 DEF OptInv, OptTyped, SamplerAgrees
<1>4. CASE O!Acceptable(config)
  <2>1. at' = "checked" /\ config' = [O!ConfigureSampler(config) EXCEPT !.environment = O!NormalizeEnvironment(@)]
    BY <1>4 DEF O!Check
  <2>2. /\ Shaped(config') /\ \A f \in Fields \ {"environment", "sampler"} : config'[f] = config[f]
        /\ config'.sampler = IF config.enabled["trace"] /\ config.samplingRatioSet
                             THEN <<"ratio", config.samplingRatio>> ELSE config.sampler
    BY <1>2, <2>1 DEF O!ConfigureSampler, Shaped, Fields
  <2>3. Agreed(given, config, toggles)'
    <3>1. \A f \in Settings : config'[f] = config[f]
      BY <2>2 DEF Settings, Fields
    <3>. QED
      BY <1>1, <1>2, <3>1, AgreedKept
  <2>4. config'.enabled = config.enabled
    BY <2>2 DEF Fields
  <2>5. config.enabled["trace"] /\ config.samplingRatioSet => config.samplingRatio \in 0..100
    BY <1>4 DEF O!Acceptable
  <2>6. (config.samplingRatioSet <=> RatioLast(given)) /\ (RatioLast(given) => config.samplingRatio = LastIn(given, SamplersOf(given)).v)
    BY <1>2 DEF Agreed, RatioAgrees
  <2>7. SamplerAgrees'
    BY <1>1, <1>2, <2>1, <2>2, <2>4, <2>5, <2>6 DEF SamplerAgrees
  <2>. QED
    BY <1>1, <2>2, <2>3, <2>7 DEF OptInv, OptTyped
<1>. QED
  BY <1>3, <1>4

\* The Resource and the baggage keys.
LEMMA LaterKeeps ==
  ASSUME OptInv, O!BuildResource \/ O!ConfigureBaggageWhitelist PROVE OptInv'
<1>1. /\ given' = given /\ caller' = caller /\ toggles' = toggles
      /\ at \in {"checked", "resource"} /\ at' \in {"resource", "ready", "collision"}
  BY DEF O!BuildResource, O!ConfigureBaggageWhitelist
<1>2. Shaped(config) /\ Agreed(given, config, toggles)
  BY DEF OptInv, OptTyped
<1>3. Shaped(config') /\ \A f \in Fields \ {"baggageKeys", "warned"} : config'[f] = config[f]
  <2>1. CASE O!BuildResource
    <3>1. PICK W : config' = [config EXCEPT !.warned = W]
      BY <2>1 DEF O!BuildResource
    <3>. QED
      BY <1>2, <3>1 DEF Shaped, Fields
  <2>2. CASE O!ConfigureBaggageWhitelist
    <3>1. config' = config \/ \E K, W : config' = [config EXCEPT !.baggageKeys = K, !.warned = W]
      BY <2>2 DEF O!ConfigureBaggageWhitelist
    <3>. QED
      BY <1>2, <3>1 DEF Shaped, Fields
  <2>. QED
    BY <2>1, <2>2
<1>4. Agreed(given, config, toggles)'
  <2>1. \A f \in Settings : config'[f] = config[f]
    BY <1>3 DEF Settings, Fields
  <2>. QED
    BY <1>1, <1>2, <2>1, AgreedKept
<1>5. config'.enabled = config.enabled /\ config'.sampler = config.sampler
  BY <1>3 DEF Fields
<1>6. SamplerAgrees'
  BY <1>1, <1>5 DEF SamplerAgrees, OptInv
<1>. QED
  BY <1>1, <1>3, <1>4, <1>6 DEF OptInv, OptTyped

LEMMA OptStepKeeps == ASSUME OptInv, O!Next PROVE OptInv'
  BY WithKeeps, CheckKeeps, LaterKeeps DEF O!Next

\* The cardinality limit: at least what the SDK's own series need, and what
\* the caps need.
LEMMA LimitEnough ==
  ASSUME NEW r \in 1..MaxInt, NEW k \in 1..MaxInt, NEW n \in Int
  PROVE  LET limit == O!CardinalityLimitBudget(r, k, n) IN
           /\ limit >= O!MinCardinalityLimit
           /\ n = 0 => limit >= r /\ limit >= k
<1>1. ASSUME NEW x \in Int, NEW y \in Int PROVE O!MaxOf({x, y}) \in {x, y} /\ O!MaxOf({x, y}) >= x /\ O!MaxOf({x, y}) >= y
  <2>1. \E m \in {x, y} : \A z \in {x, y} : z <= m
    BY <1>1
  <2>2. O!MaxOf({x, y}) \in {x, y} /\ \A z \in {x, y} : z <= O!MaxOf({x, y})
    BY <2>1, Zenon DEF O!MaxOf
  <2>. QED
    BY <2>2
<1>2. ASSUME NEW x \in Int, NEW y \in Int, NEW z \in Int
      PROVE  LET m == O!MaxOf({x, y, z}) IN m \in Int /\ m >= x /\ m >= y /\ m >= z
  <2>1. \E m \in {x, y, z} : \A w \in {x, y, z} : w <= m
    BY <1>2
  <2>2. O!MaxOf({x, y, z}) \in {x, y, z} /\ \A w \in {x, y, z} : w <= O!MaxOf({x, y, z})
    BY <2>1, Zenon DEF O!MaxOf
  <2>. QED
    BY <2>2
<1>3. ASSUME NEW x \in 1..MaxInt
      PROVE  O!ScaleBudget(x, O!SdkCardinalityCapMultiplier) \in Int /\ O!ScaleBudget(x, O!SdkCardinalityCapMultiplier) >= x
  BY <1>3, LimitsAssumption DEF O!ScaleBudget, O!SdkCardinalityCapMultiplier
<1>. DEFINE a == O!ScaleBudget(r, O!SdkCardinalityCapMultiplier)
            b == O!ScaleBudget(k, O!SdkCardinalityCapMultiplier)
<1>4. a \in Int /\ a >= r /\ b \in Int /\ b >= k
  BY <1>3
<1>5. n > 0 => O!CardinalityLimitBudget(r, k, n) = O!MaxOf({n, 4})
  BY DEF O!CardinalityLimitBudget, O!MinCardinalityLimit
<1>6. ~(n > 0) => O!CardinalityLimitBudget(r, k, n) = O!MaxOf({2000, a, b})
  BY DEF O!CardinalityLimitBudget, O!DefaultCardinalityLimit
<1>. HIDE DEF a, b
<1>7. O!MaxOf({n, 4}) \in Int /\ O!MaxOf({n, 4}) >= 4
  BY <1>1
<1>8. LET m == O!MaxOf({2000, a, b}) IN m \in Int /\ m >= 2000 /\ m >= a /\ m >= b
  <2>1. PICK x \in Int : x = 2000
    OBVIOUS
  <2>2. LET m == O!MaxOf({x, a, b}) IN m \in Int /\ m >= x /\ m >= a /\ m >= b
    BY <1>2, <1>4
  <2>. QED
    BY <2>1, <2>2
<1>. QED
  BY <1>4, <1>5, <1>6, <1>7, <1>8 DEF O!MinCardinalityLimit

LEMMA OptMeans == ASSUME OptInv PROVE O!OptionsCompose
<1>. DEFINE samplers == {i \in DOMAIN given : \/ given[i].op = "WithSamplingRatio"
                                              \/ given[i].op = "WithTraceSampler" /\ given[i].v # "nil"}
            limit == O!CardinalityLimitBudget(config.maxUniqueRoutes, config.maxUniqueCollections, config.cardinalityLimit)
            ratio == samplers # {} /\ O!LastOf(samplers).op = "WithSamplingRatio"
            endpoints == O!At("WithOTLPEndpoint")
            headers == O!At("WithOTLPHeaders")
            limits == O!At("WithCardinalityLimit")
            toggle == [trace |-> "WithTraceEnabled", metrics |-> "WithMetricsEnabled",
                       log |-> "WithLogEnabled", profiling |-> "WithProfilingEnabled"]
<1>1. samplers = SamplersOf(given)
  BY Zenon DEF SamplersOf, Decides
<1>2. \A op : O!At(op) = PlacesOf(given, op)
  BY DEF O!At, PlacesOf
<1>3. \A S : O!LastOf(S) = LastIn(given, S)
  BY DEF O!LastOf, LastIn
<1>4. ratio <=> RatioLast(given)
  BY <1>1, <1>3 DEF RatioLast
<1>. HIDE DEF samplers, ratio
<1>5. at \in {"checked", "ready"} /\ config.enabled["trace"] =>
        config.sampler = (IF samplers = {} THEN <<"none">>
                          ELSE IF ratio THEN <<"ratio", O!LastOf(samplers).v>> ELSE <<O!LastOf(samplers).v>>)
  <2>1. RatioLast(given) => SamplersOf(given) # {}
    BY DEF RatioLast
  <2>. QED
    BY <1>1, <1>3, <1>4, <2>1 DEF OptInv, SamplerAgrees, SamplerLast
<1>6. at = "checked" /\ ratio /\ config.enabled["trace"] => O!LastOf(samplers).v \in 0..100
  BY <1>1, <1>3, <1>4 DEF OptInv, SamplerAgrees
<1>7. /\ config.otlpEndpointSet <=> endpoints # {} /\ O!Trim(O!LastOf(endpoints).v) # ""
      /\ config.otlpEndpoint = IF config.otlpEndpointSet THEN O!LastOf(endpoints).v ELSE "default"
  BY <1>2, <1>3 DEF OptInv, Agreed, EndpointAgrees
<1>8. /\ \A h \in DOMAIN config.otlpHeaders :
           LET naming == {i \in headers : h \in DOMAIN given[i].v}
           IN  naming # {} /\ config.otlpHeaders[h] = O!LastOf(naming).v[h]
      /\ \A i \in headers : DOMAIN given[i].v \subseteq DOMAIN config.otlpHeaders
  BY <1>2, <1>3 DEF OptInv, Agreed, HeadersAgree, NamingOf
<1>9. \A p \in O!Pillars :
        config.enabled[p] = IF O!At(toggle[p]) # {} THEN O!LastOf(O!At(toggle[p])).v
                            ELSE toggles[p] = "true" \/ (p # "profiling" /\ toggles[p] # "false")
  <2>. SUFFICES ASSUME NEW p \in O!Pillars
               PROVE  config.enabled[p] = IF O!At(toggle[p]) # {} THEN O!LastOf(O!At(toggle[p])).v
                                          ELSE toggles[p] = "true" \/ (p # "profiling" /\ toggles[p] # "false")
    BY Zenon
  <2>1. p \in Toggles /\ toggle = ToggleOption
    BY DEF O!Pillars, Toggles, ToggleOption
  <2>2. config.enabled[p] = ToggledTo(given, toggles, p)
    BY <2>1 DEF OptInv, Agreed, TogglesAgree
  <2>3. O!At(toggle[p]) = PlacesOf(given, ToggleOption[p])
        /\ O!LastOf(O!At(toggle[p])) = LastIn(given, PlacesOf(given, ToggleOption[p]))
    BY <1>2, <1>3, <2>1
  <2>. HIDE DEF toggle
  <2>. QED
    BY <2>2, <2>3, Zenon DEF ToggledTo
<1>10. /\ limit >= O!MinCardinalityLimit
       /\ limits # {} /\ O!LastOf(limits).v > 0 => limit = O!MaxOf({O!LastOf(limits).v, O!MinCardinalityLimit})
       /\ limits = {} \/ O!LastOf(limits).v <= 0 =>
            \A n \in {config.maxUniqueRoutes, config.maxUniqueCollections} : limit >= n /\ n > 0
  <2>1. /\ config.maxUniqueRoutes \in 1..MaxInt /\ config.maxUniqueCollections \in 1..MaxInt
        /\ config.cardinalityLimit \in Int
        /\ limits = {} \/ O!LastOf(limits).v <= 0 => config.cardinalityLimit = 0
        /\ limits # {} /\ O!LastOf(limits).v > 0 => config.cardinalityLimit = O!LastOf(limits).v
    BY <1>2, <1>3 DEF OptInv, Agreed, LimitsAgree
  <2>2. limit >= O!MinCardinalityLimit
    BY <2>1, LimitEnough
  <2>3. config.cardinalityLimit = 0 => limit >= config.maxUniqueRoutes /\ limit >= config.maxUniqueCollections
    BY <2>1, LimitEnough
  <2>4. config.cardinalityLimit > 0 => limit = O!MaxOf({config.cardinalityLimit, O!MinCardinalityLimit})
    BY DEF O!CardinalityLimitBudget
  <2>. HIDE DEF limit, limits
  <2>. QED
    BY <2>1, <2>2, <2>3, <2>4, LimitsAssumption
<1>. HIDE DEF limit, limits, headers, endpoints, toggle
<1>. QED
  BY <1>5, <1>6, <1>7, <1>8, <1>9, <1>10, Zenon DEF O!OptionsCompose, samplers, ratio, endpoints, headers, limits, limit, toggle

LEMMA OptStill == ASSUME OptInv, UNCHANGED optVars PROVE OptInv'
  BY DEF OptInv, OptTyped, SamplerAgrees, optVars

\* Whatever options a caller gives Init, in whatever order, the last one that
\* says something about the sampler, the endpoint, a header, a pillar's toggle or
\* the cardinality limit decides, over the environment too (options.go, o11y.go).
THEOREM OptionsSafe == Spec => []OptionsCompose
<1>. DEFINE Inv == which = "options" => OptInv
<1>1. Init => Inv
  BY OptInitHolds DEF Init
<1>2. Inv /\ [Next]_vars => Inv'
  <2>1. ASSUME Inv, Next PROVE Inv'
    BY <2>1, OptStepKeeps DEF Next
  <2>2. ASSUME Inv, UNCHANGED vars PROVE Inv'
    BY <2>2, OptStill DEF vars
  <2>. QED
    BY <2>1, <2>2
<1>3. Inv => OptionsCompose
  BY OptMeans DEF OptionsCompose
<1>. QED
  BY <1>1, <1>2, <1>3, PTL DEF Spec

-----------------------------------------------------------------------------
(***************************************************************************)
(* The baggage keys.  Those kept are the valid ones of those asked for,    *)
(* and a key that is not valid is warned of.                               *)
(***************************************************************************)

KeysOf(g, op) == {g[i].v : i \in PlacesOf(g, op)}
AskedOf(g) == {k \in KeysOf(g, "WithBaggageAttributes") : O!ValidBaggageKey(k)}
RefusedKey(k) == <<"WithBaggageAttributes", k>>

BaggageAgrees(g, c) ==
  /\ c.baggageKeys \in Seq(O!Keys)
  /\ O!Range(c.baggageKeys) = AskedOf(g)
  /\ \A k \in KeysOf(g, "WithBaggageAttributes") : ~O!ValidBaggageKey(k) => RefusedKey(k) \in c.warned
  /\ c.userBaggage <=> PlacesOf(g, "WithUserBaggage") # {}

LEMMA RangeMore ==
  ASSUME NEW T, NEW s \in Seq(T), NEW x \in T
  PROVE  O!Range(Append(s, x)) = O!Range(s) \cup {x}
<1>1. DOMAIN Append(s, x) = DOMAIN s \cup {Len(s) + 1} /\ Append(s, x)[Len(s) + 1] = x /\ \A i \in DOMAIN s : Append(s, x)[i] = s[i]
  OBVIOUS
<1>. QED
  BY <1>1 DEF O!Range

\* What is warned of stays so.
LEMMA WarnedGrows ==
  ASSUME NEW c, Shaped(c), NEW o, O!IsOption(o) PROVE c.warned \subseteq O!Apply(c, o).warned
<1>1. CASE o.op \notin {"WithResourceAttributes", "WithExtraHTTPServerAttributeKeys", "WithBaggageAttributes"}
  <2>1. "warned" \notin Touched(o.op)
    BY <1>1 DEF Touched, O!IsOption
  <2>. QED
    BY <2>1, ApplyTouches DEF Fields
<1>2. CASE o.op = "WithResourceAttributes"
  <2>1. O!Apply(c, o) = O!WithResourceAttributes(c, o.v)
    BY <1>2 DEF O!Apply
  <2>. QED
    BY <2>1 DEF O!WithResourceAttributes, O!AppendResourceAttribute, O!Warn, Shaped, Fields
<1>3. CASE o.op = "WithExtraHTTPServerAttributeKeys"
  <2>1. O!Apply(c, o) = O!WithExtraHTTPServerAttributeKeys(c, o.v)
    BY <1>3 DEF O!Apply
  <2>. QED
    BY <2>1 DEF O!WithExtraHTTPServerAttributeKeys, O!Warn, Shaped, Fields
<1>4. CASE o.op = "WithBaggageAttributes"
  <2>1. O!Apply(c, o) = O!WithBaggageAttributes(c, o.v)
    BY <1>4 DEF O!Apply
  <2>. QED
    BY <2>1 DEF O!WithBaggageAttributes, O!Warn, Shaped, Fields
<1>. QED
  BY <1>1, <1>2, <1>3, <1>4

LEMMA KeysMore ==
  ASSUME NEW T, NEW g \in Seq(T), NEW o \in T, NEW op
  PROVE  KeysOf(Append(g, o), op) = IF o.op = op THEN KeysOf(g, op) \cup {o.v} ELSE KeysOf(g, op)
<1>. DEFINE h == Append(g, o)
            n == Len(g) + 1
<1>1. /\ DOMAIN h = DOMAIN g \cup {n} /\ n \notin DOMAIN g /\ h[n] = o
      /\ \A i \in DOMAIN g : h[i] = g[i]
  BY OneMore
<1>. HIDE DEF h, n
<1>2. PlacesOf(h, op) = IF o.op = op THEN PlacesOf(g, op) \cup {n} ELSE PlacesOf(g, op)
  BY <1>1 DEF PlacesOf
<1>3. \A i \in PlacesOf(g, op) : h[i].v = g[i].v
  BY <1>1 DEF PlacesOf
<1>4. CASE o.op = op
  <2>1. \A x : x \in KeysOf(h, op) <=> (\E i \in PlacesOf(g, op) : x = h[i].v) \/ x = h[n].v
    BY <1>2, <1>4 DEF KeysOf
  <2>. QED
    <3>1. \A x : x \in KeysOf(g, op) <=> \E i \in PlacesOf(g, op) : x = g[i].v
      BY DEF KeysOf
    <3>2. \A x : x \in KeysOf(h, op) <=> x \in KeysOf(g, op) \/ x = o.v
      BY <1>1, <1>3, <2>1, <3>1
    <3>. QED
      BY <1>4, <3>2 DEF h
<1>5. CASE o.op # op
  BY <1>2, <1>3, <1>5 DEF KeysOf, h
<1>. QED
  BY <1>4, <1>5

LEMMA BaggageMore ==
  ASSUME NEW T, NEW g \in Seq(T), NEW o \in T, O!IsOption(o), NEW c, Shaped(c), BaggageAgrees(g, c)
  PROVE  BaggageAgrees(Append(g, o), O!Apply(c, o))
<1>. DEFINE h == Append(g, o)
            d == O!Apply(c, o)
<1>1. d.userBaggage <=> PlacesOf(h, "WithUserBaggage") # {}
  <2>1. CASE o.op = "WithUserBaggage"
    <3>1. d = O!WithUserBaggage(c, o.v)
      BY <2>1 DEF O!Apply
    <3>2. d.userBaggage = TRUE
      BY <3>1 DEF O!WithUserBaggage, Shaped, Fields
    <3>. QED
      BY <2>1, <3>2, PlacesMore
  <2>2. CASE o.op # "WithUserBaggage"
    <3>1. "userBaggage" \notin Touched(o.op)
      BY <2>2 DEF Touched, O!IsOption
    <3>2. d.userBaggage = c.userBaggage
      BY <3>1, ApplyTouches DEF Fields
    <3>. QED
      BY <2>2, <3>2, PlacesMore DEF BaggageAgrees
  <2>. QED
    BY <2>1, <2>2
<1>2. c.warned \subseteq d.warned
  BY WarnedGrows
<1>3. CASE o.op # "WithBaggageAttributes"
  <2>1. "baggageKeys" \notin Touched(o.op)
    BY <1>3 DEF Touched, O!IsOption
  <2>2. d.baggageKeys = c.baggageKeys
    BY <2>1, ApplyTouches DEF Fields
  <2>3. KeysOf(h, "WithBaggageAttributes") = KeysOf(g, "WithBaggageAttributes")
    BY <1>3, KeysMore
  <2>. HIDE DEF d, h
  <2>. QED
    BY <1>1, <1>2, <2>2, <2>3 DEF BaggageAgrees, AskedOf, d, h
<1>4. CASE o.op = "WithBaggageAttributes"
  <2>1. d = O!WithBaggageAttributes(c, o.v) /\ o.v \in O!Keys
    BY <1>4 DEF O!Apply, O!IsOption
  <2>2. KeysOf(h, "WithBaggageAttributes") = KeysOf(g, "WithBaggageAttributes") \cup {o.v}
    BY <1>4, KeysMore
  <2>3. CASE o.v \in O!Range(c.baggageKeys)
    <3>1. d = c /\ o.v \in KeysOf(g, "WithBaggageAttributes")
      BY <2>1, <2>3 DEF O!WithBaggageAttributes, BaggageAgrees, AskedOf
    <3>2. KeysOf(h, "WithBaggageAttributes") = KeysOf(g, "WithBaggageAttributes")
      BY <2>2, <3>1
    <3>. HIDE DEF d, h
    <3>. QED
      BY <1>1, <3>1, <3>2 DEF BaggageAgrees, AskedOf, d, h
  <2>4. CASE o.v \notin O!Range(c.baggageKeys) /\ O!ValidBaggageKey(o.v)
    <3>1. d.baggageKeys = Append(c.baggageKeys, o.v)
      BY <2>1, <2>4 DEF O!WithBaggageAttributes, Shaped, Fields
    <3>2. d.baggageKeys \in Seq(O!Keys) /\ O!Range(d.baggageKeys) = O!Range(c.baggageKeys) \cup {o.v}
      BY <2>1, <3>1, RangeMore DEF BaggageAgrees
    <3>. HIDE DEF d, h
    <3>3. AskedOf(h) = AskedOf(g) \cup {o.v}
      BY <2>2, <2>4 DEF AskedOf
    <3>4. \A k \in KeysOf(h, "WithBaggageAttributes") : ~O!ValidBaggageKey(k) => RefusedKey(k) \in d.warned
      BY <1>2, <2>2, <2>4 DEF BaggageAgrees
    <3>. QED
      BY <1>1, <3>2, <3>3, <3>4 DEF BaggageAgrees, d, h
  <2>5. CASE o.v \notin O!Range(c.baggageKeys) /\ ~O!ValidBaggageKey(o.v)
    <3>1. d = O!Warn(c, "WithBaggageAttributes", o.v)
      BY <2>1, <2>5 DEF O!WithBaggageAttributes
    <3>2. d.baggageKeys = c.baggageKeys /\ RefusedKey(o.v) \in d.warned
      BY <3>1 DEF O!Warn, Shaped, Fields, RefusedKey
    <3>. HIDE DEF d, h
    <3>3. AskedOf(h) = AskedOf(g)
      BY <2>2, <2>5 DEF AskedOf
    <3>4. \A k \in KeysOf(h, "WithBaggageAttributes") : ~O!ValidBaggageKey(k) => RefusedKey(k) \in d.warned
      BY <1>2, <2>2, <3>2 DEF BaggageAgrees
    <3>. QED
      BY <1>1, <3>2, <3>3, <3>4 DEF BaggageAgrees, d, h
  <2>. QED
    BY <2>3, <2>4, <2>5
<1>. QED
  BY <1>3, <1>4

UserKeys(c) == IF c.userBaggage THEN {O!UserNameKey} ELSE {}

\* The first keys of a list, up to the cap.
LEMMA CappedKeys ==
  ASSUME NEW b \in Seq(O!Keys)
  PROVE  LET keys == O!Capped(b) IN
           /\ keys \in Seq(O!Keys) /\ O!Range(keys) \subseteq O!Range(b)
           /\ IsFiniteSet(O!Range(keys)) /\ Cardinality(O!Range(keys)) <= MaxBaggageAttributeKeys
<1>. DEFINE m == IF Len(b) < MaxBaggageAttributeKeys THEN Len(b) ELSE MaxBaggageAttributeKeys
            keys == O!Capped(b)
<1>1. m \in Nat /\ m <= Len(b) /\ m <= MaxBaggageAttributeKeys /\ Len(b) \in Nat
  BY LimitsAssumption
<1>2. keys = SubSeq(b, 1, m)
  BY DEF O!Capped
<1>. HIDE DEF m, keys
<1>3. keys \in Seq(O!Keys) /\ Len(keys) = m /\ \A i \in 1..m : keys[i] = b[i]
  BY <1>1, <1>2
<1>4. DOMAIN keys = 1..m /\ DOMAIN b = 1..Len(b)
  BY <1>3
<1>5. O!Range(keys) \subseteq O!Range(b)
  BY <1>1, <1>3, <1>4 DEF O!Range
<1>6. keys \in Surjection(1..m, O!Range(keys))
  BY <1>3, <1>4 DEF O!Range, Surjection
<1>7. IsFiniteSet(1..m) /\ Cardinality(1..m) = m
  BY <1>1, FS_Interval
<1>8. IsFiniteSet(O!Range(keys)) /\ Cardinality(O!Range(keys)) <= m
  BY <1>6, <1>7, FS_Surjection
<1>9. Cardinality(O!Range(keys)) \in Nat
  BY <1>8, FS_CardinalityType
<1>. QED
  BY <1>1, <1>3, <1>5, <1>8, <1>9, LimitsAssumption DEF keys

LEMMA RangeJoined ==
  ASSUME NEW T, NEW a \in Seq(T), NEW b \in Seq(T) PROVE O!Range(a \o b) = O!Range(a) \cup O!Range(b)
<1>1. DOMAIN (a \o b) = 1..(Len(a) + Len(b)) /\ DOMAIN a = 1..Len(a) /\ DOMAIN b = 1..Len(b) /\ Len(a) \in Nat /\ Len(b) \in Nat
  OBVIOUS
<1>2. \A i \in DOMAIN a : i \in DOMAIN (a \o b) /\ (a \o b)[i] = a[i]
  BY <1>1
<1>3. \A i \in DOMAIN b : Len(a) + i \in DOMAIN (a \o b) /\ (a \o b)[Len(a) + i] = b[i]
  BY <1>1
<1>4. ASSUME NEW i \in DOMAIN (a \o b) PROVE (a \o b)[i] \in O!Range(a) \cup O!Range(b)
  <2>1. CASE i <= Len(a)
    BY <1>1, <1>2, <2>1 DEF O!Range
  <2>2. CASE i > Len(a)
    <3>1. i - Len(a) \in DOMAIN b /\ Len(a) + (i - Len(a)) = i
      BY <1>1, <2>2
    <3>. QED
      BY <1>3, <3>1 DEF O!Range
  <2>. QED
    BY <1>1, <2>1, <2>2
<1>. QED
  BY <1>2, <1>3, <1>4, ZenonT(60) DEF O!Range

BagReady ==
  LET kept == O!Range(whitelist)
      own  == kept \ {O!UserNameKey}
  IN  /\ (AskedOf(given) \cup UserKeys(config)) \cap DOMAIN res = {}
      /\ kept \cap DOMAIN res = {}
      /\ own \subseteq AskedOf(given)
      /\ Cardinality(own) <= MaxBaggageAttributeKeys
      /\ O!UserNameKey \in kept <=> PlacesOf(given, "WithUserBaggage") # {}
      /\ \A k \in KeysOf(given, "WithBaggageAttributes") \ kept : RefusedKey(k) \in config.warned

BagInv ==
  /\ at \in {"options", "checked", "resource", "collision"} => BaggageAgrees(given, config)
  /\ at = "collision" => (AskedOf(given) \cup UserKeys(config)) \cap DOMAIN res # {}
  /\ at = "ready" => BagReady

LEMMA BagInitHolds == ASSUME O!Init PROVE BagInv
<1>1. given = <<>> /\ config = O!DefaultConfig(toggles) /\ at = "options"
  BY DEF O!Init
<1>2. config.baggageKeys = <<>> /\ config.userBaggage = FALSE
  BY <1>1 DEF O!DefaultConfig
<1>3. \A op : PlacesOf(given, op) = {} /\ KeysOf(given, op) = {}
  BY <1>1 DEF PlacesOf, KeysOf
<1>4. O!Range(<<>>) = {}
  BY DEF O!Range
<1>5. AskedOf(given) = {}
  BY <1>3 DEF AskedOf
<1>. QED
  <2>1. BaggageAgrees(given, config)
    BY <1>2, <1>3, <1>4, <1>5 DEF BaggageAgrees
  <2>. QED
    BY <1>1, <2>1 DEF BagInv

LEMMA BaggageKept ==
  ASSUME NEW g, NEW c, BaggageAgrees(g, c), NEW d, d.baggageKeys = c.baggageKeys,
         d.userBaggage = c.userBaggage, c.warned \subseteq d.warned
  PROVE  BaggageAgrees(g, d)
  BY DEF BaggageAgrees

LEMMA BagWithKeeps == ASSUME OptTyped, BagInv, NEW o \in O!Offered, O!With(o) PROVE BagInv'
<1>1. given' = Append(given, o) /\ config' = O!Apply(config, o) /\ at = "options" /\ at' = "options"
  BY DEF O!With
<1>2. o \in Offerings /\ O!IsOption(o) /\ given \in Seq(Offerings) /\ Shaped(config)
  BY OfferedIsOption, OfferingsAreOptions DEF OptTyped
<1>3. BaggageAgrees(given, config)'
  BY <1>1, <1>2, BaggageMore DEF BagInv
<1>. QED
  BY <1>1, <1>3 DEF BagInv

LEMMA BagCheckKeeps == ASSUME OptTyped, BagInv, O!Check PROVE BagInv'
<1>1. given' = given /\ at = "options" /\ at' \in {"checked", "failed"}
  BY DEF O!Check
<1>2. Shaped(config) /\ BaggageAgrees(given, config)
  BY <1>1 DEF OptTyped, BagInv
<1>3. /\ config'.baggageKeys = config.baggageKeys /\ config'.userBaggage = config.userBaggage
      /\ config'.warned = config.warned
  BY <1>2 DEF O!Check, O!ConfigureSampler, Shaped, Fields
<1>4. BaggageAgrees(given, config)'
  BY <1>1, <1>2, <1>3, BaggageKept
<1>. QED
  BY <1>1, <1>4 DEF BagInv

LEMMA BagBuildKeeps == ASSUME OptTyped, BagInv, O!BuildResource PROVE BagInv'
<1>1. given' = given /\ at = "checked" /\ at' = "resource"
  BY DEF O!BuildResource
<1>2. Shaped(config) /\ BaggageAgrees(given, config)
  BY <1>1 DEF OptTyped, BagInv
<1>3. PICK W : config' = [config EXCEPT !.warned = config.warned \cup W]
  BY DEF O!BuildResource
<1>4. /\ config'.baggageKeys = config.baggageKeys /\ config'.userBaggage = config.userBaggage
      /\ config.warned \subseteq config'.warned
  BY <1>2, <1>3 DEF Shaped, Fields
<1>5. BaggageAgrees(given, config)'
  BY <1>1, <1>2, <1>4, BaggageKept
<1>. QED
  BY <1>1, <1>5 DEF BagInv

\* Collisions are looked for before the cap, so that the order decides nothing.
LEMMA BagConfigureKeeps == ASSUME OptTyped, BagInv, O!ConfigureBaggageWhitelist PROVE BagInv'
<1>. DEFINE user == IF config.userBaggage THEN <<O!UserNameKey>> ELSE <<>>
            keys == O!Capped(config.baggageKeys)
            dropped == O!Range(config.baggageKeys) \ O!Range(keys)
<1>1. given' = given /\ res' = res /\ at = "resource"
  BY DEF O!ConfigureBaggageWhitelist
<1>2. Shaped(config) /\ BaggageAgrees(given, config)
  BY <1>1 DEF OptTyped, BagInv
<1>3. /\ config.baggageKeys \in Seq(O!Keys) /\ O!Range(config.baggageKeys) = AskedOf(given)
      /\ config.userBaggage <=> PlacesOf(given, "WithUserBaggage") # {}
  BY <1>2 DEF BaggageAgrees
<1>4. user \in Seq(O!Keys \cup {O!UserNameKey}) /\ O!Range(user) = UserKeys(config)
  <2>1. O!Range(<<>>) = {} /\ O!Range(<<O!UserNameKey>>) = {O!UserNameKey}
    BY DEF O!Range
  <2>2. CASE config.userBaggage
    BY <2>1, <2>2 DEF UserKeys
  <2>3. CASE ~config.userBaggage
    BY <2>1, <2>3 DEF UserKeys
  <2>. QED
    BY <2>2, <2>3
<1>5. Seq(O!Keys) \subseteq Seq(O!Keys \cup {O!UserNameKey})
  OBVIOUS
<1>6. /\ keys \in Seq(O!Keys) /\ O!Range(keys) \subseteq AskedOf(given)
      /\ IsFiniteSet(O!Range(keys)) /\ Cardinality(O!Range(keys)) <= MaxBaggageAttributeKeys
  BY <1>3, CappedKeys
<1>. HIDE DEF user, keys
<1>7. /\ O!Range(user \o config.baggageKeys) = UserKeys(config) \cup AskedOf(given)
      /\ O!Range(user \o keys) = UserKeys(config) \cup O!Range(keys)
  BY <1>3, <1>4, <1>5, <1>6, RangeJoined
<1>8. CASE O!Range(user \o config.baggageKeys) \cap DOMAIN res # {}
  <2>1. at' = "collision" /\ config' = config
    BY <1>8 DEF O!ConfigureBaggageWhitelist, user
  <2>. QED
    BY <1>1, <1>2, <1>7, <1>8, <2>1 DEF BagInv
<1>9. CASE O!Range(user \o config.baggageKeys) \cap DOMAIN res = {}
  <2>1. PICK W : /\ at' = "ready" /\ whitelist' = user \o keys
                 /\ config' = [config EXCEPT !.baggageKeys = keys,
                                 !.warned = config.warned \cup {RefusedKey(k) : k \in dropped} \cup W]
    BY <1>9, Zenon DEF O!ConfigureBaggageWhitelist, user, keys, RefusedKey
  <2>2. /\ config'.userBaggage = config.userBaggage
        /\ config'.warned = config.warned \cup {RefusedKey(k) : k \in dropped} \cup W
    BY <1>2, <2>1 DEF Shaped, Fields
  <2>3. O!Range(whitelist') = UserKeys(config) \cup O!Range(keys)
    BY <1>7, <2>1
  <2>4. UserKeys(config') = UserKeys(config) /\ UserKeys(config) \subseteq {O!UserNameKey}
    BY <2>2 DEF UserKeys
  <2>5. (AskedOf(given) \cup UserKeys(config)) \cap DOMAIN res = {} /\ O!Range(whitelist') \cap DOMAIN res = {}
    BY <1>6, <1>7, <1>9, <2>3
  <2>6. O!Range(whitelist') \ {O!UserNameKey} \subseteq O!Range(keys)
    BY <2>3, <2>4
  <2>7. Cardinality(O!Range(whitelist') \ {O!UserNameKey}) <= MaxBaggageAttributeKeys
    <3>1. /\ Cardinality(O!Range(whitelist') \ {O!UserNameKey}) <= Cardinality(O!Range(keys))
          /\ IsFiniteSet(O!Range(whitelist') \ {O!UserNameKey})
      BY <1>6, <2>6, FS_Subset
    <3>2. Cardinality(O!Range(whitelist') \ {O!UserNameKey}) \in Nat /\ Cardinality(O!Range(keys)) \in Nat
      BY <1>6, <3>1, FS_CardinalityType
    <3>. QED
      BY <1>6, <3>1, <3>2, LimitsAssumption
  <2>8. O!UserNameKey \in O!Range(whitelist') <=> PlacesOf(given, "WithUserBaggage") # {}
    <3>1. O!UserNameKey \notin AskedOf(given)
      BY DEF AskedOf, O!ValidBaggageKey
    <3>. QED
      BY <1>3, <1>6, <2>3, <3>1 DEF UserKeys
  <2>9. ASSUME NEW k \in KeysOf(given, "WithBaggageAttributes") \ O!Range(whitelist') PROVE RefusedKey(k) \in config'.warned
    <3>1. CASE O!ValidBaggageKey(k)
      <4>1. k \in dropped
        BY <1>3, <2>3, <3>1 DEF AskedOf
      <4>. QED
        BY <2>2, <4>1
    <3>2. CASE ~O!ValidBaggageKey(k)
      BY <1>2, <2>2, <3>2 DEF BaggageAgrees
    <3>. QED
      BY <3>1, <3>2
  <2>10. BagReady'
    BY <1>1, <1>6, <2>4, <2>5, <2>6, <2>7, <2>8, <2>9 DEF BagReady
  <2>. QED
    BY <2>1, <2>10 DEF BagInv
<1>. QED
  BY <1>8, <1>9

LEMMA BagStepKeeps == ASSUME OptTyped, BagInv, O!Next PROVE BagInv'
  BY BagWithKeeps, BagCheckKeeps, BagBuildKeeps, BagConfigureKeeps DEF O!Next

LEMMA BagMeans == ASSUME BagInv PROVE O!BaggageSafe
<1>1. \A op : O!At(op) = PlacesOf(given, op) /\ O!GivenKeys(op) = KeysOf(given, op)
  BY DEF O!At, O!GivenKeys, PlacesOf, KeysOf
<1>2. {k \in O!GivenKeys("WithBaggageAttributes") : O!ValidBaggageKey(k)} = AskedOf(given)
  BY <1>1 DEF AskedOf
<1>3. (IF config.userBaggage THEN {O!UserNameKey} ELSE {}) = UserKeys(config)
  BY DEF UserKeys
<1>4. O!Cardinality(O!Range(whitelist) \ {O!UserNameKey}) = Cardinality(O!Range(whitelist) \ {O!UserNameKey})
  BY SameCardinality
<1>. QED
  BY <1>1, <1>2, <1>3, <1>4 DEF BagInv, BagReady, RefusedKey, O!BaggageSafe

\* Which baggage keys Init accepts does not depend on their order, and what it
\* accepts shadows no attribute of the Resource and stays within the limit; what
\* it leaves out is warned of (configureBaggageWhitelist, WithBaggageAttributes).
THEOREM BaggageKeysSafe == Spec => []BaggageSafe
<1>. DEFINE Inv == which = "options" => OptInv /\ BagInv
<1>1. Init => Inv
  BY OptInitHolds, BagInitHolds DEF Init
<1>2. Inv /\ [Next]_vars => Inv'
  <2>1. ASSUME Inv, Next PROVE Inv'
    BY <2>1, OptStepKeeps, BagStepKeeps DEF Next, OptInv
  <2>2. ASSUME Inv, UNCHANGED vars PROVE Inv'
    <3>1. BagInv => BagInv'
      BY <2>2 DEF vars, optVars, BagInv, BagReady
    <3>. QED
      BY <2>2, <3>1, OptStill DEF vars
  <2>. QED
    BY <2>1, <2>2
<1>3. Inv => BaggageSafe
  BY BagMeans DEF BaggageSafe
<1>. QED
  BY <1>1, <1>2, <1>3, PTL DEF Spec

-----------------------------------------------------------------------------
(***************************************************************************)
(* Keys and their labels.  Passes over the characters of a key are         *)
(* recursive functions: there is one for every step function, and what     *)
(* every step keeps holds of all of it.                                    *)
(***************************************************************************)

\* Counting up to n.
LEMMA UpTo ==
  ASSUME NEW n \in Nat, NEW P, 0 \in P, \A i \in 1..n : i - 1 \in P => i \in P
  PROVE  0..n \subseteq P
<1>. DEFINE bad == {i \in 0..n : i \notin P}
<1>1. SUFFICES ASSUME bad # {} PROVE FALSE
  OBVIOUS
<1>2. PICK m \in bad : \A k \in bad : m <= k
  <2>1. bad \subseteq Nat
    OBVIOUS
  <2>. HIDE DEF bad
  <2>. QED
    BY <1>1, <2>1, LeastNumber
<1>3. m \in 1..n /\ m - 1 \in 0..n /\ m \notin P
  OBVIOUS
<1>4. m - 1 \notin bad
  BY <1>2, <1>3
<1>. QED
  BY <1>3, <1>4

\* A pass with the steps of st, from a.
IsWalk(f, a, st, n, D) ==
  /\ f \in [0..n -> D] /\ f[0] = a
  /\ \A i \in 1..n : f[i] = st[<<f[i - 1], i>>]

LEMMA WalkExists ==
  ASSUME NEW D, NEW a \in D, NEW st \in [D \X Nat -> D], NEW n \in Nat
  PROVE  \E f : IsWalk(f, a, st, n, D)
<1>. DEFINE P == {m \in Nat : \E f : IsWalk(f, a, st, m, D)}
<1>1. 0 \in P
  <2>1. PICK f : f = [i \in 0..0 |-> a]
    OBVIOUS
  <2>2. IsWalk(f, a, st, 0, D)
    BY <2>1 DEF IsWalk
  <2>. QED
    BY <2>2
<1>2. ASSUME NEW m \in 1..n, m - 1 \in P PROVE m \in P
  <2>1. PICK h : IsWalk(h, a, st, m - 1, D)
    BY <1>2
  <2>2. h \in [0..(m - 1) -> D] /\ h[0] = a /\ \A i \in 1..(m - 1) : h[i] = st[<<h[i - 1], i>>]
    BY <2>1 DEF IsWalk
  <2>3. m \in Nat /\ m # 0 /\ m - 1 \in 0..(m - 1)
    OBVIOUS
  <2>4. PICK x : x = st[<<h[m - 1], m>>] /\ x \in D
    BY <2>2, <2>3
  <2>5. PICK f : f = [i \in 0..m |-> IF i = m THEN x ELSE h[i]]
    OBVIOUS
  <2>6. \A i \in 0..m : i # m => i \in 0..(m - 1)
    BY <2>3
  <2>7. f \in [0..m -> D] /\ f[0] = a
    BY <2>2, <2>3, <2>4, <2>5, <2>6
  <2>8. ASSUME NEW i \in 1..m PROVE f[i] = st[<<f[i - 1], i>>]
    <3>1. i - 1 \in 0..m /\ i - 1 # m /\ f[i - 1] = h[i - 1]
      BY <2>3, <2>5
    <3>2. CASE i = m
      BY <2>4, <2>5, <3>1, <3>2
    <3>3. CASE i # m
      BY <2>2, <2>5, <3>1, <3>3
    <3>. QED
      BY <3>2, <3>3
  <2>9. IsWalk(f, a, st, m, D)
    BY <2>7, <2>8 DEF IsWalk
  <2>. QED
    BY <2>3, <2>9
<1>. HIDE DEF P
<1>3. 0..n \subseteq P
  BY <1>1, <1>2, UpTo
<1>4. n \in P
  BY <1>3
<1>. QED
  BY <1>4 DEF P

Signs == Chars \cup {"_", ".", "d", "h", "i", "k", "l", "n", "o", "p", "s", "t"}

LEMMA CollapseType ==
  ASSUME NEW s \in Seq(Signs), NEW c \in Signs PROVE O!CollapseStep(s, c) \in Seq(Signs)
<1>1. "_" \in Signs
  BY DEF Signs
<1>2. O!CollapseStep(s, c) \in {s, Append(s, c), Append(s, "_")}
  BY DEF O!CollapseStep
<1>3. \A x \in Signs : Append(s, x) \in Seq(Signs)
  OBVIOUS
<1>4. Append(s, c) \in Seq(Signs) /\ Append(s, "_") \in Seq(Signs)
  BY <1>1, <1>3, Zenon
<1>. QED
  BY <1>2, <1>4

\* Collapse is the last of its pass.
LEMMA CollapseWalk ==
  ASSUME NEW k \in Seq(Signs)
  PROVE  \E out : /\ out \in [0..Len(k) -> Seq(Signs)] /\ out[0] = <<>>
                  /\ \A i \in 1..Len(k) : out[i] = O!CollapseStep(out[i - 1], k[i])
                  /\ O!Collapse(k) = out[Len(k)]
<1>. DEFINE n == Len(k)
            Is(g) == g = [i \in 0..n |-> IF i = 0 THEN <<>> ELSE O!CollapseStep(g[i - 1], k[i])]
            f == CHOOSE g : Is(g)
<1>1. O!Collapse(k) = f[n]
  BY Zenon DEF O!Collapse
<1>2. PICK st : st = [p \in Seq(Signs) \X Nat |-> IF p[2] \in 1..n THEN O!CollapseStep(p[1], k[p[2]]) ELSE <<>>]
  OBVIOUS
<1>3. n \in Nat /\ \A i \in 1..n : k[i] \in Signs
  OBVIOUS
<1>. HIDE DEF n
<1>4. st \in [Seq(Signs) \X Nat -> Seq(Signs)]
  <2>1. ASSUME NEW p \in Seq(Signs) \X Nat PROVE (IF p[2] \in 1..n THEN O!CollapseStep(p[1], k[p[2]]) ELSE <<>>) \in Seq(Signs)
    BY <1>3, CollapseType
  <2>. QED
    BY <1>2, <2>1
<1>5. <<>> \in Seq(Signs)
  OBVIOUS
<1>6. PICK h : IsWalk(h, <<>>, st, n, Seq(Signs))
  BY <1>3, <1>4, <1>5, WalkExists
<1>7. h \in [0..n -> Seq(Signs)] /\ h[0] = <<>> /\ \A i \in 1..n : h[i] = O!CollapseStep(h[i - 1], k[i])
  <2>1. h \in [0..n -> Seq(Signs)] /\ h[0] = <<>> /\ \A i \in 1..n : h[i] = st[<<h[i - 1], i>>]
    BY <1>6 DEF IsWalk
  <2>2. \A i \in 1..n : i - 1 \in 0..n /\ i \in Nat
    BY <1>3
  <2>3. \A i \in 1..n : st[<<h[i - 1], i>>] = O!CollapseStep(h[i - 1], k[i])
    BY <1>2, <2>1, <2>2
  <2>. QED
    BY <2>1, <2>3
<1>8. Is(h)
  BY <1>3, <1>7
<1>9. Is(f)
  BY <1>8, Zenon
<1>10. PICK e : e = f
  OBVIOUS
<1>11. e = [i \in 0..n |-> IF i = 0 THEN <<>> ELSE O!CollapseStep(e[i - 1], k[i])]
  BY <1>9, <1>10, Zenon
<1>12. DOMAIN e = 0..n /\ e[0] = <<>> /\ \A i \in 1..n : e[i] = O!CollapseStep(e[i - 1], k[i])
  BY <1>3, <1>11
<1>13. e \in [0..n -> Seq(Signs)]
  <2>. DEFINE P == {i \in 0..n : e[i] \in Seq(Signs)}
  <2>1. 0 \in P
    <3>1. 0 \in 0..n
      BY <1>3
    <3>2. e[0] \in Seq(Signs)
      BY <1>5, <1>12, Zenon
    <3>. QED
      BY <3>1, <3>2
  <2>2. ASSUME NEW i \in 1..n, i - 1 \in P PROVE i \in P
    <3>1. e[i - 1] \in Seq(Signs) /\ k[i] \in Signs /\ e[i] = O!CollapseStep(e[i - 1], k[i]) /\ i \in 0..n
      BY <1>3, <1>12, <2>2
    <3>. QED
      BY <3>1, CollapseType
  <2>. HIDE DEF P
  <2>3. 0..n \subseteq P
    BY <1>3, <2>1, <2>2, UpTo
  <2>4. e = [i \in 0..n |-> e[i]]
    BY <1>11
  <2>. QED
    BY <2>3, <2>4 DEF P
<1>14. O!Collapse(k) = e[n]
  BY <1>1, <1>10, Zenon
<1>. QED
  BY <1>12, <1>13, <1>14 DEF n

Under == "_"

\* What a character becomes.
SignOf(c) == IF O!Alphanumeric(c) THEN c ELSE Under

\* One character more: r of length m from q of length n.
Takes(q, n, c, r, m) ==
  \/ ~O!Alphanumeric(c) /\ n >= 1 /\ q[n] = Under /\ r = q /\ m = n
  \/ /\ O!Alphanumeric(c) \/ n = 0 \/ q[n] # Under
     /\ m = n + 1 /\ r[n + 1] = SignOf(c) /\ \A p \in 1..n : r[p] = q[p]

LEMMA CollapseTakes ==
  ASSUME NEW q \in Seq(Signs), NEW c
  PROVE  LET r == O!CollapseStep(q, c) IN Takes(q, Len(q), c, r, Len(r))
<1>. DEFINE r == O!CollapseStep(q, c)
<1>1. (q # <<>> <=> Len(q) >= 1) /\ (Len(q) >= 1 \/ Len(q) = 0)
  OBVIOUS
<1>2. ASSUME NEW x PROVE LET t == Append(q, x) IN Len(t) = Len(q) + 1 /\ t[Len(q) + 1] = x /\ \A p \in 1..Len(q) : t[p] = q[p]
  <2>1. PICK T : q \in Seq(T) /\ x \in T
    <3>1. q \in Seq(Signs \cup {x}) /\ x \in Signs \cup {x}
      OBVIOUS
    <3>. QED
      BY <3>1
  <2>. QED
    BY <2>1
<1>3. CASE ~O!Alphanumeric(c) /\ Len(q) >= 1 /\ q[Len(q)] = Under
  <2>1. r = q
    BY <1>1, <1>3, Zenon DEF O!CollapseStep, O!Last, Under
  <2>. QED
    BY <1>3, <2>1, Zenon DEF Takes
<1>4. CASE O!Alphanumeric(c) \/ Len(q) = 0 \/ q[Len(q)] # Under
  <2>1. ~(Len(q) = 0 /\ Len(q) >= 1)
    OBVIOUS
  <2>2. r = Append(q, SignOf(c))
    BY <1>1, <1>4, <2>1, Zenon DEF O!CollapseStep, O!Last, SignOf, Under
  <2>3. Len(r) = Len(q) + 1 /\ r[Len(q) + 1] = SignOf(c) /\ \A p \in 1..Len(q) : r[p] = q[p]
    BY <1>2, <2>2, ZenonT(60)
  <2>. QED
    BY <1>4, <2>3, Zenon DEF Takes
<1>. QED
  BY <1>1, <1>3, <1>4, Zenon

\* The label so far, of length n: no two underscores in a row, letters where
\* there are any, the first one the first character's.
Collapsed(q, n, k, i) ==
  /\ \A p \in 1..n : O!Alphanumeric(q[p]) \/ q[p] = Under
  /\ \A p \in 1..(n - 1) : ~(q[p] = Under /\ q[p + 1] = Under)
  /\ (\E p \in 1..n : O!Alphanumeric(q[p])) <=> (\E j \in 1..i : O!Alphanumeric(k[j]))
  /\ i >= 1 => n >= 1 /\ q[1] = SignOf(k[1])
  /\ i = 0 => n = 0

LEMMA CollapsedStep ==
  ASSUME NEW k, NEW i \in Nat, i >= 1, NEW q, NEW n \in Nat, NEW r, NEW m \in Nat,
         Collapsed(q, n, k, i - 1), Takes(q, n, k[i], r, m)
  PROVE  Collapsed(r, m, k, i)
<1>1. \A j \in 1..i : j \in 1..(i - 1) \/ j = i
  OBVIOUS
<1>2. (\A j \in 1..(i - 1) : j \in 1..i) /\ i \in 1..i
  OBVIOUS
<1>3. (\E j \in 1..i : O!Alphanumeric(k[j])) <=> (\E j \in 1..(i - 1) : O!Alphanumeric(k[j])) \/ O!Alphanumeric(k[i])
  BY <1>1, <1>2
<1>4. CASE ~O!Alphanumeric(k[i]) /\ n >= 1 /\ q[n] = Under /\ r = q /\ m = n
  BY <1>3, <1>4 DEF Collapsed
<1>5. CASE /\ O!Alphanumeric(k[i]) \/ n = 0 \/ q[n] # Under
           /\ m = n + 1 /\ r[n + 1] = SignOf(k[i]) /\ \A p \in 1..n : r[p] = q[p]
  <2>1. /\ O!Alphanumeric(SignOf(k[i])) <=> O!Alphanumeric(k[i])
        /\ O!Alphanumeric(SignOf(k[i])) \/ SignOf(k[i]) = Under
        /\ O!Alphanumeric(k[i]) => SignOf(k[i]) # Under
    BY Zenon DEF SignOf, O!Alphanumeric, Under
  <2>2. \A p \in 1..m : p \in 1..n \/ p = n + 1
    BY <1>5
  <2>3. (\A p \in 1..n : p \in 1..m) /\ n + 1 \in 1..m
    BY <1>5
  <2>4. \A p \in 1..m : O!Alphanumeric(r[p]) \/ r[p] = Under
    BY <1>5, <2>1, <2>2 DEF Collapsed
  <2>5. ASSUME NEW p \in 1..(m - 1), r[p] = Under, r[p + 1] = Under PROVE FALSE
    <3>1. CASE p = n
      <4>1. q[n] = Under /\ SignOf(k[i]) = Under /\ n # 0
        BY <1>5, <2>5, <3>1
      <4>. QED
        BY <1>5, <2>1, <4>1
    <3>2. CASE p # n
      <4>1. p \in 1..(n - 1) /\ p \in 1..n /\ p + 1 \in 1..n
        BY <1>5, <3>2
      <4>2. q[p] = Under /\ q[p + 1] = Under
        BY <1>5, <2>5, <4>1
      <4>. QED
        BY <4>1, <4>2 DEF Collapsed
    <3>. QED
      BY <3>1, <3>2
  <2>6. (\E p \in 1..m : O!Alphanumeric(r[p])) <=> (\E p \in 1..n : O!Alphanumeric(q[p])) \/ O!Alphanumeric(k[i])
    BY <1>5, <2>1, <2>2, <2>3
  <2>7. m >= 1 /\ r[1] = SignOf(k[1])
    <3>1. CASE i = 1
      <4>1. n = 0
        BY <3>1 DEF Collapsed
      <4>. QED
        BY <1>5, <3>1, <4>1
    <3>2. CASE i # 1
      <4>1. n >= 1 /\ q[1] = SignOf(k[1])
        BY <3>2 DEF Collapsed
      <4>. QED
        BY <1>5, <4>1
    <3>. QED
      BY <3>1, <3>2
  <2>. QED
    BY <1>3, <2>4, <2>5, <2>6, <2>7 DEF Collapsed
<1>. QED
  BY <1>4, <1>5 DEF Takes

LEMMA CollapseIs ==
  ASSUME NEW k \in Seq(Signs)
  PROVE  O!Collapse(k) \in Seq(Signs) /\ Collapsed(O!Collapse(k), Len(O!Collapse(k)), k, Len(k))
<1>1. PICK out : /\ out \in [0..Len(k) -> Seq(Signs)] /\ out[0] = <<>>
                 /\ \A i \in 1..Len(k) : out[i] = O!CollapseStep(out[i - 1], k[i])
                 /\ O!Collapse(k) = out[Len(k)]
  BY CollapseWalk
<1>2. Len(k) \in Nat
  OBVIOUS
<1>3. PICK N \in Nat : N = Len(k)
  BY <1>2
<1>. DEFINE P == {i \in 0..N : Collapsed(out[i], Len(out[i]), k, i)}
<1>4. 0 \in P
  <2>1. Len(out[0]) = 0
    BY <1>1
  <2>. QED
    BY <1>3, <2>1 DEF Collapsed
<1>5. ASSUME NEW i \in 1..N, i - 1 \in P PROVE i \in P
  <2>1. i \in 0..N /\ i - 1 \in 0..N /\ i \in Nat /\ i >= 1
    BY <1>3
  <2>2. out[i - 1] \in Seq(Signs) /\ out[i] \in Seq(Signs) /\ out[i] = O!CollapseStep(out[i - 1], k[i])
    BY <1>1, <1>3, <2>1
  <2>3. Takes(out[i - 1], Len(out[i - 1]), k[i], out[i], Len(out[i]))
    BY <2>2, CollapseTakes
  <2>4. Len(out[i - 1]) \in Nat /\ Len(out[i]) \in Nat
    BY <2>2
  <2>5. Collapsed(out[i - 1], Len(out[i - 1]), k, i - 1)
    BY <1>5
  <2>6. Collapsed(out[i], Len(out[i]), k, i)
    BY <2>1, <2>3, <2>4, <2>5, CollapsedStep
  <2>. QED
    BY <2>1, <2>6
<1>. HIDE DEF P
<1>6. 0..N \subseteq P
  BY <1>3, <1>4, <1>5, UpTo
<1>7. N \in P /\ out[N] \in Seq(Signs)
  BY <1>1, <1>3, <1>6
<1>. QED
  BY <1>1, <1>3, <1>7 DEF P

-----------------------------------------------------------------------------
(* The matcher walks a key as Collapse does, without building the label. *)

Walks == [matched : Nat, complete : BOOLEAN, prevUnderscore : BOOLEAN]
Start == [matched |-> 0, complete |-> TRUE, prevUnderscore |-> FALSE]

\* One character more, of a label want of length w.
Moves(m, c, want, w, t) ==
  LET again == SignOf(c) = Under /\ m.prevUnderscore
      fits  == m.matched < w /\ want[m.matched + 1] = SignOf(c)
  IN  \/ (~m.complete \/ again) /\ t = m
      \/ m.complete /\ ~again /\ fits /\ t.matched = m.matched + 1 /\ t.complete /\ (t.prevUnderscore <=> SignOf(c) = Under)
      \/ m.complete /\ ~again /\ ~fits /\ t.matched = m.matched /\ ~t.complete

LEMMA MatchMoves ==
  ASSUME NEW m \in Walks, NEW c, NEW want
  PROVE  LET t == O!MatchStep(m, c, want) IN t \in Walks /\ Moves(m, c, want, Len(want), t)
<1>. DEFINE t == O!MatchStep(m, c, want)
            again == SignOf(c) = Under /\ m.prevUnderscore
            fits == m.matched < Len(want) /\ want[m.matched + 1] = SignOf(c)
<1>1. t = IF ~m.complete \/ again THEN m
          ELSE IF fits THEN [matched |-> m.matched + 1, complete |-> TRUE, prevUnderscore |-> SignOf(c) = Under]
          ELSE [m EXCEPT !.complete = FALSE]
  BY Zenon DEF O!MatchStep, SignOf, Under
<1>. HIDE DEF t
<1>2. CASE ~m.complete \/ again
  BY <1>1, <1>2 DEF Moves, t
<1>3. CASE m.complete /\ ~again /\ fits
  <2>1. t = [matched |-> m.matched + 1, complete |-> TRUE, prevUnderscore |-> SignOf(c) = Under]
    BY <1>1, <1>3
  <2>2. PICK b \in BOOLEAN : b = (SignOf(c) = Under)
    BY Zenon
  <2>3. t = [matched |-> m.matched + 1, complete |-> TRUE, prevUnderscore |-> b]
    BY <2>1, <2>2, Zenon
  <2>4. t \in Walks /\ t.matched = m.matched + 1 /\ t.complete /\ t.prevUnderscore = b
    BY <2>3 DEF Walks
  <2>. QED
    BY <1>3, <2>2, <2>4 DEF Moves, t
<1>4. CASE m.complete /\ ~again /\ ~fits
  <2>1. t = [m EXCEPT !.complete = FALSE]
    BY <1>1, <1>4
  <2>2. t \in Walks /\ t.matched = m.matched /\ ~t.complete
    BY <2>1 DEF Walks
  <2>. QED
    BY <1>4, <2>2 DEF Moves, t
<1>. QED
  BY <1>2, <1>3, <1>4 DEF Walks

\* What the matcher knows of the label so far, q of length n.
Matched(m, q, n, want, w) ==
  /\ m.matched <= w /\ m.matched <= n
  /\ \A p \in 1..m.matched : q[p] = want[p]
  /\ m.complete => n = m.matched /\ (m.prevUnderscore <=> n >= 1 /\ q[n] = Under)
  /\ ~m.complete => n > m.matched /\ (m.matched = w \/ q[m.matched + 1] # want[m.matched + 1])

LEMMA MatchedStep ==
  ASSUME NEW m \in Walks, NEW t \in Walks, NEW q, NEW n \in Nat, NEW r, NEW l \in Nat, NEW want, NEW w \in Nat, NEW c,
         Matched(m, q, n, want, w), Takes(q, n, c, r, l), Moves(m, c, want, w, t)
  PROVE  Matched(t, r, l, want, w)
<1>0. m.matched \in Nat /\ t.matched \in Nat /\ m.complete \in BOOLEAN /\ t.complete \in BOOLEAN /\ m.prevUnderscore \in BOOLEAN
  BY DEF Walks
<1>1. O!Alphanumeric(c) <=> SignOf(c) # Under
  BY Zenon DEF SignOf, O!Alphanumeric, Under
<1>2. CASE ~O!Alphanumeric(c) /\ n >= 1 /\ q[n] = Under /\ r = q /\ l = n
  <2>1. ~m.complete \/ m.prevUnderscore
    BY <1>2 DEF Matched
  <2>2. t = m
    BY <1>0, <1>1, <1>2, <2>1 DEF Moves
  <2>. QED
    BY <1>2, <2>2
<1>3. CASE /\ O!Alphanumeric(c) \/ n = 0 \/ q[n] # Under
           /\ l = n + 1 /\ r[n + 1] = SignOf(c) /\ \A p \in 1..n : r[p] = q[p]
  <2>1. CASE ~m.complete
    <3>1. t = m
      BY <2>1 DEF Moves
    <3>2. n > m.matched /\ (m.matched = w \/ q[m.matched + 1] # want[m.matched + 1])
      BY <2>1 DEF Matched
    <3>3. m.matched + 1 \in 1..n /\ \A p \in 1..m.matched : p \in 1..n
      BY <1>0, <3>2
    <3>. QED
      BY <1>0, <1>3, <2>1, <3>1, <3>2, <3>3 DEF Matched
  <2>2. CASE m.complete
    <3>1. n = m.matched /\ (m.prevUnderscore <=> n >= 1 /\ q[n] = Under) /\ n <= w /\ \A p \in 1..n : q[p] = want[p]
      BY <2>2 DEF Matched
    <3>2. ~(SignOf(c) = Under /\ m.prevUnderscore)
      BY <1>1, <1>3, <3>1
    <3>3. CASE n < w /\ want[n + 1] = SignOf(c)
      <4>1. t.matched = n + 1 /\ t.complete /\ (t.prevUnderscore <=> SignOf(c) = Under)
        BY <2>2, <3>1, <3>2, <3>3 DEF Moves
      <4>2. \A p \in 1..(n + 1) : p \in 1..n \/ p = n + 1
        OBVIOUS
      <4>3. \A p \in 1..t.matched : r[p] = want[p]
        BY <1>3, <3>1, <3>3, <4>1, <4>2
      <4>. QED
        BY <1>0, <1>3, <3>3, <4>1, <4>3 DEF Matched
    <3>4. CASE ~(n < w /\ want[n + 1] = SignOf(c))
      <4>1. t.matched = n /\ ~t.complete
        BY <2>2, <3>1, <3>2, <3>4 DEF Moves
      <4>2. \A p \in 1..n : r[p] = want[p]
        BY <1>3, <3>1
      <4>. QED
        BY <1>0, <1>3, <3>1, <3>4, <4>1, <4>2 DEF Matched
    <3>. QED
      BY <3>3, <3>4
  <2>. QED
    BY <1>0, <2>1, <2>2
<1>. QED
  BY <1>2, <1>3 DEF Takes

\* NormalizedMatchLen is the last of its pass.
LEMMA MatchWalk ==
  ASSUME NEW k \in Seq(Signs), NEW want
  PROVE  \E walk : /\ walk \in [0..Len(k) -> Walks] /\ walk[0] = Start
                   /\ \A i \in 1..Len(k) : walk[i] = O!MatchStep(walk[i - 1], k[i], want)
                   /\ O!NormalizedMatchLen(k, want) = walk[Len(k)]
<1>. DEFINE n == Len(k)
            Is(g) == g = [i \in 0..n |-> IF i = 0 THEN [matched |-> 0, complete |-> TRUE, prevUnderscore |-> FALSE]
                                         ELSE O!MatchStep(g[i - 1], k[i], want)]
            f == CHOOSE g : Is(g)
<1>1. O!NormalizedMatchLen(k, want) = f[n]
  BY Zenon DEF O!NormalizedMatchLen
<1>2. PICK st : st = [p \in Walks \X Nat |-> O!MatchStep(p[1], k[p[2]], want)]
  OBVIOUS
<1>3. n \in Nat /\ Start \in Walks
  BY DEF Start, Walks
<1>. HIDE DEF n
<1>4. st \in [Walks \X Nat -> Walks]
  BY <1>2, MatchMoves
<1>5. PICK h : IsWalk(h, Start, st, n, Walks)
  BY <1>3, <1>4, WalkExists
<1>6. h \in [0..n -> Walks] /\ h[0] = Start /\ \A i \in 1..n : h[i] = O!MatchStep(h[i - 1], k[i], want)
  <2>1. h \in [0..n -> Walks] /\ h[0] = Start /\ \A i \in 1..n : h[i] = st[<<h[i - 1], i>>]
    BY <1>5 DEF IsWalk
  <2>2. \A i \in 1..n : i - 1 \in 0..n /\ i \in Nat
    BY <1>3
  <2>3. \A i \in 1..n : st[<<h[i - 1], i>>] = O!MatchStep(h[i - 1], k[i], want)
    BY <1>2, <2>1, <2>2
  <2>. QED
    BY <2>1, <2>3
<1>7. Is(h)
  BY <1>3, <1>6 DEF Start
<1>8. Is(f)
  BY <1>7, Zenon
<1>9. PICK e : e = f
  OBVIOUS
<1>10. e = [i \in 0..n |-> IF i = 0 THEN Start ELSE O!MatchStep(e[i - 1], k[i], want)]
  BY <1>8, <1>9, Zenon DEF Start
<1>11. DOMAIN e = 0..n /\ e[0] = Start /\ \A i \in 1..n : e[i] = O!MatchStep(e[i - 1], k[i], want)
  BY <1>3, <1>10
<1>12. e \in [0..n -> Walks]
  <2>. DEFINE P == {i \in 0..n : e[i] \in Walks}
  <2>1. 0 \in P
    BY <1>3, <1>11
  <2>2. ASSUME NEW i \in 1..n, i - 1 \in P PROVE i \in P
    <3>1. e[i - 1] \in Walks /\ e[i] = O!MatchStep(e[i - 1], k[i], want) /\ i \in 0..n
      BY <1>3, <1>11, <2>2
    <3>. QED
      BY <3>1, MatchMoves
  <2>. HIDE DEF P
  <2>3. 0..n \subseteq P
    BY <1>3, <2>1, <2>2, UpTo
  <2>4. e = [i \in 0..n |-> e[i]]
    BY <1>10
  <2>. QED
    BY <2>3, <2>4 DEF P
<1>13. O!NormalizedMatchLen(k, want) = e[n]
  BY <1>1, <1>9, Zenon
<1>. QED
  BY <1>11, <1>12, <1>13 DEF n

LEMMA MatchIs ==
  ASSUME NEW k \in Seq(Signs), NEW want, Len(want) \in Nat
  PROVE  LET m == O!NormalizedMatchLen(k, want) IN
           m \in Walks /\ Matched(m, O!Collapse(k), Len(O!Collapse(k)), want, Len(want))
<1>1. PICK out : /\ out \in [0..Len(k) -> Seq(Signs)] /\ out[0] = <<>>
                 /\ \A i \in 1..Len(k) : out[i] = O!CollapseStep(out[i - 1], k[i])
                 /\ O!Collapse(k) = out[Len(k)]
  BY CollapseWalk
<1>2. PICK walk : /\ walk \in [0..Len(k) -> Walks] /\ walk[0] = Start
                  /\ \A i \in 1..Len(k) : walk[i] = O!MatchStep(walk[i - 1], k[i], want)
                  /\ O!NormalizedMatchLen(k, want) = walk[Len(k)]
  BY MatchWalk
<1>3. PICK N \in Nat : N = Len(k)
  OBVIOUS
<1>4. PICK w \in Nat : w = Len(want)
  OBVIOUS
<1>. DEFINE P == {i \in 0..N : Matched(walk[i], out[i], Len(out[i]), want, w)}
<1>5. 0 \in P
  <2>1. Len(out[0]) = 0
    BY <1>1
  <2>2. walk[0].matched = 0 /\ walk[0].complete = TRUE /\ walk[0].prevUnderscore = FALSE
    BY <1>2 DEF Start
  <2>. QED
    BY <1>3, <2>1, <2>2 DEF Matched
<1>6. ASSUME NEW i \in 1..N, i - 1 \in P PROVE i \in P
  <2>1. i \in 0..N /\ i - 1 \in 0..N
    BY <1>3
  <2>2. out[i - 1] \in Seq(Signs) /\ out[i] \in Seq(Signs) /\ out[i] = O!CollapseStep(out[i - 1], k[i])
    BY <1>1, <1>3, <2>1
  <2>3. walk[i - 1] \in Walks /\ walk[i] \in Walks /\ walk[i] = O!MatchStep(walk[i - 1], k[i], want)
    BY <1>2, <1>3, <2>1
  <2>4. Takes(out[i - 1], Len(out[i - 1]), k[i], out[i], Len(out[i]))
    BY <2>2, CollapseTakes
  <2>5. Moves(walk[i - 1], k[i], want, w, walk[i])
    BY <1>4, <2>3, MatchMoves
  <2>6. Len(out[i - 1]) \in Nat /\ Len(out[i]) \in Nat
    BY <2>2
  <2>7. Matched(walk[i - 1], out[i - 1], Len(out[i - 1]), want, w)
    BY <1>6
  <2>8. Matched(walk[i], out[i], Len(out[i]), want, w)
    BY <2>3, <2>4, <2>5, <2>6, <2>7, MatchedStep
  <2>. QED
    BY <2>1, <2>8
<1>. HIDE DEF P
<1>7. 0..N \subseteq P
  BY <1>3, <1>5, <1>6, UpTo
<1>8. N \in P /\ walk[N] \in Walks
  BY <1>2, <1>3, <1>7
<1>. QED
  BY <1>1, <1>2, <1>3, <1>4, <1>8 DEF P

\* So it answers as the label would.
LEMMA MatchAnswers ==
  ASSUME NEW k \in Seq(Signs), NEW want \in Seq(Signs)
  PROVE  /\ O!NormalizedEquals(k, want) <=> O!Collapse(k) = want
         /\ O!NormalizedHasPrefix(k, want) <=>
              Len(want) <= Len(O!Collapse(k)) /\ \A p \in 1..Len(want) : O!Collapse(k)[p] = want[p]
<1>. DEFINE m == O!NormalizedMatchLen(k, want)
<1>1. PICK q \in Seq(Signs) : q = O!Collapse(k)
  BY CollapseIs
<1>2. m \in Walks /\ Matched(m, q, Len(q), want, Len(want))
  BY <1>1, MatchIs
<1>3. Len(q) \in Nat /\ Len(want) \in Nat /\ m.matched \in Nat /\ m.complete \in BOOLEAN
  BY <1>2 DEF Walks
<1>4. q = want <=> Len(q) = Len(want) /\ \A p \in 1..Len(want) : q[p] = want[p]
  OBVIOUS
<1>5. O!NormalizedEquals(k, want) <=> m.complete /\ m.matched = Len(want)
  BY DEF O!NormalizedEquals
<1>6. O!NormalizedHasPrefix(k, want) <=> m.matched = Len(want)
  BY DEF O!NormalizedHasPrefix
<1>. HIDE DEF m
<1>7. m.complete /\ m.matched = Len(want) <=> Len(q) = Len(want) /\ \A p \in 1..Len(want) : q[p] = want[p]
  <2>1. CASE m.complete
    BY <1>2, <1>3, <2>1 DEF Matched
  <2>2. CASE ~m.complete
    <3>1. Len(q) > m.matched /\ m.matched <= Len(want) /\ (m.matched = Len(want) \/ q[m.matched + 1] # want[m.matched + 1])
      BY <1>2, <2>2 DEF Matched
    <3>. QED
      BY <1>3, <2>2, <3>1
  <2>. QED
    BY <1>3, <2>1, <2>2
<1>8. m.matched = Len(want) <=> Len(want) <= Len(q) /\ \A p \in 1..Len(want) : q[p] = want[p]
  <2>1. m.matched <= Len(want) /\ m.matched <= Len(q) /\ \A p \in 1..m.matched : q[p] = want[p]
    BY <1>2 DEF Matched
  <2>2. CASE m.matched = Len(want)
    BY <1>3, <2>1, <2>2
  <2>3. CASE m.matched < Len(want)
    <3>1. m.complete => Len(q) = m.matched
      BY <1>2 DEF Matched
    <3>2. ~m.complete => q[m.matched + 1] # want[m.matched + 1]
      BY <1>2, <2>3, <1>3 DEF Matched
    <3>3. m.matched + 1 \in 1..Len(want)
      BY <1>3, <2>3
    <3>. QED
      BY <1>3, <2>3, <3>1, <3>2, <3>3
  <2>. QED
    BY <1>3, <2>1, <2>2, <2>3
<1>. QED
  BY <1>1, <1>4, <1>5, <1>6, <1>7, <1>8

-----------------------------------------------------------------------------
(* The label of a key *)

Marks(n) == [i \in 1..(2 * n) |-> Under]
Lead(out) == IF out # <<>> /\ O!Digit(out[1]) THEN <<"k", Under>> \o out ELSE out

LEMMA NormalizeIs ==
  ASSUME NEW k
  PROVE  LET n == O!Depth(k) IN
           O!NormalizePrometheusLabelName(k) = Marks(n) \o Lead(O!Collapse(O!Inside(k, n))) \o Marks(n)
  BY Zenon DEF O!NormalizePrometheusLabelName, Marks, Lead, Under

LEMMA ShapeIs ==
  ASSUME NEW k \in Seq(Signs)
  PROVE  O!IsTranslatorReservedShape(k) <=>
           /\ Len(k) >= 4 /\ k[1] = Under /\ k[2] = Under /\ k[Len(k) - 1] = Under /\ k[Len(k)] = Under
<1>1. (\A i \in {1, 2, Len(k) - 1, Len(k)} : k[i] = Under) <=> k[1] = Under /\ k[2] = Under /\ k[Len(k) - 1] = Under /\ k[Len(k)] = Under
  BY Zenon
<1>. QED
  BY <1>1, Zenon DEF O!IsTranslatorReservedShape, Under

\* How many pairs of double underscores surround it.
LEMMA DepthIs ==
  ASSUME NEW k \in Seq(Signs)
  PROVE  /\ O!Depth(k) \in Nat
         /\ O!Inside(k, 0) = k
         /\ O!Inside(k, O!Depth(k)) \in Seq(Signs)
         /\ O!Depth(k) = 0 <=> ~O!IsTranslatorReservedShape(k)
<1>. DEFINE good(n) == /\ ~O!IsTranslatorReservedShape(O!Inside(k, n))
                       /\ \A m \in 0..(n - 1) : O!IsTranslatorReservedShape(O!Inside(k, m))
            S == {n \in 0..Len(k) : ~O!IsTranslatorReservedShape(O!Inside(k, n))}
<1>1. Len(k) \in Nat
  OBVIOUS
<1>2. Len(k) \in S
  <2>1. O!Inside(k, Len(k)) \in Seq(Signs) /\ Len(O!Inside(k, Len(k))) = 0
    BY <1>1 DEF O!Inside
  <2>2. ~O!IsTranslatorReservedShape(O!Inside(k, Len(k)))
    <3>1. ~(0 >= 4)
      OBVIOUS
    <3>. QED
      BY <2>1, <3>1, ShapeIs, Zenon
  <2>. QED
    BY <1>1, <2>2
<1>3. PICK d \in S : \A m \in S : d <= m
  <2>1. S \subseteq Nat
    BY <1>1
  <2>. HIDE DEF S
  <2>. QED
    BY <1>2, <2>1, LeastNumber
<1>4. d \in 0..Len(k) /\ good(d)
  <2>1. \A m \in 0..(d - 1) : m \in 0..Len(k) /\ m \notin S
    BY <1>1, <1>3
  <2>. QED
    BY <2>1
<1>5. O!Depth(k) = CHOOSE n \in 0..Len(k) : good(n)
  BY Zenon DEF O!Depth
<1>6. O!Depth(k) \in 0..Len(k) /\ good(O!Depth(k))
  BY <1>4, <1>5, Zenon
<1>7. PICK e : e = O!Depth(k)
  OBVIOUS
<1>8. e \in 0..Len(k) /\ good(e)
  BY <1>6, <1>7, Zenon
<1>9. O!Inside(k, 0) = k
  BY DEF O!Inside
<1>10. O!Inside(k, e) \in Seq(Signs)
  BY <1>1, <1>8 DEF O!Inside
<1>11. e = 0 <=> ~O!IsTranslatorReservedShape(k)
  <2>1. e # 0 => 0 \in 0..(e - 1)
    BY <1>1, <1>8
  <2>. QED
    BY <1>8, <1>9, <2>1
<1>. QED
  BY <1>1, <1>7, <1>8, <1>9, <1>10, <1>11

LEMMA LeadIs ==
  ASSUME NEW q \in Seq(Signs)
  PROVE  /\ Lead(q) \in Seq(Signs)
         /\ Len(q) >= 1 /\ O!Digit(q[1]) => Lead(q) = <<"k", Under>> \o q
         /\ Len(q) = 0 \/ ~O!Digit(q[1]) => Lead(q) = q
<1>1. "k" \in Signs /\ Under \in Signs
  BY Zenon DEF Signs, Under
<1>2. q # <<>> <=> Len(q) >= 1
  OBVIOUS
<1>3. Len(q) = 0 <=> ~(Len(q) >= 1)
  OBVIOUS
<1>4. <<"k", Under>> \in Seq(Signs)
  BY <1>1
<1>5. <<"k", Under>> \o q \in Seq(Signs)
  BY <1>4
<1>. QED
  BY <1>2, <1>3, <1>5, Zenon DEF Lead

LEMMA MarksAre == ASSUME NEW n \in Nat PROVE Marks(n) \in Seq(Signs) /\ Len(Marks(n)) = 2 * n /\ \A i \in 1..(2 * n) : Marks(n)[i] = Under
<1>1. Under \in Signs
  BY Zenon DEF Signs, Under
<1>2. 2 * n \in Nat
  OBVIOUS
<1>3. Marks(n) \in [1..(2 * n) -> Signs] /\ \A i \in 1..(2 * n) : Marks(n)[i] = Under
  BY <1>1 DEF Marks
<1>. QED
  BY <1>2, <1>3

\* A label that is not surrounded, and one that is.
LEMMA PlainLabel ==
  ASSUME NEW k \in Seq(Signs), ~O!IsTranslatorReservedShape(k)
  PROVE  O!NormalizePrometheusLabelName(k) = Lead(O!Collapse(k))
<1>1. O!Depth(k) = 0 /\ O!Inside(k, O!Depth(k)) = k
  BY DepthIs
<1>2. Marks(O!Depth(k)) \in Seq(Signs) /\ Len(Marks(O!Depth(k))) = 0
  BY <1>1, MarksAre
<1>3. PICK x \in Seq(Signs) : x = Lead(O!Collapse(k))
  BY CollapseIs, LeadIs
<1>4. PICK e \in Seq(Signs) : e = Marks(O!Depth(k)) /\ Len(e) = 0
  BY <1>2
<1>5. O!NormalizePrometheusLabelName(k) = e \o x \o e
  BY <1>1, <1>3, <1>4, NormalizeIs
<1>6. e \o x = x /\ x \o e = x
  BY <1>3, <1>4
<1>. QED
  BY <1>3, <1>5, <1>6

LEMMA SurroundedLabel ==
  ASSUME NEW k \in Seq(Signs), O!IsTranslatorReservedShape(k)
  PROVE  LET l == O!NormalizePrometheusLabelName(k) IN
           l \in Seq(Signs) /\ Len(l) >= 2 /\ l[1] = Under /\ l[2] = Under
<1>1. PICK d \in Nat : d = O!Depth(k) /\ d >= 1
  BY DepthIs
<1>2. PICK e \in Seq(Signs) : e = Marks(d) /\ Len(e) >= 2 /\ e[1] = Under /\ e[2] = Under
  <2>0. 2 * d >= 2 /\ 1 \in 1..(2 * d) /\ 2 \in 1..(2 * d)
    BY <1>1
  <2>1. Marks(d) \in Seq(Signs) /\ Len(Marks(d)) = 2 * d
    BY MarksAre, Zenon
  <2>2. Marks(d)[1] = Under /\ Marks(d)[2] = Under
    BY <2>0, MarksAre, Zenon
  <2>. QED
    BY <2>0, <2>1, <2>2
<1>3. PICK x \in Seq(Signs) : x = Lead(O!Collapse(O!Inside(k, d)))
  BY <1>1, DepthIs, CollapseIs, LeadIs
<1>4. O!NormalizePrometheusLabelName(k) = e \o x \o e
  BY <1>1, <1>2, <1>3, NormalizeIs
<1>5. LET y == e \o x IN y \in Seq(Signs) /\ Len(y) >= 2 /\ y[1] = Under /\ y[2] = Under
  BY <1>2
<1>6. PICK y \in Seq(Signs) : y = e \o x /\ Len(y) >= 2 /\ y[1] = Under /\ y[2] = Under
  BY <1>5
<1>7. LET l == y \o e IN l \in Seq(Signs) /\ Len(l) >= 2 /\ l[1] = Under /\ l[2] = Under
  BY <1>6
<1>. QED
  BY <1>4, <1>6, <1>7

LEMMA PrefixIs ==
  ASSUME NEW s \in Seq(Signs), NEW t \in Seq(Signs)
  PROVE  O!IsPrefix(s, t) <=> Len(s) <= Len(t) /\ \A p \in 1..Len(s) : t[p] = s[p]
<1>1. O!IsPrefix(s, t) <=> Len(s) <= Len(t) /\ SubSeq(s, 1, Len(s)) = SubSeq(t, 1, Len(s))
  BY DEF O!IsPrefix
<1>2. SubSeq(s, 1, Len(s)) = s
  OBVIOUS
<1>3. ASSUME Len(s) <= Len(t) PROVE s = SubSeq(t, 1, Len(s)) <=> \A p \in 1..Len(s) : t[p] = s[p]
  <2>1. PICK u \in Seq(Signs) : u = SubSeq(t, 1, Len(s)) /\ Len(u) = Len(s) /\ \A p \in 1..Len(s) : u[p] = t[p]
    <3>1. LET u == SubSeq(t, 1, Len(s)) IN u \in Seq(Signs) /\ Len(u) = Len(s) /\ \A p \in 1..Len(s) : u[p] = t[p]
      BY <1>3
    <3>. QED
      BY <3>1, Zenon
  <2>2. s = u <=> \A p \in 1..Len(s) : u[p] = s[p]
    BY <2>1
  <2>. QED
    BY <2>1, <2>2
<1>. QED
  BY <1>1, <1>2, <1>3

LEMMA UnrenderableIs ==
  ASSUME NEW l \in Seq(Signs)
  PROVE  O!Unrenderable(l) <=> (\A p \in 1..Len(l) : l[p] = Under) \/ (Len(l) >= 2 /\ l[1] = Under /\ l[2] = Under)
<1>1. PICK u \in Seq(Signs) : u = <<Under, Under>> /\ Len(u) = 2 /\ u[1] = Under /\ u[2] = Under
  <2>1. Under \in Signs
    BY Zenon DEF Signs, Under
  <2>2. <<Under, Under>> \in Seq(Signs)
    BY <2>1
  <2>. QED
    BY <2>2
<1>2. DOMAIN l = 1..Len(l)
  OBVIOUS
<1>3. O!Unrenderable(l) <=> (\A p \in 1..Len(l) : l[p] = Under) \/ O!IsPrefix(u, l)
  BY <1>1, <1>2, Zenon DEF O!Unrenderable, Under
<1>4. O!IsPrefix(u, l) <=> 2 <= Len(l) /\ \A p \in 1..2 : l[p] = u[p]
  BY <1>1, PrefixIs
<1>5. O!IsPrefix(u, l) <=> Len(l) >= 2 /\ l[1] = Under /\ l[2] = Under
  BY <1>1, <1>4
<1>. QED
  BY <1>3, <1>5, Zenon

LEMMA SignFacts ==
  /\ Under \in Signs /\ {".", "d", "h", "i", "k", "l", "n", "o", "p", "s", "t"} \subseteq Signs
  /\ ~O!Alphanumeric(Under) /\ ~O!Alphanumeric(".") /\ ~O!Digit(Under)
  /\ \A c \in {"d", "h", "i", "k", "l", "n", "o", "p", "s", "t"} : O!Alphanumeric(c) /\ c # Under /\ ~O!Digit(c)
  /\ \A c : (O!Alphanumeric(c) => SignOf(c) = c /\ c # Under) /\ (~O!Alphanumeric(c) => SignOf(c) = Under)
<1>1. Under \in Signs /\ {".", "d", "h", "i", "k", "l", "n", "o", "p", "s", "t"} \subseteq Signs
  BY Zenon DEF Signs, Under
<1>2. ~O!Alphanumeric(Under) /\ ~O!Alphanumeric(".") /\ ~O!Digit(Under)
  BY Zenon DEF O!Alphanumeric, O!Digit, Under
<1>3. ASSUME NEW c \in {"d", "h", "i", "k", "l", "n", "o", "p", "s", "t"}
      PROVE  O!Alphanumeric(c) /\ c # Under /\ ~O!Digit(c)
  BY Zenon DEF O!Alphanumeric, O!Digit, Under
<1>4. ASSUME NEW c PROVE (O!Alphanumeric(c) => SignOf(c) = c /\ c # Under) /\ (~O!Alphanumeric(c) => SignOf(c) = Under)
  BY Zenon DEF O!Alphanumeric, SignOf, Under
<1>. QED
  BY <1>1, <1>2, <1>3, <1>4, Zenon

LEMMA LabelTyped ==
  ASSUME NEW k \in Seq(Signs) PROVE O!NormalizePrometheusLabelName(k) \in Seq(Signs)
<1>1. CASE O!IsTranslatorReservedShape(k)
  BY <1>1, SurroundedLabel
<1>2. CASE ~O!IsTranslatorReservedShape(k)
  BY <1>2, PlainLabel, CollapseIs, LeadIs
<1>. QED
  BY <1>1, <1>2

\* What cannot be exported: a surrounded key and one without a letter.
LEMMA RenderableIs ==
  ASSUME NEW k \in Seq(Signs)
  PROVE  O!Unrenderable(O!NormalizePrometheusLabelName(k)) <=> O!IsTranslatorReservedShape(k) \/ ~O!HasAlphanumeric(k)
<1>. DEFINE l == O!NormalizePrometheusLabelName(k)
<1>1. CASE O!IsTranslatorReservedShape(k)
  <2>1. l \in Seq(Signs) /\ Len(l) >= 2 /\ l[1] = Under /\ l[2] = Under
    BY <1>1, SurroundedLabel
  <2>. QED
    BY <1>1, <2>1, UnrenderableIs
<1>2. CASE ~O!IsTranslatorReservedShape(k)
  <2>1. PICK q \in Seq(Signs) : q = O!Collapse(k) /\ Collapsed(q, Len(q), k, Len(k))
    BY CollapseIs
  <2>2. l = Lead(q)
    BY <1>2, <2>1, PlainLabel
  <2>3. PICK n \in Nat : n = Len(q)
    OBVIOUS
  <2>4. O!HasAlphanumeric(k) <=> \E p \in 1..n : O!Alphanumeric(q[p])
    <3>1. DOMAIN k = 1..Len(k)
      OBVIOUS
    <3>. QED
      BY <2>1, <2>3, <3>1, Zenon DEF O!HasAlphanumeric, Collapsed
  <2>5. CASE ~O!HasAlphanumeric(k)
    <3>1. \A p \in 1..n : q[p] = Under
      BY <2>1, <2>3, <2>4, <2>5 DEF Collapsed
    <3>2. n = 0 \/ ~O!Digit(q[1])
      BY <2>3, <3>1, SignFacts
    <3>3. l = q
      BY <2>2, <2>3, <3>2, LeadIs
    <3>. QED
      BY <2>3, <2>5, <3>1, <3>3, UnrenderableIs
  <2>6. CASE O!HasAlphanumeric(k)
    <3>1. PICK p \in 1..n : O!Alphanumeric(q[p])
      BY <2>4, <2>6
    <3>2. q[p] # Under /\ n >= 1
      BY <2>3, <3>1, SignFacts
    <3>3. CASE O!Digit(q[1])
      <4>1. l = <<"k", Under>> \o q
        BY <2>2, <2>3, <3>2, <3>3, LeadIs
      <4>2. PICK e \in Seq(Signs) : e = <<"k", Under>> /\ Len(e) = 2 /\ e[1] = "k"
        <5>1. <<"k", Under>> \in Seq(Signs)
          BY SignFacts
        <5>. QED
          BY <5>1
      <4>3. e \o q \in Seq(Signs) /\ Len(e \o q) >= 1 /\ (e \o q)[1] = "k"
        BY <4>2
      <4>4. l \in Seq(Signs) /\ Len(l) >= 1 /\ l[1] = "k" /\ "k" # Under
        BY <4>1, <4>2, <4>3, SignFacts
      <4>5. 1 \in 1..Len(l)
        BY <4>4
      <4>. QED
        BY <1>2, <2>6, <4>4, <4>5, UnrenderableIs
    <3>4. CASE ~O!Digit(q[1])
      <4>1. l = q
        BY <2>2, <3>4, LeadIs
      <4>2. ~(n >= 2 /\ q[1] = Under /\ q[2] = Under)
        <5>1. n >= 2 => 1 \in 1..(n - 1) /\ 1 + 1 = 2
          OBVIOUS
        <5>. QED
          BY <2>1, <2>3, <5>1 DEF Collapsed
      <4>. QED
        BY <1>2, <2>3, <2>6, <3>1, <3>2, <4>1, <4>2, UnrenderableIs
    <3>. QED
      BY <3>3, <3>4
  <2>. QED
    BY <2>5, <2>6
<1>. QED
  BY <1>1, <1>2

\* The label of one of the SDK's own keys.
LEMMA DottedLabel ==
  ASSUME NEW x \in Signs, NEW y \in Signs, O!Alphanumeric(x), O!Alphanumeric(y), ~O!Digit(x)
  PROVE  /\ <<x, ".", y>> \in Seq(Signs) /\ ~O!IsTranslatorReservedShape(<<x, ".", y>>)
         /\ O!Collapse(<<x, ".", y>>) = <<x, Under, y>>
         /\ O!NormalizePrometheusLabelName(<<x, ".", y>>) = <<x, Under, y>>
<1>1. PICK k \in Seq(Signs) : k = <<x, ".", y>> /\ Len(k) = 3 /\ k[1] = x /\ k[2] = "." /\ k[3] = y
  <2>1. <<x, ".", y>> \in Seq(Signs)
    BY SignFacts
  <2>. QED
    BY <2>1
<1>2. ~O!IsTranslatorReservedShape(k)
  <2>1. ~(3 >= 4)
    OBVIOUS
  <2>. QED
    BY <1>1, <2>1, ShapeIs, Zenon
<1>3. PICK out : /\ out \in [0..Len(k) -> Seq(Signs)] /\ out[0] = <<>>
                 /\ \A i \in 1..Len(k) : out[i] = O!CollapseStep(out[i - 1], k[i])
                 /\ O!Collapse(k) = out[Len(k)]
  BY CollapseWalk
<1>4. SignOf(x) = x /\ SignOf(y) = y /\ SignOf(".") = Under /\ x # Under /\ ~O!Alphanumeric(".")
  BY SignFacts
<1>5. /\ out[0] \in Seq(Signs) /\ out[1] \in Seq(Signs) /\ out[2] \in Seq(Signs) /\ out[3] \in Seq(Signs)
      /\ out[1] = O!CollapseStep(out[0], x) /\ out[2] = O!CollapseStep(out[1], ".") /\ out[3] = O!CollapseStep(out[2], y)
      /\ O!Collapse(k) = out[3] /\ Len(out[0]) = 0
  <2>1. 0 \in 0..3 /\ 1 \in 0..3 /\ 2 \in 0..3 /\ 3 \in 0..3 /\ 1 \in 1..3 /\ 2 \in 1..3 /\ 3 \in 1..3
    OBVIOUS
  <2>. QED
    BY <1>1, <1>3, <2>1
<1>6. /\ Takes(out[0], Len(out[0]), x, out[1], Len(out[1]))
      /\ Takes(out[1], Len(out[1]), ".", out[2], Len(out[2]))
      /\ Takes(out[2], Len(out[2]), y, out[3], Len(out[3]))
  BY <1>5, CollapseTakes
<1>7. Len(out[1]) = 1 /\ out[1][1] = x
  BY <1>4, <1>5, <1>6 DEF Takes
<1>8. Len(out[2]) = 2 /\ out[2][2] = Under /\ out[2][1] = x
  <2>1. 1 \in 1..1
    OBVIOUS
  <2>. QED
    BY <1>4, <1>6, <1>7, <2>1 DEF Takes
<1>9. Len(out[3]) = 3 /\ out[3][3] = y /\ out[3][2] = Under /\ out[3][1] = x
  <2>1. 1 \in 1..2 /\ 2 \in 1..2
    OBVIOUS
  <2>. QED
    BY <1>4, <1>6, <1>8, <2>1 DEF Takes
<1>10. PICK q \in Seq(Signs) : q = O!Collapse(k) /\ Len(q) = 3 /\ q[1] = x /\ q[2] = Under /\ q[3] = y
  BY <1>5, <1>9
<1>11. q = <<x, Under, y>>
  BY <1>10
<1>12. Lead(q) = q
  BY <1>10, LeadIs
<1>. QED
  BY <1>1, <1>2, <1>10, <1>11, <1>12, PlainLabel

\* The labels the SDK reserves start with a letter.
LEMMA ReservedLabels ==
  ASSUME NEW want \in O!ReservedPromLabels
  PROVE  want \in Seq(Signs) /\ Len(want) >= 1 /\ want[1] \in {"s", "d", "l"}
<1>1. /\ O!NormalizePrometheusLabelName(<<"s", ".", "n">>) = <<"s", Under, "n">>
      /\ O!NormalizePrometheusLabelName(<<"d", ".", "n">>) = <<"d", Under, "n">>
  BY SignFacts, DottedLabel
<1>2. want \in {O!NormalizePrometheusLabelName(<<"s", ".", "n">>), O!NormalizePrometheusLabelName(<<"d", ".", "n">>), <<"l">>}
  BY Zenon DEF O!ReservedPromLabels, O!IdentityResourceKeys, O!ExposedFormatLabels, O!ServiceName
<1>3. <<"s", Under, "n">> \in Seq(Signs) /\ <<"d", Under, "n">> \in Seq(Signs) /\ <<"l">> \in Seq(Signs)
  BY SignFacts
<1>4. want \in {<<"s", Under, "n">>, <<"d", Under, "n">>, <<"l">>}
  BY <1>1, <1>2, Zenon
<1>5. CASE want = <<"s", Under, "n">>
  BY <1>3, <1>5
<1>6. CASE want = <<"d", Under, "n">>
  BY <1>3, <1>6
<1>7. CASE want = <<"l">>
  BY <1>3, <1>7
<1>. QED
  BY <1>4, <1>5, <1>6, <1>7, Zenon

\* What the exporter or the format puts on a series by itself.
LEMMA OwnedIs ==
  ASSUME NEW k \in Seq(Signs), Len(k) >= 1, ~O!IsTranslatorReservedShape(k)
  PROVE  O!OwnedByExporter(O!NormalizePrometheusLabelName(k)) <=>
           \/ k[1] = "o" /\ O!NormalizedHasPrefix(k, O!ScopeLabelPrefix)
           \/ \E want \in O!ReservedPromLabels : want[1] = k[1] /\ O!NormalizedEquals(k, want)
<1>. DEFINE l == O!NormalizePrometheusLabelName(k)
<1>1. PICK q \in Seq(Signs) : q = O!Collapse(k) /\ Collapsed(q, Len(q), k, Len(k))
  BY CollapseIs
<1>2. Len(q) >= 1 /\ q[1] = SignOf(k[1])
  BY <1>1 DEF Collapsed
<1>3. PICK pre \in Seq(Signs) : pre = O!ScopeLabelPrefix /\ Len(pre) = 2 /\ pre[1] = "o" /\ pre[2] = Under
  <2>1. <<"o", Under>> \in Seq(Signs)
    BY SignFacts
  <2>2. O!ScopeLabelPrefix = <<"o", Under>>
    BY Zenon DEF O!ScopeLabelPrefix, Under
  <2>. QED
    BY <2>1, <2>2
<1>4. /\ O!NormalizedHasPrefix(k, pre) <=> 2 <= Len(q) /\ \A p \in 1..2 : q[p] = pre[p]
      /\ \A want \in O!ReservedPromLabels : O!NormalizedEquals(k, want) <=> q = want
  <2>1. O!NormalizedHasPrefix(k, pre) <=> Len(pre) <= Len(q) /\ \A p \in 1..Len(pre) : q[p] = pre[p]
    BY <1>1, MatchAnswers
  <2>2. ASSUME NEW want \in O!ReservedPromLabels PROVE O!NormalizedEquals(k, want) <=> q = want
    BY <1>1, MatchAnswers, ReservedLabels
  <2>. QED
    BY <1>3, <2>1, <2>2
<1>5. O!OwnedByExporter(l) <=> l \in O!ReservedPromLabels \/ O!IsPrefix(pre, l)
  BY <1>3 DEF O!OwnedByExporter
<1>6. /\ \A c \in {"o", "s", "d", "l"} : ~O!Digit(c) /\ O!Alphanumeric(c) /\ c # Under /\ c # "k"
      /\ (O!Alphanumeric(k[1]) => SignOf(k[1]) = k[1]) /\ (~O!Alphanumeric(k[1]) => SignOf(k[1]) = Under)
  BY SignFacts
<1>7. \A want \in O!ReservedPromLabels : want[1] \in {"o", "s", "d", "l"}
  BY ReservedLabels
<1>8. CASE O!Digit(q[1])
  <2>1. l = <<"k", Under>> \o q
    BY <1>1, <1>2, <1>8, LeadIs, PlainLabel
  <2>2. PICK e \in Seq(Signs) : e = <<"k", Under>> /\ Len(e) = 2 /\ e[1] = "k"
    <3>1. <<"k", Under>> \in Seq(Signs)
      BY SignFacts
    <3>. QED
      BY <3>1
  <2>3. e \o q \in Seq(Signs) /\ (e \o q)[1] = "k"
    BY <2>2
  <2>4. l \in Seq(Signs) /\ l[1] = "k"
    BY <2>1, <2>2, <2>3
  <2>5. l \notin O!ReservedPromLabels
    BY <1>6, <1>7, <2>4
  <2>6. ~O!IsPrefix(pre, l)
    <3>1. O!IsPrefix(pre, l) => \A p \in 1..Len(pre) : l[p] = pre[p]
      BY <2>4, PrefixIs
    <3>2. 1 \in 1..Len(pre)
      BY <1>3
    <3>. HIDE DEF l
    <3>. QED
      BY <1>3, <1>6, <2>4, <3>1, <3>2
  <2>7. k[1] \notin {"o", "s", "d", "l"}
    BY <1>2, <1>6, <1>8
  <2>. QED
    BY <1>5, <1>7, <2>5, <2>6, <2>7
<1>9. CASE ~O!Digit(q[1])
  <2>1. l = q
    BY <1>1, <1>9, LeadIs, PlainLabel
  <2>2. O!IsPrefix(pre, q) <=> 2 <= Len(q) /\ \A p \in 1..2 : q[p] = pre[p]
    BY <1>3, PrefixIs
  <2>3. q[1] \in {"o", "s", "d", "l"} => k[1] = q[1]
    BY <1>2, <1>6
  <2>4. O!IsPrefix(pre, q) => q[1] = "o"
    BY <1>3, <2>2
  <2>5. O!IsPrefix(pre, q) <=> k[1] = "o" /\ O!NormalizedHasPrefix(k, O!ScopeLabelPrefix)
    BY <1>3, <1>4, <2>2, <2>3, <2>4
  <2>6. q \in O!ReservedPromLabels <=> \E want \in O!ReservedPromLabels : want[1] = k[1] /\ O!NormalizedEquals(k, want)
    BY <1>4, <1>7, <2>3
  <2>. QED
    BY <1>5, <2>1, <2>5, <2>6
<1>. QED
  BY <1>8, <1>9

\* isReservedAttributeKey, which walks a key without building its label, refuses
\* exactly the keys whose label cannot be exported or is the exporter's.
LEMMA ReservedExactly ==
  ASSUME NEW k \in Seq(Signs)
  PROVE  LET label == O!NormalizePrometheusLabelName(k)
         IN  O!IsReservedAttributeKey(k) <=> O!Unrenderable(label) \/ O!OwnedByExporter(label)
<1>. DEFINE label == O!NormalizePrometheusLabelName(k)
<1>1. O!ScopeLabelPrefix[1] = "o"
  <2>1. O!ScopeLabelPrefix = <<"o", Under>>
    BY Zenon DEF O!ScopeLabelPrefix, Under
  <2>. QED
    BY <2>1
<1>2. O!IsReservedAttributeKey(k) <=>
        \/ k = <<>> \/ O!IsTranslatorReservedShape(k) \/ ~O!HasAlphanumeric(k)
        \/ k[1] = "o" /\ O!NormalizedHasPrefix(k, O!ScopeLabelPrefix)
        \/ \E want \in O!ReservedPromLabels : want[1] = k[1] /\ O!NormalizedEquals(k, want)
  BY <1>1 DEF O!IsReservedAttributeKey
<1>3. k = <<>> => ~O!HasAlphanumeric(k)
  BY DEF O!HasAlphanumeric
<1>4. k # <<>> => Len(k) >= 1
  OBVIOUS
<1>5. O!Unrenderable(label) <=> O!IsTranslatorReservedShape(k) \/ ~O!HasAlphanumeric(k)
  BY RenderableIs
<1>. HIDE DEF label
<1>6. CASE O!Unrenderable(label)
  BY <1>2, <1>5, <1>6 DEF label
<1>7. CASE ~O!Unrenderable(label)
  <2>1. k # <<>> /\ ~O!IsTranslatorReservedShape(k) /\ O!HasAlphanumeric(k)
    BY <1>3, <1>5, <1>7
  <2>. QED
    BY <1>2, <1>4, <1>5, <2>1, OwnedIs DEF label
<1>. QED
  BY <1>6, <1>7

-----------------------------------------------------------------------------
(***************************************************************************)
(* The promoted keys.  A key is kept unless its label is another's or the  *)
(* exporter's, and the labels of those kept are distinct.                  *)
(***************************************************************************)

LabelOf(k) == O!NormalizePrometheusLabelName(k)
Taken(k) == O!Unrenderable(LabelOf(k)) \/ O!OwnedByExporter(LabelOf(k)) \/ LabelOf(k) \in O!ReservedHTTPServerPromLabels
PromotedOp == "WithExtraHTTPServerAttributeKeys"

LEMMA KeysAreSigns == O!Keys \subseteq Seq(Signs)
<1>1. Chars \subseteq Signs
  BY Zenon DEF Signs
<1>2. O!Keys = Seq(Chars)
  BY DEF O!Keys, Chars
<1>. QED
  BY <1>1, <1>2

\* isReservedAttributeKey walks a key without building its label, and refuses
\* exactly the keys whose label cannot be exported or is the exporter's own.
THEOREM ReservedKeysExact ==
  \A k \in O!Keys :
    LET label == O!NormalizePrometheusLabelName(k)
    IN  O!IsReservedAttributeKey(k) <=> O!Unrenderable(label) \/ O!OwnedByExporter(label)
  BY KeysAreSigns, ReservedExactly

PromotedAgrees(g, c) ==
  LET X == c.extraHTTPServerAttrKeys
  IN  /\ X \in Seq(O!Keys)
      /\ \A i \in DOMAIN X : ~Taken(X[i])
      /\ \A i, j \in DOMAIN X : i # j => LabelOf(X[i]) # LabelOf(X[j])
      /\ \A a \in KeysOf(g, PromotedOp) : a # <<>> /\ a \notin O!Range(X) =>
           /\ Taken(a) \/ \E b \in O!Range(X) : LabelOf(a) = LabelOf(b)
           /\ <<PromotedOp, a>> \in c.warned

LEMMA PromotedStep ==
  ASSUME NEW c, Shaped(c), c.extraHTTPServerAttrKeys \in Seq(O!Keys), NEW k \in O!Keys
  PROVE  LET X == c.extraHTTPServerAttrKeys
             d == O!WithExtraHTTPServerAttributeKeys(c, k)
             refused == Taken(k) \/ \E b \in O!Range(X) : LabelOf(k) = LabelOf(b)
         IN  \/ k = <<>> /\ d = c
             \/ k # <<>> /\ refused /\ d.extraHTTPServerAttrKeys = X /\ <<PromotedOp, k>> \in d.warned
             \/ k # <<>> /\ ~refused /\ d.extraHTTPServerAttrKeys = Append(X, k)
<1>. DEFINE X == c.extraHTTPServerAttrKeys
            d == O!WithExtraHTTPServerAttributeKeys(c, k)
            norm == LabelOf(k)
            seen == O!ReservedHTTPServerPromLabels \cup {LabelOf(X[i]) : i \in DOMAIN X}
            bad == norm \in {<<>>, <<Under>>} \/ O!IsReservedAttributeKey(k) \/ norm \in seen
            refused == Taken(k) \/ \E b \in O!Range(X) : LabelOf(k) = LabelOf(b)
<1>1. d = IF k = <<>> THEN c ELSE IF bad THEN O!Warn(c, PromotedOp, k)
          ELSE [c EXCEPT !.extraHTTPServerAttrKeys = Append(@, k)]
  BY Zenon DEF O!WithExtraHTTPServerAttributeKeys, LabelOf, Under, PromotedOp
<1>2. norm \in Seq(Signs) /\ k \in Seq(Signs)
  BY KeysAreSigns, LabelTyped DEF LabelOf
<1>. HIDE DEF norm
<1>3. norm \in {<<>>, <<Under>>} => O!Unrenderable(norm)
  <2>1. norm = <<>> => Len(norm) = 0
    BY <1>2
  <2>2. norm = <<Under>> => \A p \in 1..Len(norm) : norm[p] = Under
    OBVIOUS
  <2>. QED
    BY <1>2, <2>1, <2>2, UnrenderableIs
<1>4. O!IsReservedAttributeKey(k) <=> O!Unrenderable(norm) \/ O!OwnedByExporter(norm)
  BY <1>2, ReservedExactly DEF norm, LabelOf
<1>5. norm \in seen <=> norm \in O!ReservedHTTPServerPromLabels \/ \E b \in O!Range(X) : norm = LabelOf(b)
  <2>1. O!Range(X) = {X[i] : i \in DOMAIN X}
    BY DEF O!Range
  <2>. QED
    BY <2>1
<1>6. bad <=> refused
  BY <1>3, <1>4, <1>5 DEF Taken, norm
<1>. HIDE DEF bad, refused, d
<1>7. CASE k = <<>>
  BY <1>1, <1>7 DEF d
<1>8. CASE k # <<>> /\ bad
  <2>1. d = O!Warn(c, PromotedOp, k)
    BY <1>1, <1>8
  <2>2. d.extraHTTPServerAttrKeys = X /\ <<PromotedOp, k>> \in d.warned
    BY <2>1 DEF O!Warn, Shaped, Fields
  <2>. QED
    BY <1>6, <1>8, <2>2 DEF d, refused
<1>9. CASE k # <<>> /\ ~bad
  <2>1. d = [c EXCEPT !.extraHTTPServerAttrKeys = Append(@, k)]
    BY <1>1, <1>9
  <2>2. d.extraHTTPServerAttrKeys = Append(X, k)
    BY <2>1 DEF Shaped, Fields
  <2>. QED
    BY <1>6, <1>9, <2>2 DEF d, refused
<1>. QED
  BY <1>7, <1>8, <1>9

LEMMA PromotedMore ==
  ASSUME NEW T, NEW g \in Seq(T), NEW o \in T, O!IsOption(o), NEW c, Shaped(c), PromotedAgrees(g, c)
  PROVE  PromotedAgrees(Append(g, o), O!Apply(c, o))
<1>. DEFINE h == Append(g, o)
            d == O!Apply(c, o)
            X == c.extraHTTPServerAttrKeys
            k == o.v
            refused == Taken(k) \/ \E b \in O!Range(X) : LabelOf(k) = LabelOf(b)
<1>1. c.warned \subseteq d.warned
  BY WarnedGrows
<1>2. CASE o.op # PromotedOp
  <2>1. "extraHTTPServerAttrKeys" \notin Touched(o.op)
    BY <1>2 DEF Touched, O!IsOption, PromotedOp
  <2>2. d.extraHTTPServerAttrKeys = X
    BY <2>1, ApplyTouches DEF Fields
  <2>3. KeysOf(h, PromotedOp) = KeysOf(g, PromotedOp)
    BY <1>2, KeysMore
  <2>. HIDE DEF d, h
  <2>. QED
    BY <1>1, <2>2, <2>3 DEF PromotedAgrees, d, h
<1>3. CASE o.op = PromotedOp
  <2>1. d = O!WithExtraHTTPServerAttributeKeys(c, k) /\ k \in O!Keys
    BY <1>3 DEF O!Apply, O!IsOption, PromotedOp
  <2>2. KeysOf(h, PromotedOp) = KeysOf(g, PromotedOp) \cup {k}
    BY <1>3, KeysMore
  <2>3. X \in Seq(O!Keys)
    BY DEF PromotedAgrees
  <2>4. \/ k = <<>> /\ d = c
        \/ k # <<>> /\ refused /\ d.extraHTTPServerAttrKeys = X /\ <<PromotedOp, k>> \in d.warned
        \/ k # <<>> /\ ~refused /\ d.extraHTTPServerAttrKeys = Append(X, k)
    BY <2>1, <2>3, PromotedStep
  <2>. HIDE DEF d, h, k
  <2>5. CASE k = <<>> /\ d = c
    BY <2>2, <2>5 DEF PromotedAgrees, d, h
  <2>6. CASE k # <<>> /\ refused /\ d.extraHTTPServerAttrKeys = X /\ <<PromotedOp, k>> \in d.warned
    BY <1>1, <2>2, <2>6 DEF PromotedAgrees, d, h
  <2>7. CASE k # <<>> /\ ~refused /\ d.extraHTTPServerAttrKeys = Append(X, k)
    <3>1. PICK F : F = Append(X, k)
      OBVIOUS
    <3>2. /\ F \in Seq(O!Keys) /\ DOMAIN F = DOMAIN X \cup {Len(X) + 1} /\ F[Len(X) + 1] = k
          /\ \A i \in DOMAIN X : F[i] = X[i]
      BY <2>1, <2>3, <3>1
    <3>3. O!Range(F) = O!Range(X) \cup {k}
      BY <2>1, <2>3, <3>1, RangeMore
    <3>4. \A i \in DOMAIN X : X[i] \in O!Range(X)
      BY DEF O!Range
    <3>5. \A i \in DOMAIN F : ~Taken(F[i])
      BY <2>7, <3>2 DEF PromotedAgrees
    <3>6. ASSUME NEW i \in DOMAIN F, NEW j \in DOMAIN F, i # j PROVE LabelOf(F[i]) # LabelOf(F[j])
      <4>1. CASE i \in DOMAIN X /\ j \in DOMAIN X
        BY <3>2, <3>6, <4>1 DEF PromotedAgrees
      <4>2. CASE i \in DOMAIN X /\ j = Len(X) + 1
        BY <2>7, <3>2, <3>4, <4>2
      <4>3. CASE i = Len(X) + 1 /\ j \in DOMAIN X
        BY <2>7, <3>2, <3>4, <4>3
      <4>. QED
        BY <3>2, <3>6, <4>1, <4>2, <4>3
    <3>7. ASSUME NEW a \in KeysOf(h, PromotedOp), a # <<>>, a \notin O!Range(F)
          PROVE  (Taken(a) \/ \E b \in O!Range(F) : LabelOf(a) = LabelOf(b)) /\ <<PromotedOp, a>> \in d.warned
      <4>1. a \in KeysOf(g, PromotedOp) /\ a \notin O!Range(X)
        BY <2>2, <3>3, <3>7
      <4>2. (Taken(a) \/ \E b \in O!Range(X) : LabelOf(a) = LabelOf(b)) /\ <<PromotedOp, a>> \in c.warned
        BY <3>7, <4>1 DEF PromotedAgrees
      <4>. QED
        BY <1>1, <3>3, <4>2
    <3>. QED
      BY <2>7, <3>1, <3>2, <3>5, <3>6, <3>7 DEF PromotedAgrees, d, h
  <2>. QED
    BY <2>4, <2>5, <2>6, <2>7
<1>. QED
  BY <1>2, <1>3

LEMMA PromotedMeans == ASSUME PromotedAgrees(given, config) PROVE O!PromotedDistinct
<1>. DEFINE X == config.extraHTTPServerAttrKeys
            keys == O!Range(X)
<1>1. O!GivenKeys(PromotedOp) = KeysOf(given, PromotedOp)
  BY DEF O!At, O!GivenKeys, PlacesOf, KeysOf
<1>2. \A a \in keys : ~Taken(a)
  BY DEF PromotedAgrees, O!Range
<1>3. \A a, b \in keys : a # b => LabelOf(a) # LabelOf(b)
  BY DEF PromotedAgrees, O!Range
<1>4. \A a \in O!GivenKeys(PromotedOp) \ (keys \cup {<<>>}) :
        (Taken(a) \/ \E b \in keys : LabelOf(a) = LabelOf(b)) /\ <<PromotedOp, a>> \in config.warned
  BY <1>1 DEF PromotedAgrees
<1>. HIDE DEF keys
<1>. QED
  BY <1>2, <1>3, <1>4, Zenon DEF O!PromotedDistinct, O!SameLabel, Taken, LabelOf, PromotedOp, keys

-----------------------------------------------------------------------------
(***************************************************************************)
(* The option's attributes.  Those kept have distinct labels that nobody   *)
(* else owns, each with the value given for it last; the others are warned *)
(* of.                                                                     *)
(***************************************************************************)

AttrOp == "WithResourceAttributes"
AttrValues == {o.v : o \in {x \in Offerings : x.op = AttrOp}}
Barred(k) ==
  \/ k = <<>> \/ O!ResourceKeyOwner(k) # {} \/ O!IsTelemetrySDKKey(k) \/ O!IsProcessKey(k)
  \/ O!IsReservedAttributeKey(k)
Named(g, key) == {i \in PlacesOf(g, AttrOp) : g[i].v.key = key}

AttrsAgree(g, c) ==
  LET A == c.resourceAttrs
  IN  /\ A \in Seq(AttrValues)
      /\ \A i \in DOMAIN A : ~Barred(A[i].key)
      /\ \A i, j \in DOMAIN A : i # j => LabelOf(A[i].key) # LabelOf(A[j].key)
      /\ \A i \in PlacesOf(g, AttrOp) :
           (\E j \in DOMAIN A : A[j].key = g[i].v.key) \/ <<AttrOp, g[i].v.key>> \in c.warned
      /\ \A j \in DOMAIN A : Named(g, A[j].key) # {} /\ A[j] = LastIn(g, Named(g, A[j].key)).v

LEMMA AttrKeysAreKeys == ASSUME NEW v \in AttrValues PROVE v.key \in O!Keys
  BY OfferingsAreOptions DEF AttrValues, AttrOp, O!IsOption

\* What the option makes of the attributes A of a Config: d.
AttrTaken(A, v, d) ==
  \/ d.resourceAttrs = A /\ <<AttrOp, v.key>> \in d.warned /\ \A i \in DOMAIN A : A[i].key # v.key
  \/ \E i \in DOMAIN A : A[i].key = v.key /\ d.resourceAttrs = [A EXCEPT ![i] = v]
  \/ /\ ~Barred(v.key) /\ \A i \in DOMAIN A : LabelOf(A[i].key) # LabelOf(v.key)
     /\ d.resourceAttrs = Append(A, v)

LEMMA AttrStep ==
  ASSUME NEW c, Shaped(c), NEW v \in AttrValues, NEW A \in Seq(AttrValues), A = c.resourceAttrs,
         \A i \in DOMAIN A : ~Barred(A[i].key),
         \A i, j \in DOMAIN A : i # j => LabelOf(A[i].key) # LabelOf(A[j].key),
         NEW d, d = O!WithResourceAttributes(c, v)
  PROVE  AttrTaken(A, v, d)
<1>. DEFINE B == c.resourceAttrs
            same == {i \in DOMAIN B : LabelOf(B[i].key) = LabelOf(v.key)}
            first == CHOOSE i \in same : \A j \in same : i <= j
<1>1. O!WithResourceAttributes(c, v) =
        IF Barred(v.key) THEN O!Warn(c, AttrOp, v.key)
        ELSE IF same = {} THEN [c EXCEPT !.resourceAttrs = Append(@, v)]
        ELSE IF B[first].key = v.key THEN [c EXCEPT !.resourceAttrs[first] = v]
        ELSE O!Warn(c, AttrOp, v.key)
  BY Zenon DEF O!WithResourceAttributes, O!AppendResourceAttribute, O!SameLabel, LabelOf, Barred, AttrOp
<1>b. B = A
  OBVIOUS
<1>. HIDE DEF B
<1>0. same # {} => first \in DOMAIN A /\ LabelOf(A[first].key) = LabelOf(v.key)
  <2>1. same \subseteq Nat
    BY <1>b
  <2>2. same # {} => \E i \in same : \A j \in same : i <= j
    BY <2>1, LeastNumber
  <2>. QED
    BY <1>b, <2>2
<1>. HIDE DEF first
<1>2. CASE Barred(v.key) \/ (same # {} /\ A[first].key # v.key)
  <2>1. d = O!Warn(c, AttrOp, v.key)
    BY <1>1, <1>b, <1>2
  <2>2. d.resourceAttrs = A /\ <<AttrOp, v.key>> \in d.warned
    BY <2>1 DEF O!Warn, Shaped, Fields
  <2>3. \A i \in DOMAIN A : A[i].key # v.key
    BY <1>0, <1>b, <1>2
  <2>. QED
    BY <2>2, <2>3 DEF AttrTaken
<1>3. CASE ~Barred(v.key) /\ same = {}
  <2>1. d = [c EXCEPT !.resourceAttrs = Append(@, v)]
    BY <1>1, <1>b, <1>3
  <2>2. d.resourceAttrs = Append(A, v)
    BY <2>1 DEF Shaped, Fields
  <2>3. \A i \in DOMAIN A : LabelOf(A[i].key) # LabelOf(v.key)
    BY <1>3, <1>b
  <2>. QED
    BY <1>3, <2>2, <2>3 DEF AttrTaken
<1>4. CASE ~Barred(v.key) /\ same # {} /\ A[first].key = v.key
  <2>1. first \in DOMAIN A
    BY <1>0, <1>b, <1>4
  <2>2. d = [c EXCEPT !.resourceAttrs[first] = v]
    BY <1>1, <1>b, <1>4
  <2>3. d.resourceAttrs = [A EXCEPT ![first] = v]
    BY <2>2 DEF Shaped, Fields
  <2>. QED
    BY <1>b, <1>4, <2>1, <2>3 DEF AttrTaken
<1>. QED
  BY <1>1, <1>b, <1>2, <1>3, <1>4

LEMMA NamedMore ==
  ASSUME NEW T, NEW g \in Seq(T), NEW o \in T, NEW key
  PROVE  LET h == Append(g, o) IN
           /\ o.op = AttrOp /\ o.v.key = key => Named(h, key) # {} /\ LastIn(h, Named(h, key)) = o
           /\ ~(o.op = AttrOp /\ o.v.key = key) =>
                /\ Named(h, key) = Named(g, key)
                /\ Named(g, key) # {} => LastIn(h, Named(h, key)) = LastIn(g, Named(g, key))
<1>. DEFINE h == Append(g, o)
            n == Len(g) + 1
<1>0. /\ DOMAIN h = DOMAIN g \cup {n} /\ n \notin DOMAIN g /\ h[n] = o
      /\ \A i \in DOMAIN g : h[i] = g[i]
      /\ \A S \in SUBSET DOMAIN g : S # {} => LastIn(h, S) = LastIn(g, S)
      /\ \A S \in SUBSET DOMAIN g : LastIn(h, S \cup {n}) = o
  BY OneMore
<1>. HIDE DEF h, n
<1>1. Named(g, key) \in SUBSET DOMAIN g
  BY DEF PlacesOf, Named
<1>2. Named(h, key) = IF o.op = AttrOp /\ o.v.key = key THEN Named(g, key) \cup {n} ELSE Named(g, key)
  BY <1>0 DEF PlacesOf, Named
<1>. QED
  BY <1>0, <1>1, <1>2 DEF h

LEMMA AttrsMore ==
  ASSUME NEW g \in Seq(Offerings), NEW o \in Offerings, NEW c, Shaped(c), AttrsAgree(g, c)
  PROVE  AttrsAgree(Append(g, o), O!Apply(c, o))
<1>. DEFINE h == Append(g, o)
            d == O!Apply(c, o)
            A == c.resourceAttrs
            v == o.v
<1>0. O!IsOption(o)
  BY OfferingsAreOptions
<1>1. c.warned \subseteq d.warned
  BY <1>0, WarnedGrows
<1>2. /\ A \in Seq(AttrValues)
      /\ \A i \in DOMAIN A : ~Barred(A[i].key)
      /\ \A i, j \in DOMAIN A : i # j => LabelOf(A[i].key) # LabelOf(A[j].key)
      /\ \A i \in PlacesOf(g, AttrOp) :
           (\E j \in DOMAIN A : A[j].key = g[i].v.key) \/ <<AttrOp, g[i].v.key>> \in c.warned
      /\ \A j \in DOMAIN A : Named(g, A[j].key) # {} /\ A[j] = LastIn(g, Named(g, A[j].key)).v
  BY DEF AttrsAgree
<1>3. CASE o.op # AttrOp
  <2>1. "resourceAttrs" \notin Touched(o.op)
    BY <1>0, <1>3 DEF Touched, O!IsOption, AttrOp
  <2>2. d.resourceAttrs = A
    BY <1>0, <2>1, ApplyTouches DEF Fields
  <2>3. PlacesOf(h, AttrOp) = PlacesOf(g, AttrOp)
    BY <1>3, PlacesMore
  <2>4. \A key : Named(h, key) = Named(g, key) /\ (Named(g, key) # {} => LastIn(h, Named(h, key)) = LastIn(g, Named(g, key)))
    BY <1>3, NamedMore
  <2>5. \A i \in PlacesOf(g, AttrOp) : h[i] = g[i]
    BY OneMore DEF PlacesOf
  <2>. HIDE DEF d, h
  <2>. QED
    BY <1>1, <1>2, <2>2, <2>3, <2>4, <2>5 DEF AttrsAgree, d, h
<1>4. CASE o.op = AttrOp
  <2>1. d = O!WithResourceAttributes(c, v) /\ v \in AttrValues
    BY <1>4 DEF O!Apply, AttrOp, AttrValues
  <2>2. \/ d.resourceAttrs = A /\ <<AttrOp, v.key>> \in d.warned /\ \A i \in DOMAIN A : A[i].key # v.key
        \/ \E i \in DOMAIN A : A[i].key = v.key /\ d.resourceAttrs = [A EXCEPT ![i] = v]
        \/ /\ ~Barred(v.key) /\ \A i \in DOMAIN A : LabelOf(A[i].key) # LabelOf(v.key)
           /\ d.resourceAttrs = Append(A, v)
    <3>1. AttrTaken(A, v, d)
      BY <1>2, <2>1, AttrStep
    <3>. HIDE DEF d
    <3>. QED
      BY <3>1 DEF AttrTaken
  <2>3. \A key : /\ v.key = key => Named(h, key) # {} /\ LastIn(h, Named(h, key)) = o
                 /\ v.key # key => /\ Named(h, key) = Named(g, key)
                                   /\ Named(g, key) # {} => LastIn(h, Named(h, key)) = LastIn(g, Named(g, key))
    BY <1>4, NamedMore
  <2>4. \A i \in PlacesOf(h, AttrOp) : (i \in PlacesOf(g, AttrOp) /\ h[i] = g[i]) \/ h[i] = o
    BY OneMore DEF PlacesOf
  <2>. HIDE DEF d, h
  <2>. DEFINE Fit(B) ==
         /\ d.resourceAttrs = B /\ B \in Seq(AttrValues)
         /\ \A i \in DOMAIN B : ~Barred(B[i].key)
         /\ \A i, j \in DOMAIN B : i # j => LabelOf(B[i].key) # LabelOf(B[j].key)
         /\ \A i \in DOMAIN A : \E j \in DOMAIN B : B[j].key = A[i].key
         /\ (\E j \in DOMAIN B : B[j].key = v.key) \/ <<AttrOp, v.key>> \in d.warned
         /\ \A j \in DOMAIN B : B[j] = v \/ (B[j].key # v.key /\ \E i \in DOMAIN A : B[j] = A[i])
  <2>5. ASSUME NEW B, Fit(B) PROVE AttrsAgree(h, d)
    <3>1. ASSUME NEW i \in PlacesOf(h, AttrOp)
          PROVE  (\E j \in DOMAIN B : B[j].key = h[i].v.key) \/ <<AttrOp, h[i].v.key>> \in d.warned
      <4>1. CASE h[i] = o
        BY <2>5, <4>1
      <4>2. CASE i \in PlacesOf(g, AttrOp) /\ h[i] = g[i]
        BY <1>1, <1>2, <2>5, <4>2
      <4>. QED
        BY <2>4, <4>1, <4>2
    <3>2. ASSUME NEW j \in DOMAIN B
          PROVE  Named(h, B[j].key) # {} /\ B[j] = LastIn(h, Named(h, B[j].key)).v
      <4>1. CASE B[j] = v
        BY <2>3, <4>1
      <4>2. CASE B[j].key # v.key /\ \E i \in DOMAIN A : B[j] = A[i]
        <5>1. PICK i \in DOMAIN A : B[j] = A[i]
          BY <4>2
        <5>2. Named(g, B[j].key) # {} /\ B[j] = LastIn(g, Named(g, B[j].key)).v
          BY <1>2, <5>1
        <5>. QED
          BY <2>3, <4>2, <5>2
      <4>. QED
        BY <2>5, <4>1, <4>2
    <3>. QED
      BY <2>5, <3>1, <3>2 DEF AttrsAgree
  <2>6. CASE d.resourceAttrs = A /\ <<AttrOp, v.key>> \in d.warned /\ \A i \in DOMAIN A : A[i].key # v.key
    <3>1. Fit(A)
      BY <1>2, <2>6
    <3>. HIDE DEF Fit
    <3>. QED
      BY <2>5, <3>1 DEF d, h
  <2>7. CASE \E i \in DOMAIN A : A[i].key = v.key /\ d.resourceAttrs = [A EXCEPT ![i] = v]
    <3>1. PICK i \in DOMAIN A : A[i].key = v.key /\ d.resourceAttrs = [A EXCEPT ![i] = v]
      BY <2>7
    <3>2. PICK B : B = [A EXCEPT ![i] = v]
      OBVIOUS
    <3>3. B \in Seq(AttrValues) /\ DOMAIN B = DOMAIN A /\ B[i] = v /\ \A j \in DOMAIN A : j # i => B[j] = A[j]
      BY <1>2, <2>1, <3>2
    <3>4. \A j \in DOMAIN A : B[j].key = A[j].key
      BY <3>1, <3>3
    <3>5. \A j \in DOMAIN A : j # i => A[j].key # v.key
      BY <1>2, <3>1
    <3>6. Fit(B)
      <4>. HIDE DEF A, v
      <4>. QED
        BY <1>2, <3>1, <3>2, <3>3, <3>4, <3>5
    <3>. HIDE DEF Fit
    <3>. QED
      BY <2>5, <3>6 DEF d, h
  <2>8. CASE /\ ~Barred(v.key) /\ \A i \in DOMAIN A : LabelOf(A[i].key) # LabelOf(v.key)
             /\ d.resourceAttrs = Append(A, v)
    <3>1. PICK B : B = Append(A, v)
      OBVIOUS
    <3>2. PICK n : n = Len(A) + 1
      OBVIOUS
    <3>3. /\ B \in Seq(AttrValues) /\ DOMAIN B = DOMAIN A \cup {n} /\ n \notin DOMAIN A /\ B[n] = v
          /\ \A j \in DOMAIN A : B[j] = A[j]
      BY <1>2, <2>1, <3>1, <3>2
    <3>4. \A i, j \in DOMAIN B : i # j => LabelOf(B[i].key) # LabelOf(B[j].key)
      BY <1>2, <2>8, <3>3
    <3>5. \A j \in DOMAIN A : A[j].key # v.key
      BY <2>8
    <3>6. Fit(B)
      <4>. HIDE DEF A, v
      <4>. QED
        BY <1>2, <2>8, <3>1, <3>3, <3>4, <3>5
    <3>. HIDE DEF Fit
    <3>. QED
      BY <2>5, <3>6 DEF d, h
  <2>. QED
    BY <2>2, <2>6, <2>7, <2>8
<1>. QED
  BY <1>3, <1>4

-----------------------------------------------------------------------------
(***************************************************************************)
(* The SDK's own keys, and the environment's.  Those of the environment    *)
(* that are kept are the SDK's own or nobody's, no label twice, and what   *)
(* is dropped has the label of one that is kept or of somebody else.       *)
(***************************************************************************)

SdkKeys == O!IdentityResourceKeys \cup O!DetectedResourceKeys

LEMMA SdkKeyLabels ==
  /\ SdkKeys \subseteq O!Keys /\ IsFiniteSet(SdkKeys)
  /\ \A k \in SdkKeys : ~O!Unrenderable(LabelOf(k))
  /\ \A a, b \in SdkKeys : LabelOf(a) = LabelOf(b) => a = b
  /\ \A k \in O!DetectedResourceKeys : ~O!OwnedByExporter(LabelOf(k)) /\ k \notin O!IdentityResourceKeys
<1>. DEFINE Key(x, y) == <<x, ".", y>>
<1>1. /\ O!IdentityResourceKeys = {Key("s", "n"), Key("d", "n")}
      /\ O!DetectedResourceKeys = {Key("t", "n"), Key("p", "i"), Key("h", "n")}
  BY Zenon DEF O!IdentityResourceKeys, O!DetectedResourceKeys, O!ServiceName
<1>2. {"s", "d", "t", "p", "h", "n", "i", "."} \subseteq Chars
  <2>1. /\ O!Alphabet[16] = "s" /\ O!Alphabet[7] = "d" /\ O!Alphabet[17] = "t" /\ O!Alphabet[14] = "p"
        /\ O!Alphabet[8] = "h" /\ O!Alphabet[12] = "n" /\ O!Alphabet[9] = "i" /\ O!Alphabet[3] = "."
    BY DEF O!Alphabet
  <2>2. {16, 7, 17, 14, 8, 12, 9, 3} \subseteq DOMAIN O!Alphabet
    BY AlphabetSize
  <2>. QED
    BY <2>1, <2>2 DEF Chars
<1>3. ASSUME NEW x \in {"s", "d", "t", "p", "h"}, NEW y \in {"n", "i"}
      PROVE  /\ Key(x, y) \in O!Keys /\ Key(x, y)[1] = x /\ LabelOf(Key(x, y)) \in Seq(Signs)
             /\ Len(LabelOf(Key(x, y))) = 3 /\ LabelOf(Key(x, y))[1] = x /\ x # Under
  <2>1. x \in Signs /\ y \in Signs /\ O!Alphanumeric(x) /\ O!Alphanumeric(y) /\ ~O!Digit(x) /\ x # Under
    BY SignFacts
  <2>2. LabelOf(Key(x, y)) = <<x, Under, y>>
    BY <2>1, DottedLabel DEF LabelOf
  <2>3. <<x, Under, y>> \in Seq(Signs)
    BY <2>1, SignFacts
  <2>4. x \in Chars /\ y \in Chars /\ "." \in Chars
    BY <1>2
  <2>5. Key(x, y) \in Seq(Chars)
    BY <2>4
  <2>6. O!Keys = Seq(Chars)
    BY DEF O!Keys, Chars
  <2>7. <<x, Under, y>>[1] = x /\ Len(<<x, Under, y>>) = 3 /\ Key(x, y)[1] = x
    OBVIOUS
  <2>8. Key(x, y) \in O!Keys
    BY <2>5, <2>6
  <2>. HIDE DEF Key
  <2>. QED
    BY <2>1, <2>2, <2>3, <2>7, <2>8
<1>. HIDE DEF Key
<1>4. SdkKeys = {Key("s", "n"), Key("d", "n"), Key("t", "n"), Key("p", "i"), Key("h", "n")}
  BY <1>1 DEF SdkKeys
<1>5. \A k \in SdkKeys : \E x \in {"s", "d", "t", "p", "h"}, y \in {"n", "i"} : k = Key(x, y)
  BY <1>4, Zenon
<1>6. \A k \in SdkKeys : k \in O!Keys /\ LabelOf(k) \in Seq(Signs) /\ LabelOf(k)[1] = k[1]
  <2>. SUFFICES ASSUME NEW k \in SdkKeys PROVE k \in O!Keys /\ LabelOf(k) \in Seq(Signs) /\ LabelOf(k)[1] = k[1]
    OBVIOUS
  <2>1. PICK x \in {"s", "d", "t", "p", "h"}, y \in {"n", "i"} : k = Key(x, y)
    BY <1>5
  <2>. QED
    BY <1>3, <2>1
<1>7. IsFiniteSet(SdkKeys)
  <2>1. \A x : IsFiniteSet({x})
    BY FS_Singleton
  <2>2. \A S, x : IsFiniteSet(S) => IsFiniteSet(S \cup {x})
    BY <2>1, FS_Union
  <2>3. SdkKeys = ((({Key("s", "n")} \cup {Key("d", "n")}) \cup {Key("t", "n")}) \cup {Key("p", "i")}) \cup {Key("h", "n")}
    BY <1>4
  <2>. QED
    BY <2>1, <2>2, <2>3
<1>8. ASSUME NEW k \in SdkKeys PROVE ~O!Unrenderable(LabelOf(k))
  <2>1. PICK x \in {"s", "d", "t", "p", "h"}, y \in {"n", "i"} : k = Key(x, y)
    BY <1>5
  <2>2. LabelOf(k) \in Seq(Signs) /\ Len(LabelOf(k)) = 3 /\ LabelOf(k)[1] # Under
    BY <1>3, <2>1
  <2>3. 1 \in 1..Len(LabelOf(k))
    BY <2>2
  <2>. QED
    BY <2>2, <2>3, UnrenderableIs
<1>9. ASSUME NEW a \in SdkKeys, NEW b \in SdkKeys, LabelOf(a) = LabelOf(b) PROVE a = b
  <2>1. \A k \in SdkKeys : LabelOf(k)[1] = k[1]
    BY <1>6
  <2>2. /\ Key("s", "n")[1] = "s" /\ Key("d", "n")[1] = "d" /\ Key("t", "n")[1] = "t"
        /\ Key("p", "i")[1] = "p" /\ Key("h", "n")[1] = "h"
    BY <1>3
  <2>3. a[1] = b[1]
    BY <1>9, <2>1
  <2>. QED
    BY <1>4, <2>2, <2>3
<1>10. ASSUME NEW k \in O!DetectedResourceKeys PROVE ~O!OwnedByExporter(LabelOf(k)) /\ k \notin O!IdentityResourceKeys
  <2>1. k \in SdkKeys /\ k[1] \in {"t", "p", "h"}
    BY <1>1, <1>3 DEF SdkKeys
  <2>2. LabelOf(k) \in Seq(Signs) /\ LabelOf(k)[1] = k[1]
    BY <1>6, <2>1
  <2>3. LabelOf(k) \notin O!ReservedPromLabels
    BY <2>1, <2>2, ReservedLabels
  <2>4. PICK pre \in Seq(Signs) : pre = O!ScopeLabelPrefix /\ Len(pre) = 2 /\ pre[1] = "o"
    <3>1. <<"o", Under>> \in Seq(Signs)
      BY SignFacts
    <3>2. O!ScopeLabelPrefix = <<"o", Under>>
      BY Zenon DEF O!ScopeLabelPrefix, Under
    <3>. QED
      BY <3>1, <3>2
  <2>5. ~O!IsPrefix(pre, LabelOf(k))
    <3>1. O!IsPrefix(pre, LabelOf(k)) => \A p \in 1..Len(pre) : LabelOf(k)[p] = pre[p]
      BY <2>2, PrefixIs
    <3>2. 1 \in 1..Len(pre)
      BY <2>4
    <3>. QED
      BY <2>1, <2>2, <2>4, <3>1, <3>2
  <2>6. \A j \in O!IdentityResourceKeys : j[1] \in {"s", "d"}
    BY <1>1, <1>3
  <2>. QED
    BY <2>1, <2>3, <2>4, <2>5, <2>6 DEF O!OwnedByExporter
<1>. QED
  BY <1>6, <1>7, <1>8, <1>9, <1>10

Free(k, attrs) ==
  /\ O!ResourceKeyOwner(k) = {} /\ ~O!IsTelemetrySDKKey(k) /\ ~O!IsProcessKey(k)
  /\ ~O!IsReservedAttributeKey(k) /\ ~O!AliasOf(k, attrs)

LEMMA OwnerIs ==
  ASSUME NEW k
  PROVE  /\ k \in O!ResourceKeyOwner(k) <=> k \in SdkKeys
         /\ O!ResourceKeyOwner(k) = {} => \A o \in SdkKeys : LabelOf(o) # LabelOf(k)
  BY DEF O!ResourceKeyOwner, O!SameLabel, LabelOf, SdkKeys

LEMMA EnvStepIs ==
  ASSUME NEW K, NEW k, NEW attrs
  PROVE  O!EnvResourceStep(K, k, attrs) =
           IF k \in SdkKeys \/ (Free(k, attrs) /\ \A o \in K : LabelOf(o) # LabelOf(k)) THEN K \cup {k} ELSE K
<1>1. O!EnvResourceStep(K, k, attrs) =
        IF k \in O!ResourceKeyOwner(k) \/ (Free(k, attrs) /\ \A o \in K : LabelOf(o) # LabelOf(k)) THEN K \cup {k} ELSE K
  BY Zenon DEF O!EnvResourceStep, Free, O!SameLabel, LabelOf
<1>. QED
  BY <1>1, OwnerIs

\* What the pass holds after the first i keys.
EnvHolds(K, order, i, keys, attrs) ==
  /\ K \in SUBSET keys
  /\ \A k \in K : k \in SdkKeys \/ Free(k, attrs)
  /\ \A a, b \in K : a # b => LabelOf(a) # LabelOf(b)
  /\ \A j \in 1..i : /\ order[j] \in SdkKeys => order[j] \in K
                     /\ Free(order[j], attrs) => \E o \in K : LabelOf(o) = LabelOf(order[j])

LEMMA EnvStepHolds ==
  ASSUME NEW keys, NEW attrs, NEW order, NEW i \in Nat, i # 0, order[i] \in keys,
         NEW K, EnvHolds(K, order, i - 1, keys, attrs)
  PROVE  EnvHolds(O!EnvResourceStep(K, order[i], attrs), order, i, keys, attrs)
<1>1. PICK k \in keys : k = order[i]
  OBVIOUS
<1>2. PICK L : L = O!EnvResourceStep(K, k, attrs)
  OBVIOUS
<1>3. L = IF k \in SdkKeys \/ (Free(k, attrs) /\ \A o \in K : LabelOf(o) # LabelOf(k)) THEN K \cup {k} ELSE K
  BY <1>2, EnvStepIs
<1>4. /\ K \in SUBSET keys
      /\ \A x \in K : x \in SdkKeys \/ Free(x, attrs)
      /\ \A a, b \in K : a # b => LabelOf(a) # LabelOf(b)
      /\ \A j \in 1..(i - 1) : /\ order[j] \in SdkKeys => order[j] \in K
                               /\ Free(order[j], attrs) => \E o \in K : LabelOf(o) = LabelOf(order[j])
  BY DEF EnvHolds
<1>5. L \in SUBSET keys /\ K \subseteq L /\ L \subseteq K \cup {k}
  BY <1>3, <1>4
<1>6. \A x \in L : x \in SdkKeys \/ Free(x, attrs)
  BY <1>3, <1>4
<1>7. \A x : Free(x, attrs) => \A o \in SdkKeys : LabelOf(o) # LabelOf(x)
  BY OwnerIs DEF Free
<1>8. \A o \in K : k \in L /\ o # k => LabelOf(o) # LabelOf(k)
  <2>. SUFFICES ASSUME NEW o \in K, k \in L, o # k PROVE LabelOf(o) # LabelOf(k)
    OBVIOUS
  <2>1. CASE k \in K
    BY <1>4, <2>1
  <2>2. CASE k \notin K /\ k \in SdkKeys
    <3>1. o \in SdkKeys \/ Free(o, attrs)
      BY <1>4
    <3>. QED
      BY <1>7, <2>2, <3>1, SdkKeyLabels
  <2>3. CASE k \notin K /\ k \notin SdkKeys
    BY <1>3, <2>3
  <2>. QED
    BY <2>1, <2>2, <2>3
<1>9. \A a, b \in L : a # b => LabelOf(a) # LabelOf(b)
  BY <1>4, <1>5, <1>8
<1>10. /\ k \in SdkKeys => k \in L
       /\ Free(k, attrs) => \E o \in L : LabelOf(o) = LabelOf(k)
  BY <1>3
<1>11. \A j \in 1..i : j \in 1..(i - 1) \/ j = i
  OBVIOUS
<1>12. \A j \in 1..i : /\ order[j] \in SdkKeys => order[j] \in L
                       /\ Free(order[j], attrs) => \E o \in L : LabelOf(o) = LabelOf(order[j])
  BY <1>1, <1>4, <1>5, <1>10, <1>11
<1>. QED
  BY <1>1, <1>2, <1>5, <1>6, <1>9, <1>12 DEF EnvHolds

\* What is kept of the keys, all in all.
EnvKept(K, keys, attrs) ==
  /\ K \subseteq keys
  /\ \A k \in K : k \in SdkKeys \/ Free(k, attrs)
  /\ \A a, b \in K : a # b => LabelOf(a) # LabelOf(b)
  /\ \A k \in keys : /\ k \in SdkKeys => k \in K
                     /\ Free(k, attrs) => \E o \in K : LabelOf(o) = LabelOf(k)

LEMMA EnvKeeps ==
  ASSUME NEW keys, IsFiniteSet(keys), keys \subseteq O!Keys, NEW attrs
  PROVE  EnvKept(O!EnvResourceAttributes(keys, attrs), keys, attrs)
<1>. DEFINE order == O!Sorted(keys)
            n == Len(order)
            Is(g) == g = [i \in 0..n |-> IF i = 0 THEN {} ELSE O!EnvResourceStep(g[i - 1], order[i], attrs)]
            f == CHOOSE g : Is(g)
<1>1. order \in Seq(keys) /\ \A k \in keys : \E i \in 1..n : order[i] = k
  BY SortedAll
<1>2. O!EnvResourceAttributes(keys, attrs) = f[n]
  BY Zenon DEF O!EnvResourceAttributes
<1>. HIDE DEF order
<1>3. n \in Nat /\ \A i \in 1..n : order[i] \in keys
  BY <1>1
<1>. HIDE DEF n
<1>4. PICK st : st = [p \in (SUBSET keys) \X Nat |-> IF p[2] \in 1..n THEN O!EnvResourceStep(p[1], order[p[2]], attrs) ELSE {}]
  OBVIOUS
<1>5. st \in [(SUBSET keys) \X Nat -> SUBSET keys]
  <2>1. ASSUME NEW p \in (SUBSET keys) \X Nat
        PROVE (IF p[2] \in 1..n THEN O!EnvResourceStep(p[1], order[p[2]], attrs) ELSE {}) \in SUBSET keys
    BY <1>3, EnvStepIs
  <2>. QED
    BY <1>4, <2>1
<1>6. PICK h : IsWalk(h, {}, st, n, SUBSET keys)
  <2>1. {} \in SUBSET keys
    OBVIOUS
  <2>. QED
    BY <1>3, <1>5, <2>1, WalkExists
<1>7. h \in [0..n -> SUBSET keys] /\ h[0] = {} /\ \A i \in 1..n : h[i] = O!EnvResourceStep(h[i - 1], order[i], attrs)
  <2>1. h \in [0..n -> SUBSET keys] /\ h[0] = {} /\ \A i \in 1..n : h[i] = st[<<h[i - 1], i>>]
    BY <1>6 DEF IsWalk
  <2>2. \A i \in 1..n : i - 1 \in 0..n /\ i \in Nat
    BY <1>3
  <2>3. \A i \in 1..n : st[<<h[i - 1], i>>] = O!EnvResourceStep(h[i - 1], order[i], attrs)
    BY <1>4, <2>1, <2>2
  <2>. QED
    BY <2>1, <2>3
<1>8. Is(h)
  BY <1>3, <1>7
<1>9. Is(f)
  BY <1>8, Zenon
<1>10. PICK e : e = f
  OBVIOUS
<1>11. e = [i \in 0..n |-> IF i = 0 THEN {} ELSE O!EnvResourceStep(e[i - 1], order[i], attrs)]
  BY <1>9, <1>10, Zenon
<1>12. e[0] = {} /\ \A i \in 1..n : e[i] = O!EnvResourceStep(e[i - 1], order[i], attrs)
  <2>1. 0 \in 0..n /\ \A i \in 1..n : i \in 0..n /\ i # 0
    BY <1>3
  <2>2. \A i \in 0..n : e[i] = IF i = 0 THEN {} ELSE O!EnvResourceStep(e[i - 1], order[i], attrs)
    BY <1>11, Zenon
  <2>. QED
    BY <2>1, <2>2
<1>. DEFINE P == {i \in Nat : EnvHolds(e[i], order, i, keys, attrs)}
<1>13. 0 \in P
  <2>1. EnvHolds({}, order, 0, keys, attrs)
    BY DEF EnvHolds
  <2>. QED
    BY <1>12, <2>1
<1>14. ASSUME NEW i \in 1..n, i - 1 \in P PROVE i \in P
  <2>1. i \in Nat /\ i # 0 /\ order[i] \in keys
    BY <1>3
  <2>2. EnvHolds(e[i - 1], order, i - 1, keys, attrs) /\ e[i] = O!EnvResourceStep(e[i - 1], order[i], attrs)
    BY <1>12, <1>14
  <2>3. EnvHolds(e[i], order, i, keys, attrs)
    BY <2>1, <2>2, EnvStepHolds
  <2>. QED
    BY <2>1, <2>3
<1>. HIDE DEF P
<1>15. n \in P
  <2>1. 0..n \subseteq P
    BY <1>3, <1>13, <1>14, UpTo
  <2>. QED
    BY <1>3, <2>1
<1>16. PICK K : K = e[n]
  OBVIOUS
<1>17. EnvHolds(K, order, n, keys, attrs)
  BY <1>15, <1>16 DEF P
<1>18. EnvKept(K, keys, attrs)
  BY <1>1, <1>17 DEF EnvHolds, EnvKept, n
<1>. QED
  BY <1>2, <1>10, <1>16, <1>18

-----------------------------------------------------------------------------
(***************************************************************************)
(* The Resource.  Its keys are the SDK's own, the option's and the         *)
(* environment's that were kept; their labels are distinct, and none of    *)
(* them is among the keys that were dropped.                               *)
(***************************************************************************)

KeysIn(attrs) == {attrs[i].key : i \in DOMAIN attrs}

LEMMA OverIs ==
  ASSUME NEW f, NEW g
  PROVE  /\ DOMAIN O!Over(f, g) = DOMAIN f \cup DOMAIN g
         /\ \A x \in DOMAIN f : O!Over(f, g)[x] = f[x]
         /\ \A x \in DOMAIN g : x \notin DOMAIN f => O!Over(f, g)[x] = g[x]
  BY DEF O!Over

\* The Resource m made of the attributes A and the environment's keys K.
MergedFrom(m, A, K) ==
  /\ DOMAIN m = O!IdentityResourceKeys \cup KeysIn(A) \cup detected \cup K
  /\ \A k \in O!IdentityResourceKeys : m[k] = "identity"
  /\ \A k \in KeysIn(A) : k \notin O!IdentityResourceKeys => m[k] = (CHOOSE kv \in O!Range(A) : kv.key = k).value

LEMMA MergedIs ==
  ASSUME NEW K PROVE MergedFrom(O!MergedResource(K), config.resourceAttrs, K)
<1>. DEFINE A == config.resourceAttrs
            option == [k \in KeysIn(A) |-> (CHOOSE kv \in O!Range(A) : kv.key = k).value]
            f == [k \in O!IdentityResourceKeys |-> "identity"]
            x == O!Over([k \in detected |-> "detected"], [k \in K |-> "env"])
            y == O!Over(option, x)
<1>1. O!MergedResource(K) = O!Over(f, y)
  BY Zenon DEF O!MergedResource, KeysIn
<1>2. DOMAIN x = detected \cup K
  BY DEF O!Over
<1>. HIDE DEF x
<1>3. DOMAIN y = KeysIn(A) \cup detected \cup K /\ \A k \in KeysIn(A) : y[k] = (CHOOSE kv \in O!Range(A) : kv.key = k).value
  <2>1. DOMAIN option = KeysIn(A) /\ \A k \in KeysIn(A) : option[k] = (CHOOSE kv \in O!Range(A) : kv.key = k).value
    BY Zenon
  <2>2. DOMAIN y = DOMAIN option \cup DOMAIN x /\ \A k \in DOMAIN option : y[k] = option[k]
    BY Zenon DEF O!Over
  <2>. HIDE DEF option, y
  <2>3. DOMAIN y = KeysIn(A) \cup detected \cup K
    BY <1>2, <2>1, <2>2
  <2>4. \A k \in KeysIn(A) : y[k] = (CHOOSE kv \in O!Range(A) : kv.key = k).value
    BY <2>1, <2>2, Zenon
  <2>. QED
    BY <2>3, <2>4
<1>. HIDE DEF y
<1>4. DOMAIN f = O!IdentityResourceKeys /\ \A k \in DOMAIN f : f[k] = "identity"
  OBVIOUS
<1>. HIDE DEF f
<1>5. PICK m : m = O!Over(f, y)
  OBVIOUS
<1>6. DOMAIN m = DOMAIN f \cup DOMAIN y /\ (\A k \in DOMAIN f : m[k] = f[k]) /\ (\A k \in DOMAIN y : k \notin DOMAIN f => m[k] = y[k])
  BY <1>5 DEF O!Over
<1>7. DOMAIN m = O!IdentityResourceKeys \cup KeysIn(A) \cup detected \cup K
  BY <1>3, <1>4, <1>6
<1>8. \A k \in O!IdentityResourceKeys : m[k] = "identity"
  BY <1>4, <1>6
<1>9. \A k \in KeysIn(A) : k \notin O!IdentityResourceKeys => m[k] = (CHOOSE kv \in O!Range(A) : kv.key = k).value
  <2>1. \A k \in KeysIn(A) : k \notin O!IdentityResourceKeys => m[k] = y[k]
    BY <1>3, <1>4, <1>6
  <2>. QED
    BY <1>3, <2>1, Zenon
<1>. QED
  BY <1>1, <1>5, <1>7, <1>8, <1>9, Zenon DEF MergedFrom

\* The keys D of a Resource with the attributes A, K of the environment's.
KeysHold(D, A, keys, K) ==
  /\ D \subseteq O!Keys /\ IsFiniteSet(D)
  /\ \A a, b \in D : LabelOf(a) = LabelOf(b) => a = b
  /\ \A k \in D : /\ ~O!Unrenderable(LabelOf(k))
                  /\ O!OwnedByExporter(LabelOf(k)) => k \in O!IdentityResourceKeys
  /\ \A k \in keys : k \in D => k \in K
  /\ \A k \in KeysIn(A) : k \notin SdkKeys

LEMMA ResourceKeys ==
  ASSUME NEW g, NEW c, AttrsAgree(g, c), NEW A, A = c.resourceAttrs, NEW keys, IsFiniteSet(keys), keys \subseteq O!Keys,
         NEW S, S \subseteq SdkKeys, O!IdentityResourceKeys \subseteq S,
         NEW K, EnvKept(K, keys, A), NEW D, D = S \cup KeysIn(A) \cup K
  PROVE  KeysHold(D, A, keys, K)
<1>1. /\ A \in Seq(AttrValues)
      /\ \A i \in DOMAIN A : ~Barred(A[i].key)
      /\ \A i, j \in DOMAIN A : i # j => LabelOf(A[i].key) # LabelOf(A[j].key)
  BY DEF AttrsAgree
<1>2. \A k \in KeysIn(A) : k \in O!Keys
  <2>1. \A i \in DOMAIN A : A[i] \in AttrValues
    BY <1>1
  <2>. QED
    BY <2>1, AttrKeysAreKeys DEF KeysIn
<1>3. \A k \in KeysIn(A) : ~Barred(k)
  BY <1>1 DEF KeysIn
<1>4. \A a, b \in KeysIn(A) : LabelOf(a) = LabelOf(b) => a = b
  BY <1>1 DEF KeysIn
<1>5. /\ K \subseteq keys
      /\ \A k \in K : k \in SdkKeys \/ Free(k, A)
      /\ \A a, b \in K : a # b => LabelOf(a) # LabelOf(b)
      /\ \A k \in keys : /\ k \in SdkKeys => k \in K
                         /\ Free(k, A) => \E o \in K : LabelOf(o) = LabelOf(k)
  BY DEF EnvKept
<1>6. \A k : Free(k, A) => \A a \in KeysIn(A) : LabelOf(a) = LabelOf(k) => a = k
  BY DEF Free, O!AliasOf, O!SameLabel, LabelOf, KeysIn
<1>7. \A k : Free(k, A) \/ ~Barred(k) => O!ResourceKeyOwner(k) = {} /\ ~O!IsReservedAttributeKey(k)
  BY DEF Free, Barred
<1>8. \A k : Free(k, A) \/ ~Barred(k) => \A o \in SdkKeys : LabelOf(o) # LabelOf(k)
  BY <1>7, OwnerIs
<1>9. \A k \in KeysIn(A) : k \notin SdkKeys
  BY <1>3, <1>8
<1>10. \A k \in D : k \in SdkKeys \/ k \in KeysIn(A) \/ (k \in K /\ Free(k, A))
  BY <1>5
<1>11. D \subseteq O!Keys
  BY <1>2, <1>5, SdkKeyLabels
<1>12. IsFiniteSet(D)
  <2>1. IsFiniteSet(S) /\ IsFiniteSet(K)
    BY <1>5, SdkKeyLabels, FS_Subset
  <2>2. IsFiniteSet(KeysIn(A))
    <3>1. IsFiniteSet(DOMAIN A)
      BY <1>1, FS_Interval
    <3>2. PICK f : f = [i \in DOMAIN A |-> A[i].key]
      OBVIOUS
    <3>3. f \in Surjection(DOMAIN A, KeysIn(A))
      BY <3>2 DEF KeysIn, Surjection
    <3>. QED
      BY <3>1, <3>3, FS_Surjection
  <2>. QED
    BY <2>1, <2>2, FS_Union
<1>13. ASSUME NEW a \in D, NEW b \in D, LabelOf(a) = LabelOf(b) PROVE a = b
  <2>1. CASE a \in SdkKeys
    <3>1. CASE b \in SdkKeys
      BY <1>13, <2>1, <3>1, SdkKeyLabels
    <3>2. CASE b \in KeysIn(A) \/ Free(b, A)
      BY <1>3, <1>8, <1>13, <2>1, <3>2
    <3>. QED
      BY <1>10, <3>1, <3>2
  <2>2. CASE a \in KeysIn(A)
    <3>1. CASE b \in SdkKeys
      BY <1>3, <1>8, <1>13, <2>2, <3>1
    <3>2. CASE b \in KeysIn(A)
      BY <1>4, <1>13, <2>2, <3>2
    <3>3. CASE Free(b, A)
      BY <1>6, <1>13, <2>2, <3>3
    <3>. QED
      BY <1>10, <3>1, <3>2, <3>3
  <2>3. CASE a \in K /\ Free(a, A)
    <3>1. CASE b \in SdkKeys
      BY <1>8, <1>13, <2>3, <3>1
    <3>2. CASE b \in KeysIn(A)
      BY <1>6, <1>13, <2>3, <3>2
    <3>3. CASE b \in K /\ Free(b, A)
      BY <1>5, <1>13, <2>3, <3>3
    <3>. QED
      BY <1>10, <3>1, <3>2, <3>3
  <2>. QED
    BY <1>10, <2>1, <2>2, <2>3
<1>14. ASSUME NEW k \in D
       PROVE  ~O!Unrenderable(LabelOf(k)) /\ (O!OwnedByExporter(LabelOf(k)) => k \in O!IdentityResourceKeys)
  <2>1. CASE k \in SdkKeys
    BY <2>1, SdkKeyLabels DEF SdkKeys
  <2>2. CASE k \in KeysIn(A) \/ Free(k, A)
    <3>1. ~O!IsReservedAttributeKey(k)
      BY <1>3, <1>7, <2>2
    <3>2. k \in Seq(Signs)
      BY <1>11, KeysAreSigns
    <3>. QED
      BY <3>1, <3>2, ReservedExactly DEF LabelOf
  <2>. QED
    BY <1>10, <2>1, <2>2
<1>15. ASSUME NEW k \in keys, k \in D PROVE k \in K
  <2>1. CASE k \in SdkKeys
    BY <1>5, <2>1
  <2>2. CASE k \in KeysIn(A)
    <3>1. Free(k, A)
      <4>1. ~O!AliasOf(k, A)
        BY <1>4, <2>2 DEF O!AliasOf, O!SameLabel, LabelOf, KeysIn
      <4>2. ~Barred(k)
        BY <1>3, <2>2
      <4>. QED
        BY <4>1, <4>2 DEF Free, Barred
    <3>2. PICK o \in K : LabelOf(o) = LabelOf(k)
      BY <1>5, <3>1
    <3>3. o \in D
      OBVIOUS
    <3>. QED
      BY <1>13, <1>15, <3>2, <3>3
  <2>. QED
    BY <1>10, <1>15, <2>1, <2>2
<1>. QED
  BY <1>9, <1>11, <1>12, <1>13, <1>14, <1>15 DEF KeysHold

EnvWarned(k) == <<"OTEL_RESOURCE_ATTRIBUTES", k>>
Spans(p, keys) == O!Over(p, [k \in keys |-> "env"])

\* The Resource r and what the providers get, p, of the environment's keys.
ResourceHolds(r, p, keys, g, c) ==
  /\ \A a, b \in DOMAIN r : LabelOf(a) = LabelOf(b) => a = b
  /\ O!Range(O!TargetInfoLabels(r)) = DOMAIN r
  /\ \A k \in DOMAIN r : O!OwnedByExporter(LabelOf(k)) => r[k] = "identity"
  /\ \A k \in DOMAIN r : Spans(p, keys)[k] = r[k]
  /\ \A k \in DOMAIN Spans(p, keys) : k \notin DOMAIN r => Spans(p, keys)[k] = "empty"
  /\ \A i \in PlacesOf(g, AttrOp) : g[i].v.key \in DOMAIN r \/ <<AttrOp, g[i].v.key>> \in c.warned
  /\ \A k \in keys : k \in DOMAIN r \/ EnvWarned(k) \in c.warned
  /\ \A k \in KeysIn(c.resourceAttrs) : r[k] = LastIn(g, Named(g, k)).v.value

\* target_info has every key of a Resource whose labels render and are distinct.
LEMMA TargetInfoAll ==
  ASSUME NEW r, IsFiniteSet(DOMAIN r), DOMAIN r \subseteq O!Keys,
         \A a, b \in DOMAIN r : LabelOf(a) = LabelOf(b) => a = b,
         \A k \in DOMAIN r : ~O!Unrenderable(LabelOf(k))
  PROVE  O!Range(O!TargetInfoLabels(r)) = DOMAIN r
<1>1. PICK D : D = DOMAIN r
  OBVIOUS
<1>2. O!TargetInfoLabels(r) = O!KeepFirst(D, D)
  <2>1. {k \in DOMAIN r : ~O!Unrenderable(LabelOf(k))} = DOMAIN r
    OBVIOUS
  <2>. QED
    BY <1>1, <2>1 DEF O!TargetInfoLabels, LabelOf
<1>3. PICK same : same = {x \in D \X D : LabelOf(x[1]) = LabelOf(x[2])}
  OBVIOUS
<1>4. \A a, b \in D : <<a, b>> \in same <=> O!SameLabel(a, b)
  BY <1>3 DEF O!SameLabel, LabelOf
<1>5. PICK q : q = O!KeepFirst(D, D)
  OBVIOUS
<1>6. KeptFirst(q, D, D, same)
  BY <1>1, <1>4, <1>5, KeepFirstO
<1>7. q \in Seq(D) /\ \A k \in D : \E a \in DOMAIN q : <<q[a], k>> \in same
  BY <1>6 DEF KeptFirst
<1>8. \A a \in DOMAIN q : q[a] \in D
  BY <1>7
<1>9. \A k \in D : \E a \in DOMAIN q : q[a] = k
  <2>. SUFFICES ASSUME NEW k \in D PROVE \E a \in DOMAIN q : q[a] = k
    OBVIOUS
  <2>1. PICK a \in DOMAIN q : <<q[a], k>> \in same
    BY <1>7
  <2>2. LabelOf(q[a]) = LabelOf(k)
    BY <1>3, <2>1
  <2>. QED
    BY <1>1, <1>8, <2>2
<1>. QED
  BY <1>1, <1>2, <1>5, <1>8, <1>9 DEF O!Range

LEMMA ResourceBuilt ==
  ASSUME AttrsAgree(given, config), detected \subseteq O!DetectedResourceKeys,
         NEW keys, IsFiniteSet(keys), keys \subseteq O!Keys,
         NEW K, K = O!EnvResourceAttributes(keys, config.resourceAttrs),
         NEW r, r = O!MergedResource(K), NEW p, p = O!Over(O!NeutralizeEnvKeys(keys \ K), r),
         NEW c, c.resourceAttrs = config.resourceAttrs, config.warned \subseteq c.warned,
         \A k \in keys \ K : EnvWarned(k) \in c.warned
  PROVE  ResourceHolds(r, p, keys, given, c)
<1>1. PICK A : A = config.resourceAttrs
  OBVIOUS
<1>2. EnvKept(K, keys, A)
  BY <1>1, EnvKeeps
<1>3. /\ DOMAIN r = O!IdentityResourceKeys \cup KeysIn(A) \cup detected \cup K
      /\ \A k \in O!IdentityResourceKeys : r[k] = "identity"
      /\ \A k \in KeysIn(A) : k \notin O!IdentityResourceKeys => r[k] = (CHOOSE kv \in O!Range(A) : kv.key = k).value
  <2>1. MergedFrom(r, A, K)
    BY <1>1, MergedIs
  <2>. QED
    BY <2>1, Zenon DEF MergedFrom
<1>4. PICK S : S = O!IdentityResourceKeys \cup detected
  OBVIOUS
<1>5. PICK D : D = S \cup KeysIn(A) \cup K
  OBVIOUS
<1>6. D = DOMAIN r
  BY <1>3, <1>4, <1>5
<1>7. S \subseteq SdkKeys /\ O!IdentityResourceKeys \subseteq S
  BY <1>4 DEF SdkKeys
<1>8. /\ D \subseteq O!Keys /\ IsFiniteSet(D)
      /\ \A a, b \in D : LabelOf(a) = LabelOf(b) => a = b
      /\ \A k \in D : /\ ~O!Unrenderable(LabelOf(k))
                      /\ O!OwnedByExporter(LabelOf(k)) => k \in O!IdentityResourceKeys
      /\ \A k \in keys : k \in D => k \in K
      /\ \A k \in KeysIn(A) : k \notin SdkKeys
  <2>1. KeysHold(D, A, keys, K)
    BY <1>1, <1>2, <1>5, <1>7, ResourceKeys
  <2>. QED
    BY <2>1 DEF KeysHold
<1>9. O!Range(O!TargetInfoLabels(r)) = DOMAIN r
  BY <1>6, <1>8, TargetInfoAll
<1>10. PICK z : z = Spans(p, keys)
  OBVIOUS
<1>11. /\ DOMAIN p = (keys \ K) \cup D
       /\ \A k \in keys \ K : p[k] = "empty"
       /\ \A k \in D : k \notin keys \ K => p[k] = r[k]
  BY <1>6 DEF O!Over, O!NeutralizeEnvKeys
<1>12. DOMAIN z = DOMAIN p \cup keys /\ \A k \in DOMAIN p : z[k] = p[k]
  BY <1>10 DEF Spans, O!Over
<1>13. \A k \in D : z[k] = r[k]
  BY <1>8, <1>11, <1>12
<1>14. \A k \in DOMAIN z : k \notin D => z[k] = "empty"
  <2>1. K \subseteq D
    BY <1>5
  <2>. QED
    BY <1>11, <1>12, <2>1
<1>15. \A i \in PlacesOf(given, AttrOp) : given[i].v.key \in D \/ <<AttrOp, given[i].v.key>> \in c.warned
  BY <1>1, <1>5 DEF AttrsAgree, KeysIn
<1>16. \A k \in keys : k \in D \/ EnvWarned(k) \in c.warned
  BY <1>5
<1>17. ASSUME NEW k \in KeysIn(A) PROVE r[k] = LastIn(given, Named(given, k)).v.value
  <2>1. k \notin O!IdentityResourceKeys
    BY <1>8 DEF SdkKeys
  <2>2. PICK j \in DOMAIN A : A[j].key = k
    BY DEF KeysIn
  <2>3. \A i \in DOMAIN A : A[i].key = k => A[i] = A[j]
    BY <1>1, <2>2 DEF AttrsAgree
  <2>4. A[j] \in O!Range(A) /\ \A kv \in O!Range(A) : kv.key = k => kv = A[j]
    BY <2>2, <2>3 DEF O!Range
  <2>5. PICK kv : kv = CHOOSE x \in O!Range(A) : x.key = k
    OBVIOUS
  <2>6. kv \in O!Range(A) /\ kv.key = k
    BY <2>2, <2>4, <2>5, Zenon
  <2>7. kv = A[j]
    BY <2>4, <2>6
  <2>8. r[k] = kv.value
    BY <1>3, <2>1, <2>5, Zenon
  <2>9. A[j] = LastIn(given, Named(given, A[j].key)).v
    BY <1>1 DEF AttrsAgree
  <2>. QED
    BY <2>2, <2>7, <2>8, <2>9
<1>18. \A k \in DOMAIN r : O!OwnedByExporter(LabelOf(k)) => r[k] = "identity"
  BY <1>3, <1>6, <1>8
<1>. QED
  BY <1>1, <1>6, <1>8, <1>9, <1>10, <1>13, <1>14, <1>15, <1>16, <1>17, <1>18, SMTT(60) DEF ResourceHolds

LabelInv ==
  /\ PromotedAgrees(given, config) /\ AttrsAgree(given, config)
  /\ detected \subseteq O!DetectedResourceKeys
  /\ at \in {"resource", "ready", "collision"} => ResourceHolds(res, providerRes, caller.env, given, config)

LEMMA LabelsKept ==
  ASSUME NEW g, NEW c, NEW d, d.extraHTTPServerAttrKeys = c.extraHTTPServerAttrKeys,
         d.resourceAttrs = c.resourceAttrs, c.warned \subseteq d.warned
  PROVE  /\ PromotedAgrees(g, c) => PromotedAgrees(g, d)
         /\ AttrsAgree(g, c) => AttrsAgree(g, d)
         /\ \A r, p, keys : ResourceHolds(r, p, keys, g, c) => ResourceHolds(r, p, keys, g, d)
<1>1. PromotedAgrees(g, c) => PromotedAgrees(g, d)
  BY DEF PromotedAgrees
<1>2. AttrsAgree(g, c) => AttrsAgree(g, d)
  BY DEF AttrsAgree
<1>3. ASSUME NEW r, NEW p, NEW keys, ResourceHolds(r, p, keys, g, c) PROVE ResourceHolds(r, p, keys, g, d)
  BY <1>3 DEF ResourceHolds
<1>. QED
  BY <1>1, <1>2, <1>3

LEMMA LabelInitHolds == ASSUME O!Init PROVE LabelInv
<1>1. given = <<>> /\ config = O!DefaultConfig(toggles) /\ at = "options" /\ detected \subseteq O!DetectedResourceKeys
  BY DEF O!Init
<1>2. config.extraHTTPServerAttrKeys = <<>> /\ config.resourceAttrs = <<>>
  BY <1>1 DEF O!DefaultConfig
<1>3. \A op : PlacesOf(given, op) = {} /\ KeysOf(given, op) = {}
  BY <1>1 DEF PlacesOf, KeysOf
<1>4. PromotedAgrees(given, config)
  BY <1>2, <1>3 DEF PromotedAgrees
<1>5. AttrsAgree(given, config)
  BY <1>2, <1>3 DEF AttrsAgree
<1>. QED
  BY <1>1, <1>4, <1>5 DEF LabelInv

LEMMA LabelWithKeeps == ASSUME OptTyped, LabelInv, NEW o \in O!Offered, O!With(o) PROVE LabelInv'
<1>1. given' = Append(given, o) /\ config' = O!Apply(config, o) /\ at' = "options" /\ detected' = detected
  BY DEF O!With
<1>2. o \in Offerings /\ O!IsOption(o) /\ given \in Seq(Offerings) /\ Shaped(config)
  BY OfferedIsOption, OfferingsAreOptions DEF OptTyped
<1>3. PromotedAgrees(given, config)'
  BY <1>1, <1>2, PromotedMore DEF LabelInv
<1>4. AttrsAgree(given, config)'
  BY <1>1, <1>2, AttrsMore DEF LabelInv
<1>. QED
  BY <1>1, <1>3, <1>4 DEF LabelInv

LEMMA LabelCheckKeeps == ASSUME OptTyped, LabelInv, O!Check PROVE LabelInv'
<1>1. given' = given /\ at' \in {"checked", "failed"} /\ detected' = detected
  BY DEF O!Check
<1>2. /\ config'.extraHTTPServerAttrKeys = config.extraHTTPServerAttrKeys
      /\ config'.resourceAttrs = config.resourceAttrs /\ config'.warned = config.warned
  BY DEF O!Check, O!ConfigureSampler, OptTyped, Shaped, Fields
<1>3. PromotedAgrees(given, config)' /\ AttrsAgree(given, config)'
  BY <1>1, <1>2, LabelsKept DEF LabelInv
<1>. QED
  BY <1>1, <1>3 DEF LabelInv

LEMMA LabelBuildKeeps == ASSUME OptTyped, LabelInv, O!BuildResource PROVE LabelInv'
<1>1. PICK K : K = O!EnvResourceAttributes(caller.env, config.resourceAttrs)
  OBVIOUS
<1>2. /\ given' = given /\ at' = "resource" /\ detected' = detected /\ caller' = caller
      /\ res' = O!MergedResource(K)
      /\ providerRes' = O!Over(O!NeutralizeEnvKeys(caller.env \ K), O!MergedResource(K))
      /\ config' = [config EXCEPT !.warned = @ \cup {EnvWarned(k) : k \in caller.env \ K}]
  BY <1>1 DEF O!BuildResource, EnvWarned
<1>3. /\ config'.extraHTTPServerAttrKeys = config.extraHTTPServerAttrKeys
      /\ config'.resourceAttrs = config.resourceAttrs
      /\ config'.warned = config.warned \cup {EnvWarned(k) : k \in caller.env \ K}
  BY <1>2 DEF OptTyped, Shaped, Fields
<1>4. PromotedAgrees(given, config)' /\ AttrsAgree(given, config)'
  BY <1>2, <1>3, LabelsKept DEF LabelInv
<1>5. IsFiniteSet(caller.env) /\ caller.env \subseteq O!Keys
  BY CallersAssumption DEF OptTyped
<1>6. ResourceHolds(res', providerRes', caller.env, given, config')
  <2>1. PICK r, p, c, keys : r = res' /\ p = providerRes' /\ c = config' /\ keys = caller.env
    OBVIOUS
  <2>2. /\ r = O!MergedResource(K) /\ p = O!Over(O!NeutralizeEnvKeys(keys \ K), r)
        /\ K = O!EnvResourceAttributes(keys, config.resourceAttrs)
        /\ IsFiniteSet(keys) /\ keys \subseteq O!Keys
    BY <1>1, <1>2, <1>5, <2>1
  <2>3. /\ c.resourceAttrs = config.resourceAttrs /\ config.warned \subseteq c.warned
        /\ \A k \in keys \ K : EnvWarned(k) \in c.warned
    BY <1>3, <2>1
  <2>4. AttrsAgree(given, config) /\ detected \subseteq O!DetectedResourceKeys
    BY DEF LabelInv
  <2>5. ResourceHolds(r, p, keys, given, c)
    BY <2>2, <2>3, <2>4, ResourceBuilt
  <2>. QED
    BY <2>1, <2>5
<1>. QED
  BY <1>2, <1>4, <1>6 DEF LabelInv

LEMMA LabelConfigureKeeps == ASSUME OptTyped, LabelInv, O!ConfigureBaggageWhitelist PROVE LabelInv'
<1>1. /\ given' = given /\ at = "resource" /\ at' \in {"ready", "collision"} /\ detected' = detected /\ caller' = caller
      /\ res' = res /\ providerRes' = providerRes
  BY DEF O!ConfigureBaggageWhitelist
<1>2. /\ config'.extraHTTPServerAttrKeys = config.extraHTTPServerAttrKeys
      /\ config'.resourceAttrs = config.resourceAttrs /\ config.warned \subseteq config'.warned
  <2>1. config' = config \/ \E keys, W : config' = [config EXCEPT !.baggageKeys = keys, !.warned = config.warned \cup W]
    <3>1. CASE config' = config
      BY <3>1
    <3>2. CASE config' # config
      <4>1. PICK keys, U, W : config' = [config EXCEPT !.baggageKeys = keys, !.warned = (config.warned \cup U) \cup W]
        BY <3>2 DEF O!ConfigureBaggageWhitelist
      <4>2. (config.warned \cup U) \cup W = config.warned \cup (U \cup W)
        OBVIOUS
      <4>. QED
        BY <4>1, <4>2
    <3>. QED
      BY <3>1, <3>2
  <2>. QED
    BY <2>1 DEF OptTyped, Shaped, Fields
<1>3. PromotedAgrees(given, config)' /\ AttrsAgree(given, config)'
  BY <1>1, <1>2, LabelsKept DEF LabelInv
<1>4. ResourceHolds(res, providerRes, caller.env, given, config)
  BY <1>1 DEF LabelInv
<1>5. ResourceHolds(res, providerRes, caller.env, given, config')
  BY <1>2, <1>4, LabelsKept
<1>. QED
  BY <1>1, <1>3, <1>5 DEF LabelInv

LEMMA LabelStepKeeps == ASSUME OptTyped, LabelInv, O!Next PROVE LabelInv'
  BY LabelWithKeeps, LabelCheckKeeps, LabelBuildKeeps, LabelConfigureKeeps DEF O!Next

LEMMA LabelMeans == ASSUME OptTyped, LabelInv PROVE O!ResourceGuarded /\ O!PromotedDistinct
<1>1. O!PromotedDistinct
  BY PromotedMeans DEF LabelInv
<1>2. ASSUME at \in {"ready", "collision"} PROVE O!ResourceGuarded
  <2>1. ResourceHolds(res, providerRes, caller.env, given, config)
    BY <1>2 DEF LabelInv
  <2>2. PICK z : z = O!OnSpans
    OBVIOUS
  <2>3. z = Spans(providerRes, caller.env)
    BY <2>2 DEF O!OnSpans, Spans
  <2>4. /\ \A a, b \in DOMAIN res : a # b => ~O!SameLabel(a, b)
        /\ O!Range(O!TargetInfoLabels(res)) = DOMAIN res
    BY <2>1 DEF ResourceHolds, O!SameLabel, LabelOf
  <2>5. \A k \in DOMAIN res : /\ O!OwnedByExporter(O!NormalizePrometheusLabelName(k)) => res[k] = "identity"
                              /\ z[k] = res[k]
    BY <2>1, <2>3 DEF ResourceHolds, LabelOf
  <2>6. \A k \in DOMAIN z \ DOMAIN res : z[k] = "empty"
    BY <2>1, <2>3 DEF ResourceHolds
  <2>7. O!At(AttrOp) = PlacesOf(given, AttrOp)
    BY DEF O!At, PlacesOf
  <2>8. \A k \in O!GivenKeys(AttrOp) : \E i \in PlacesOf(given, AttrOp) : k = given[i].v
    BY <2>7 DEF O!GivenKeys
  <2>9. \A k \in O!GivenKeys(AttrOp) : k.key \in DOMAIN res \/ <<AttrOp, k.key>> \in config.warned
    BY <2>1, <2>8 DEF ResourceHolds
  <2>10. \A k \in caller.env : k \in DOMAIN res \/ EnvWarned(k) \in config.warned
    BY <2>1 DEF ResourceHolds
  <2>11. {a.key : a \in O!Range(config.resourceAttrs)} = KeysIn(config.resourceAttrs)
    BY DEF O!Range, KeysIn
  <2>12. \A key : {i \in O!At(AttrOp) : given[i].v.key = key} = Named(given, key)
    BY <2>7 DEF Named
  <2>13. \A k \in O!GivenKeys(AttrOp) :
           k.key \in {a.key : a \in O!Range(config.resourceAttrs)} =>
             res[k.key] = O!LastOf({i \in O!At(AttrOp) : given[i].v.key = k.key}).v.value
    BY <2>1, <2>11, <2>12, ZenonT(60) DEF ResourceHolds, O!LastOf, LastIn
  <2>. QED
    BY <2>2, <2>4, <2>5, <2>6, <2>9, <2>10, <2>13, Zenon DEF O!ResourceGuarded, AttrOp, EnvWarned
<1>. QED
  BY <1>1, <1>2 DEF O!ResourceGuarded

\* No two attributes of the Resource, and no two labels of the request duration,
\* share a Prometheus label, whatever options, environment and detectors give and
\* in whatever order; what the guard drops is warned of and reaches no span
\* (WithResourceAttributes, WithExtraHTTPServerAttributeKeys, envResourceAttributes,
\* neutralizeEnvKeys, targetInfoLabels).
THEOREM LabelsSafe == Spec => []LabelsDistinct
<1>. DEFINE Inv == which = "options" => OptInv /\ LabelInv
<1>1. Init => Inv
  BY OptInitHolds, LabelInitHolds DEF Init
<1>2. Inv /\ [Next]_vars => Inv'
  <2>1. ASSUME Inv, Next PROVE Inv'
    BY <2>1, OptStepKeeps, LabelStepKeeps DEF Next, OptInv
  <2>2. ASSUME Inv, UNCHANGED vars PROVE Inv'
    <3>1. LabelInv => LabelInv'
      BY <2>2 DEF vars, optVars, LabelInv
    <3>. QED
      BY <2>2, <3>1, OptStill DEF vars
  <2>. QED
    BY <2>1, <2>2
<1>3. Inv => LabelsDistinct
  BY LabelMeans DEF LabelsDistinct, OptInv
<1>. QED
  BY <1>1, <1>2, <1>3, PTL DEF Spec
=============================================================================
