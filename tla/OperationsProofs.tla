--------------------------- MODULE OperationsProofs --------------------------
(***************************************************************************)
(* Proofs about the clients' operations: what MCOperations states of each, *)
(* for any errors, statuses and bounds.                                    *)
(***************************************************************************)
EXTENDS MCOperations, FiniteSetTheorems, SequenceTheorems, WellFoundedInduction, TLAPS

\* Every set of numbers has a least one.
LEMMA LeastNumber ==
  ASSUME NEW S, S \subseteq Nat, S # {} PROVE \E m \in S : \A k \in S : m <= k
<1>1. \A k, m \in Nat : k < m => <<k, m>> \in OpToRel(<, Nat)
  BY Zenon DEF OpToRel
<1>2. PICK m \in S : \A k \in S : <<k, m>> \notin OpToRel(<, Nat)
  BY NatLessThanWellFounded, WFMin, Zenon
<1>3. \A k \in S : ~(k < m)
  BY <1>1, <1>2, Zenon
<1>. QED
  BY <1>3

-----------------------------------------------------------------------------
(***************************************************************************)
(* Cassandra.                                                              *)
(***************************************************************************)

\* A query attempt or a batch of an instrumented session is one operation.
LEMMA CqlReports == Cql!Spec => Cql!Op!Spec
<1>1. Cql!Init => Cql!Op!Init
  <2> SUFFICES ASSUME Cql!Init PROVE Cql!Op!Init
    OBVIOUS
  <2>1. cqlPc = "idle" /\ cqlSpan.error = NoType /\ cqlSample.error = NoType
    BY DEF Cql!Init, Cql!NoRecord
  <2>. QED
    BY <2>1, Zenon DEF Cql!Op!Init
<1>2. [Cql!Next]_Cql!vars => [Cql!Op!Next]_Cql!Op!vars
  <2> SUFFICES ASSUME [Cql!Next]_Cql!vars PROVE [Cql!Op!Next]_Cql!Op!vars
    OBVIOUS
  <2>1. CASE Cql!Begin
    BY <2>1 DEF Cql!Begin, Cql!Run, Cql!Op!Next, Cql!Op!Open
  <2>2. CASE Cql!Reached
    BY <2>2 DEF Cql!Reached, Cql!Op!vars
  <2>3. ASSUME NEW err, Cql!Record(err), cqlPc = "running"
        PROVE  Cql!Op!Report
    BY <2>3 DEF Cql!Record, Cql!Op!Report
  <2>4. CASE UNCHANGED Cql!vars
    BY <2>4 DEF Cql!vars, Cql!Op!vars
  <2>. QED
    BY <2>1, <2>2, <2>3, <2>4 DEF Cql!Next, Cql!ObserveQuery, Cql!BatchReturns, Cql!Op!Next
<1>. QED
  BY <1>1, <1>2, PTL DEF Cql!Spec, Cql!Op!Spec

(***************************************************************************)
(* What the parser makes of a statement is what it addresses or nothing    *)
(* (Reads), and what the pass over a batch keeps is what its statements    *)
(* share (PassKeeps), by induction on their number.                        *)
(***************************************************************************)

\* The least element of a set of numbers with one that is.
LEMMA FirstOf ==
  ASSUME NEW S \in SUBSET Int, NEW n \in S, \A j \in S : n <= j
  PROVE  (CHOOSE i \in S : \A j \in S : i <= j) = n
<1>1. \A i \in S : (\A j \in S : i <= j) => i = n
  OBVIOUS
<1>. QED
  BY <1>1

\* afterKeyword finds the name after its keyword.
LEMMA AfterFound ==
  ASSUME NEW s, NEW keyword, NEW n \in 2..(Len(s.shape) - 1), Len(s.shape) \in Nat,
         s.shape[n] = keyword, \A i \in 2..(Len(s.shape) - 1) : s.shape[i] = keyword => n <= i
  PROVE  Cql!AfterKeyword(s, keyword) = Cql!Field(s, 1 + n)
<1>. DEFINE places == {i \in 2..(Len(s.shape) - 1) : s.shape[i] = keyword}
<1>1. places \in SUBSET Int /\ n \in places /\ \A j \in places : n <= j
  OBVIOUS
<1>2. (CHOOSE i \in places : \A j \in places : i <= j) = n
  BY <1>1, FirstOf
<1>. QED
  BY <1>1, <1>2 DEF Cql!AfterKeyword

\* objectToken finds the first field that is no part of IF NOT EXISTS.
LEMMA ObjectFound ==
  ASSUME NEW s, NEW start \in Nat, NEW n \in start..Len(s.shape), Len(s.shape) \in Nat,
         s.shape[n] \notin {"IF", "NOT", "EXISTS"},
         \A i \in start..Len(s.shape) : i < n => s.shape[i] \in {"IF", "NOT", "EXISTS"}
  PROVE  Cql!ObjectToken(s, start) = Cql!Field(s, n)
<1>. DEFINE places == {i \in start..Len(s.shape) : s.shape[i] \notin {"IF", "NOT", "EXISTS"}}
<1>1. places \in SUBSET Int /\ n \in places /\ \A j \in places : n <= j
  OBVIOUS
<1>2. (CHOOSE i \in places : \A j \in places : i <= j) = n
  BY <1>1, FirstOf
<1>. QED
  BY <1>1, <1>2 DEF Cql!ObjectToken

TableShapes ==
  {<<"SELECT", "*", "FROM", "name">>, <<"INSERT", "INTO", "name", "x">>,
   <<"UPDATE", "name", "SET">>, <<"DELETE", "FROM", "name">>,
   <<"TRUNCATE", "name">>, <<"TRUNCATE", "TABLE", "name">>,
   <<"CREATE", "TABLE", "IF", "NOT", "EXISTS", "name", "x">>, <<"DROP", "TABLE", "name">>}

\* The parser reads the name of a statement on a table as normalizeTable does.
LEMMA TableParsed ==
  ASSUME NEW s, s.shape \in TableShapes
  PROVE  /\ Cql!ParseTableFields(s) = Cql!NormalizeTable(s.name)
         /\ s.shape[2] \notin {"KEYSPACE", "INDEX"} /\ "name" \in {s.shape[i] : i \in DOMAIN s.shape}
<1>. DEFINE N == Cql!NormalizeTable(s.name)
<1>. HIDE DEF N
<1>1. CASE s.shape = <<"SELECT", "*", "FROM", "name">>
  <2>0. /\ Len(s.shape) = 4 /\ 3 \in 2..(Len(s.shape) - 1) /\ s.shape[3] = "FROM"
        /\ \A i \in 2..(Len(s.shape) - 1) : s.shape[i] = "FROM" => 3 <= i
        /\ Len(s.shape) \in Nat
    BY <1>1
  <2>1. Cql!AfterKeyword(s, "FROM") = Cql!Field(s, 1 + 3)
    BY <2>0, AfterFound, Zenon
  <2>. QED
    BY <1>1, <2>1 DEF Cql!ParseTableFields, Cql!Field
<1>2. CASE s.shape = <<"INSERT", "INTO", "name", "x">>
  <2>0. /\ Len(s.shape) \in Nat /\ 2 \in 2..(Len(s.shape) - 1) /\ s.shape[2] = "INTO"
        /\ \A i \in 2..(Len(s.shape) - 1) : s.shape[i] = "INTO" => 2 <= i
    BY <1>2
  <2>1. Cql!AfterKeyword(s, "INTO") = Cql!Field(s, 1 + 2)
    BY <2>0, AfterFound, Zenon
  <2>. QED
    BY <1>2, <2>1 DEF Cql!ParseTableFields, Cql!Field
<1>3. CASE s.shape = <<"UPDATE", "name", "SET">>
  BY <1>3 DEF Cql!ParseTableFields, Cql!Field
<1>4. CASE s.shape = <<"DELETE", "FROM", "name">>
  <2>0. /\ Len(s.shape) \in Nat /\ 2 \in 2..(Len(s.shape) - 1) /\ s.shape[2] = "FROM"
        /\ \A i \in 2..(Len(s.shape) - 1) : s.shape[i] = "FROM" => 2 <= i
    BY <1>4
  <2>1. Cql!AfterKeyword(s, "FROM") = Cql!Field(s, 1 + 2)
    BY <2>0, AfterFound, Zenon
  <2>. QED
    BY <1>4, <2>1 DEF Cql!ParseTableFields, Cql!Field
<1>5. CASE s.shape = <<"TRUNCATE", "name">>
  <2>0. /\ Len(s.shape) \in Nat /\ 2 \in Nat /\ 2 \in 2..Len(s.shape)
        /\ s.shape[2] \notin {"IF", "NOT", "EXISTS"}
        /\ \A i \in 2..Len(s.shape) : i < 2 => s.shape[i] \in {"IF", "NOT", "EXISTS"}
    BY <1>5
  <2>1. Cql!ObjectToken(s, 2) = Cql!Field(s, 2)
    BY <2>0, ObjectFound, Zenon
  <2>. QED
    BY <1>5, <2>1 DEF Cql!ParseTableFields, Cql!Field
<1>6. CASE s.shape = <<"TRUNCATE", "TABLE", "name">>
  <2>0. /\ Len(s.shape) \in Nat /\ 3 \in Nat /\ 3 \in 3..Len(s.shape)
        /\ s.shape[3] \notin {"IF", "NOT", "EXISTS"}
        /\ \A i \in 3..Len(s.shape) : i < 3 => s.shape[i] \in {"IF", "NOT", "EXISTS"}
    BY <1>6
  <2>1. Cql!ObjectToken(s, 3) = Cql!Field(s, 3)
    BY <2>0, ObjectFound, Zenon
  <2>. QED
    BY <1>6, <2>1 DEF Cql!ParseTableFields, Cql!Field
<1>7. CASE s.shape = <<"CREATE", "TABLE", "IF", "NOT", "EXISTS", "name", "x">>
  <2>0. /\ Len(s.shape) = 7 /\ 6 \in 3..Len(s.shape) /\ s.shape[6] = "name"
        /\ s.shape[3] = "IF" /\ s.shape[4] = "NOT" /\ s.shape[5] = "EXISTS"
    BY <1>7
  <2>3. \A i \in 3..Len(s.shape) : i < 6 => s.shape[i] \in {"IF", "NOT", "EXISTS"}
    <3>1. \A i \in 3..Len(s.shape) : i < 6 => i \in {3, 4, 5}
      BY <2>0
    <3>. QED
      BY <2>0, <3>1
  <2>4. Len(s.shape) \in Nat /\ 3 \in Nat /\ s.shape[6] \notin {"IF", "NOT", "EXISTS"}
    BY <2>0
  <2>1. Cql!ObjectToken(s, 3) = Cql!Field(s, 6)
    BY <2>0, <2>3, <2>4, ObjectFound, Zenon
  <2>2. Cql!ParseDDLTarget(s) = Cql!Field(s, 6)
    BY <1>7, <2>1 DEF Cql!ParseDDLTarget
  <2>. QED
    BY <1>7, <2>2 DEF Cql!ParseTableFields, Cql!Field
<1>8. CASE s.shape = <<"DROP", "TABLE", "name">>
  <2>0. /\ Len(s.shape) \in Nat /\ 3 \in Nat /\ 3 \in 3..Len(s.shape)
        /\ s.shape[3] \notin {"IF", "NOT", "EXISTS"}
        /\ \A i \in 3..Len(s.shape) : i < 3 => s.shape[i] \in {"IF", "NOT", "EXISTS"}
    BY <1>8
  <2>1. Cql!ObjectToken(s, 3) = Cql!Field(s, 3)
    BY <2>0, ObjectFound, Zenon
  <2>2. Cql!ParseDDLTarget(s) = Cql!Field(s, 3)
    BY <1>8, <2>1 DEF Cql!ParseDDLTarget
  <2>. QED
    BY <1>8, <2>2 DEF Cql!ParseTableFields, Cql!Field
<1>. QED
  BY <1>1, <1>2, <1>3, <1>4, <1>5, <1>6, <1>7, <1>8 DEF TableShapes

\* Of a keyspace it reads the name alone, and of anything else nothing.
LEMMA OtherParsed ==
  ASSUME NEW s
  PROVE  /\ s.shape = <<"DROP", "KEYSPACE", "IF", "EXISTS", "name">> =>
              /\ Cql!ParseTableFields(s) = <<Cql!NormalizeTable(s.name)[2], "">>
              /\ s.shape[2] = "KEYSPACE" /\ s.shape[1] # "UPDATE"
         /\ s.shape = <<"CREATE", "INDEX", "x", "ON", "name">> =>
              /\ Cql!ParseTableFields(s) = <<"", "">> /\ s.shape[2] = "INDEX"
              /\ "name" \in {s.shape[i] : i \in DOMAIN s.shape} /\ s.shape[1] # "UPDATE"
         /\ s.shape = <<"USE", "x">> =>
              /\ Cql!ParseTableFields(s) = <<"", "">> /\ s.shape[2] # "KEYSPACE"
              /\ "name" \notin {s.shape[i] : i \in DOMAIN s.shape} /\ s.shape[1] # "UPDATE"
<1>1. ASSUME s.shape = <<"DROP", "KEYSPACE", "IF", "EXISTS", "name">>
      PROVE  /\ Cql!ParseTableFields(s) = <<Cql!NormalizeTable(s.name)[2], "">>
             /\ s.shape[2] = "KEYSPACE" /\ s.shape[1] # "UPDATE"
  <2>0. /\ Len(s.shape) = 5 /\ 5 \in 3..Len(s.shape) /\ s.shape[5] = "name"
        /\ s.shape[3] = "IF" /\ s.shape[4] = "EXISTS" /\ s.shape[2] = "KEYSPACE" /\ s.shape[1] = "DROP"
    BY <1>1
  <2>4. \A i \in 3..Len(s.shape) : i < 5 => s.shape[i] \in {"IF", "NOT", "EXISTS"}
    <3>1. \A i \in 3..Len(s.shape) : i < 5 => i \in {3, 4}
      BY <2>0
    <3>. QED
      BY <2>0, <3>1
  <2>5. Len(s.shape) \in Nat /\ 3 \in Nat /\ s.shape[5] \notin {"IF", "NOT", "EXISTS"}
    BY <2>0
  <2>1. Cql!ObjectToken(s, 3) = Cql!Field(s, 5)
    BY <2>0, <2>4, <2>5, ObjectFound, Zenon
  <2>2. Cql!Field(s, 5) = Cql!NormalizeTable(s.name)
    BY <1>1 DEF Cql!Field
  <2>3. Cql!ParseDDLTarget(s) = <<Cql!NormalizeTable(s.name)[2], "">>
    <3>1. /\ ~(Len(s.shape) >= 3 /\ s.shape[2] \in {"TABLE", "COLUMNFAMILY"})
          /\ Len(s.shape) >= 3 /\ s.shape[2] \in {"KEYSPACE", "SCHEMA"}
      BY <2>0
    <3>2. Cql!ParseDDLTarget(s) = <<Cql!ObjectToken(s, 3)[2], "">>
      BY <3>1, Zenon DEF Cql!ParseDDLTarget
    <3>. QED
      BY <2>1, <2>2, <3>2
  <2>. QED
    BY <2>0, <2>3 DEF Cql!ParseTableFields
<1>2. ASSUME s.shape = <<"CREATE", "INDEX", "x", "ON", "name">> PROVE Cql!ParseTableFields(s) = <<"", "">>
  <2>0. s.shape[1] = "CREATE" /\ s.shape[2] = "INDEX"
    BY <1>2
  <2>1. s.shape[2] \notin {"TABLE", "COLUMNFAMILY"} /\ s.shape[2] \notin {"KEYSPACE", "SCHEMA"}
    BY <2>0
  <2>2. Cql!ParseDDLTarget(s) = <<"", "">>
    BY <2>1, Zenon DEF Cql!ParseDDLTarget
  <2>. QED
    BY <2>0, <2>2 DEF Cql!ParseTableFields
<1>3. ASSUME s.shape = <<"USE", "x">> PROVE Cql!ParseTableFields(s) = <<"", "">>
  <2>0. s.shape[1] = "USE"
    BY <1>3
  <2>1. /\ s.shape[1] \notin {"SELECT", "DELETE"} /\ s.shape[1] # "INSERT" /\ s.shape[1] # "UPDATE"
        /\ s.shape[1] # "TRUNCATE" /\ s.shape[1] \notin {"CREATE", "DROP", "ALTER"}
    BY <2>0
  <2>. QED
    BY <2>1, Zenon DEF Cql!ParseTableFields
<1>4. ASSUME s.shape = <<"USE", "x">>
      PROVE  /\ s.shape[2] # "KEYSPACE" /\ "name" \notin {s.shape[i] : i \in DOMAIN s.shape}
             /\ s.shape[1] # "UPDATE"
  BY <1>4
<1>5. ASSUME s.shape = <<"CREATE", "INDEX", "x", "ON", "name">>
      PROVE  /\ s.shape[2] = "INDEX" /\ "name" \in {s.shape[i] : i \in DOMAIN s.shape}
             /\ s.shape[1] # "UPDATE"
  <2>1. s.shape[1] = "CREATE" /\ s.shape[2] = "INDEX" /\ 5 \in DOMAIN s.shape /\ s.shape[5] = "name"
    BY <1>5
  <2>. QED
    BY <2>1
<1>. QED
  BY <1>1, <1>2, <1>3, <1>4, <1>5

\* What a statement addresses in a session of keyspace ks.
AddressedIn(s, ks) ==
  IF s.shape[2] = "KEYSPACE" THEN <<s.name.table, "">>
  ELSE IF "name" \notin {s.shape[i] : i \in DOMAIN s.shape} THEN <<ks, "">>
  ELSE <<IF s.name.ks = "" THEN ks ELSE s.name.ks, s.name.table>>

\* The same in the component's words.
LEMMA AddressedSame ==
  ASSUME NEW s \in Cql!Statements
  PROVE  Cql!Addressed(s) = AddressedIn(s, session)
<1>. DEFINE named == "name" \notin {s.shape[i] : i \in DOMAIN s.shape}
<1>1. CASE s.shape[2] = "KEYSPACE" /\ ~named
  BY <1>1, Zenon DEF Cql!Addressed, AddressedIn
<1>2. CASE s.shape[2] # "KEYSPACE" /\ named
  BY <1>2, Zenon DEF Cql!Addressed, AddressedIn
<1>3. CASE s.shape[2] # "KEYSPACE" /\ ~named
  BY <1>3, Zenon DEF Cql!Addressed, AddressedIn
<1>4. CASE s.shape[2] = "KEYSPACE" /\ named
  <2>1. s.shape \in Cql!Shapes /\ s.shape[2] = "KEYSPACE"
    BY <1>4 DEF Cql!Statements
  <2>2. s.shape = <<"DROP", "KEYSPACE", "IF", "EXISTS", "name">>
    BY <2>1 DEF Cql!Shapes
  <2>3. 5 \in DOMAIN s.shape /\ s.shape[5] = "name"
    BY <2>2
  <2>. QED
    BY <1>4, <2>3
<1>. QED
  BY <1>1, <1>2, <1>3, <1>4

\* The effective keyspace and table, once the parser has read p.
LEMMA EffectiveOf ==
  ASSUME NEW s, NEW k, NEW t, Cql!ParseTableFields(s) = <<k, t>>
  PROVE  Cql!Effective(s) = <<IF k = "" THEN session ELSE k, t>>
<1>1. PICK p : p = Cql!ParseTableFields(s) /\ p = <<k, t>>
  OBVIOUS
<1>2. p[1] = k /\ p[2] = t
  BY <1>1
<1>3. Cql!Effective(s) = <<IF p[1] = "" THEN session ELSE p[1], p[2]>>
  BY <1>1, Zenon DEF Cql!Effective
<1>. QED
  BY <1>2, <1>3

\* What normalizeTable makes of a name.
LEMMA Normalized ==
  ASSUME NEW nm \in Cql!Names
  PROVE  \E k \in {"", "a", "b"}, t \in {"", "t", "u"} :
           /\ Cql!NormalizeTable(nm) = <<k, t>>
           /\ t # "" => k = nm.ks /\ t = nm.table
           /\ nm.form = "whole" => k = nm.ks /\ t = nm.table
           /\ nm.form # "dotted" \/ nm.ks = "" => k = nm.ks
<1>1. nm.ks \in {"", "a", "b"} /\ nm.table \in {"t", "u"} /\ nm.form \in {"whole", "split", "dotted"}
  BY DEF Cql!Names
<1>2. CASE nm.form = "whole"
  BY <1>1, <1>2 DEF Cql!NormalizeTable, Cql!UnquoteIdentifier
<1>3. CASE nm.form = "split"
  BY <1>1, <1>3 DEF Cql!NormalizeTable, Cql!UnquoteIdentifier
<1>4. CASE nm.form = "dotted"
  BY <1>1, <1>4 DEF Cql!NormalizeTable, Cql!UnquoteIdentifier
<1>. QED
  BY <1>1, <1>2, <1>3, <1>4

\* What e may be for a statement that addresses a, of which the table or the
\* keyspace is readable.
Reads(e, a, tableRead, keyspaceRead) ==
  \E k \in {"", "a", "b", "t", "u"}, t \in {"", "t", "u"} :
    /\ e = <<k, t>>
    /\ t # "" => e = a /\ k \in {"", "a", "b"}
    /\ tableRead => e = a
    /\ keyspaceRead => k = a[1]

\* The pass reads a statement as what it addresses, or reads no table, and its
\* keyspace wherever that is readable.
LEMMA EffectiveHonest ==
  ASSUME NEW s \in Cql!Statements, session \in {"", "a"}
  PROVE  /\ Reads(Cql!Effective(s), AddressedIn(s, session), Cql!TableReadable(s), Cql!KeyspaceReadable(s))
         /\ s.shape[1] = "UPDATE" => AddressedIn(s, session)[2] # ""
<1>. DEFINE tableRead == Cql!TableReadable(s)
            keyspaceRead == Cql!KeyspaceReadable(s)
<1>1. PICK nm \in Cql!Names : nm = s.name
  BY DEF Cql!Statements
<1>2. nm.ks \in {"", "a", "b"} /\ nm.table \in {"t", "u"}
  BY DEF Cql!Names
<1>3. PICK k \in {"", "a", "b"}, t \in {"", "t", "u"} :
        /\ Cql!NormalizeTable(s.name) = <<k, t>>
        /\ t # "" => k = nm.ks /\ t = nm.table
        /\ nm.form = "whole" => k = nm.ks /\ t = nm.table
        /\ nm.form # "dotted" \/ nm.ks = "" => k = nm.ks
  BY <1>1, Normalized
<1>4. PICK e, a : e = Cql!Effective(s) /\ a = AddressedIn(s, session)
  OBVIOUS
<1>5. CASE s.shape \in TableShapes
  <2>1. /\ Cql!ParseTableFields(s) = <<k, t>>
        /\ s.shape[2] \notin {"KEYSPACE", "INDEX"} /\ "name" \in {s.shape[i] : i \in DOMAIN s.shape}
    BY <1>3, <1>5, TableParsed
  <2>2. PICK x \in {"", "a", "b"} : x = (IF k = "" THEN session ELSE k)
    BY <1>3
  <2>3. e = <<x, t>>
    BY <1>4, <2>1, <2>2, EffectiveOf
  <2>4. a = <<IF nm.ks = "" THEN session ELSE nm.ks, nm.table>>
    BY <1>1, <1>4, <2>1 DEF AddressedIn
  <2>5. t # "" \/ tableRead => e = a
    BY <1>1, <1>3, <2>2, <2>3, <2>4 DEF Cql!TableReadable
  <2>6. a[2] = nm.table
    BY <2>4
  <2>7. keyspaceRead => x = a[1]
    BY <1>1, <1>3, <2>1, <2>2, <2>4 DEF Cql!KeyspaceReadable
  <2>. HIDE DEF tableRead, keyspaceRead
  <2>8. Reads(e, a, tableRead, keyspaceRead)
    BY <2>3, <2>5, <2>7 DEF Reads
  <2>. QED
    BY <1>2, <1>4, <2>6, <2>8 DEF tableRead, keyspaceRead
<1>6. CASE s.shape = <<"DROP", "KEYSPACE", "IF", "EXISTS", "name">>
  <2>0. <<k, t>>[2] = t
    OBVIOUS
  <2>1. Cql!ParseTableFields(s) = <<t, "">> /\ s.shape[2] = "KEYSPACE" /\ s.shape[1] # "UPDATE"
    BY <1>3, <1>6, <2>0, OtherParsed
  <2>2. PICK x \in {"", "a", "t", "u"} : x = (IF t = "" THEN session ELSE t)
    BY <1>3
  <2>3. e = <<x, "">>
    BY <1>4, <2>1, <2>2, EffectiveOf
  <2>4. a = <<nm.table, "">>
    BY <1>1, <1>4, <2>1 DEF AddressedIn
  <2>5. tableRead \/ keyspaceRead => s.name.form = "whole"
    BY <2>1 DEF Cql!TableReadable, Cql!KeyspaceReadable
  <2>6. tableRead \/ keyspaceRead => x = nm.table
    BY <1>1, <1>2, <1>3, <2>2, <2>5
  <2>. HIDE DEF tableRead, keyspaceRead
  <2>7. Reads(e, a, tableRead, keyspaceRead)
    BY <2>3, <2>4, <2>6 DEF Reads
  <2>. QED
    BY <1>4, <2>1, <2>7 DEF tableRead, keyspaceRead
<1>7. CASE s.shape = <<"CREATE", "INDEX", "x", "ON", "name">>
  <2>1. /\ Cql!ParseTableFields(s) = <<"", "">> /\ s.shape[2] = "INDEX" /\ s.shape[1] # "UPDATE"
        /\ "name" \in {s.shape[i] : i \in DOMAIN s.shape}
    BY <1>7, OtherParsed
  <2>2. e = <<session, "">>
    BY <1>4, <2>1, EffectiveOf
  <2>3. a = <<IF nm.ks = "" THEN session ELSE nm.ks, nm.table>>
    BY <1>1, <1>4, <2>1 DEF AddressedIn
  <2>4. ~tableRead /\ (keyspaceRead => nm.ks = "")
    BY <1>1, <2>1 DEF Cql!TableReadable, Cql!KeyspaceReadable
  <2>. HIDE DEF tableRead, keyspaceRead
  <2>5. Reads(e, a, tableRead, keyspaceRead)
    BY <2>2, <2>3, <2>4 DEF Reads
  <2>. QED
    BY <1>4, <2>1, <2>5 DEF tableRead, keyspaceRead
<1>8. CASE s.shape = <<"USE", "x">>
  <2>1. /\ Cql!ParseTableFields(s) = <<"", "">> /\ s.shape[2] # "KEYSPACE" /\ s.shape[1] # "UPDATE"
        /\ "name" \notin {s.shape[i] : i \in DOMAIN s.shape}
    BY <1>8, OtherParsed
  <2>2. e = <<session, "">>
    BY <1>4, <2>1, EffectiveOf
  <2>3. a = <<session, "">>
    BY <1>4, <2>1 DEF AddressedIn
  <2>. HIDE DEF tableRead, keyspaceRead
  <2>4. Reads(e, a, tableRead, keyspaceRead)
    BY <2>2, <2>3 DEF Reads
  <2>. QED
    BY <1>4, <2>1, <2>4 DEF tableRead, keyspaceRead
<1>9. s.shape \in Cql!Shapes
  BY DEF Cql!Statements
<1>10. s.shape \in TableShapes \cup {<<"DROP", "KEYSPACE", "IF", "EXISTS", "name">>,
                                     <<"CREATE", "INDEX", "x", "ON", "name">>, <<"USE", "x">>}
  BY <1>9 DEF Cql!Shapes, TableShapes
<1>. QED
  BY <1>5, <1>6, <1>7, <1>8, <1>10

-----------------------------------------------------------------------------

FirstPass == [ns |-> "", nsConflict |-> FALSE, tbl |-> "", key |-> <<>>, tblConflict |-> FALSE]

\* g is the pass over the first n of es.
IsPass(g, es, n) ==
  g = [i \in 0..n |-> IF i = 0 THEN FirstPass ELSE Cql!BatchStep(g[i - 1], es[i])]

\* There is a pass over any number of statements.
LEMMA PassExists == ASSUME NEW es, NEW n \in Nat PROVE \E g : IsPass(g, es, n)
<1>. DEFINE bad == {m \in Nat : ~\E g : IsPass(g, es, m)}
<1>1. SUFFICES ASSUME bad # {} PROVE FALSE
  BY Zenon
<1>2. PICK m \in bad : \A k \in bad : m <= k
  BY <1>1, LeastNumber
<1>3. m \in Nat /\ ~\E g : IsPass(g, es, m)
  OBVIOUS
<1>. HIDE DEF bad
<1>4. m # 0
  <2>1. IsPass([i \in 0..0 |-> FirstPass], es, 0)
    BY DEF IsPass
  <2>. QED
    BY <1>3, <2>1
<1>5. PICK h : IsPass(h, es, m - 1)
  BY <1>2, <1>3, <1>4 DEF bad
<1>6. PICK final : final = Cql!BatchStep(h[m - 1], es[m])
  OBVIOUS
<1>7. PICK g : g = [i \in 0..m |-> IF i = m THEN final ELSE h[i]]
  OBVIOUS
<1>8. \A i \in 0..(m - 1) : h[i] = IF i = 0 THEN FirstPass ELSE Cql!BatchStep(h[i - 1], es[i])
  BY <1>5 DEF IsPass
<1>9. \A i \in 0..m : i # m => i \in 0..(m - 1) /\ g[i] = h[i]
  BY <1>3, <1>7
<1>10. ASSUME NEW i \in 0..m PROVE g[i] = IF i = 0 THEN FirstPass ELSE Cql!BatchStep(g[i - 1], es[i])
  <2>1. CASE i = m
    <3>1. g[m] = final /\ g[m - 1] = h[m - 1]
      BY <1>3, <1>4, <1>7
    <3>. QED
      BY <1>4, <1>6, <2>1, <3>1
  <2>2. CASE i # m
    <3>1. g[i] = h[i] /\ (i # 0 => g[i - 1] = h[i - 1])
      BY <1>3, <1>7, <2>2
    <3>. QED
      BY <1>8, <1>9, <2>2, <3>1
  <2>. QED
    BY <2>1, <2>2
<1>11. IsPass(g, es, m)
  <2>1. g = [i \in 0..m |-> g[i]]
    BY <1>7
  <2>. QED
    BY <1>10, <2>1 DEF IsPass
<1>. QED
  BY <1>3, <1>11

\* The parts of a pair and of a triple.
LEMMA Parts ==
  ASSUME NEW x, NEW a, NEW b, NEW c
  PROVE  /\ x = <<a, b>> => x[1] = a /\ x[2] = b
         /\ x = <<a, b, c>> => x[1] = a /\ x[2] = b /\ x[3] = c
  OBVIOUS

\* The statement agrees with what the pass has: in the keyspace, in the table.
SameNs(r, k) == ~r.nsConflict /\ r.ns \in {"", k} /\ k # ""
SameTable(r, e, t) == ~r.tblConflict /\ t # "" /\ r.key \in {<<>>, e}

StepEffect(r, e, q) ==
  /\ q.nsConflict \in BOOLEAN /\ q.tblConflict \in BOOLEAN
  /\ SameNs(r, e[1]) => q.ns = e[1] /\ ~q.nsConflict
  /\ ~SameNs(r, e[1]) => q.ns = "" /\ q.nsConflict
  /\ SameTable(r, e, e[2]) => q.tbl = e[2] /\ q.key = e /\ ~q.tblConflict
  /\ ~SameTable(r, e, e[2]) => q.tbl = "" /\ q.tblConflict

\* What one statement does to what the pass has.
LEMMA StepOf ==
  ASSUME NEW r, NEW e, r.nsConflict \in BOOLEAN, r.tblConflict \in BOOLEAN,
         NEW q, q = Cql!BatchStep(r, e)
  PROVE  StepEffect(r, e, q)
<1>. DEFINE ns == CASE r.nsConflict -> <<"", TRUE>>
                    [] ~r.nsConflict /\ r.ns \in {"", e[1]} /\ e[1] # "" -> <<e[1], FALSE>>
                    [] OTHER -> <<"", TRUE>>
           tb == CASE r.tblConflict \/ e[2] = "" -> <<"", r.key, TRUE>>
                    [] ~r.tblConflict /\ e[2] # "" /\ r.key \in {<<>>, e} -> <<e[2], e, FALSE>>
                    [] OTHER -> <<"", r.key, TRUE>>
           goodNs == ~r.nsConflict /\ r.ns \in {"", e[1]} /\ e[1] # ""
           goodTbl == ~r.tblConflict /\ e[2] # "" /\ r.key \in {<<>>, e}
<1>1. goodNs => ns = <<e[1], FALSE>>
  BY Zenon
<1>2. ~goodNs => ns = <<"", TRUE>>
  <2>1. CASE r.nsConflict
    BY <2>1, Zenon
  <2>2. CASE ~r.nsConflict /\ ~goodNs
    BY <2>2, Zenon
  <2>. QED
    BY <2>1, <2>2
<1>3. goodTbl => tb = <<e[2], e, FALSE>>
  BY Zenon
<1>4. ~goodTbl => tb = <<"", r.key, TRUE>>
  <2>1. CASE r.tblConflict \/ e[2] = ""
    BY <2>1, Zenon
  <2>2. CASE ~(r.tblConflict \/ e[2] = "") /\ ~goodTbl
    BY <2>2, Zenon
  <2>. QED
    BY <2>1, <2>2
<1>5. Cql!BatchStep(r, e) = [ns |-> ns[1], nsConflict |-> ns[2], tbl |-> tb[1], key |-> tb[2], tblConflict |-> tb[3]]
  BY Zenon DEF Cql!BatchStep
<1>. HIDE DEF ns, tb
<1>. HIDE DEF goodNs, goodTbl
<1>7. ASSUME goodNs PROVE ns[1] = e[1] /\ ns[2] = FALSE
  <2>1. ns = <<e[1], FALSE>>
    BY <1>1, <1>7, Zenon
  <2>. QED
    BY <2>1, Parts, Zenon
<1>8. ASSUME ~goodNs PROVE ns[1] = "" /\ ns[2] = TRUE
  <2>1. ns = <<"", TRUE>>
    BY <1>2, <1>8, Zenon
  <2>. QED
    BY <2>1, Parts, Zenon
<1>9. ASSUME goodTbl PROVE tb[1] = e[2] /\ tb[2] = e /\ tb[3] = FALSE
  <2>1. tb = <<e[2], e, FALSE>>
    BY <1>3, <1>9, Zenon
  <2>. QED
    BY <2>1, Parts, Zenon
<1>10. ASSUME ~goodTbl PROVE tb[1] = "" /\ tb[3] = TRUE
  <2>1. tb = <<"", r.key, TRUE>>
    BY <1>4, <1>10, Zenon
  <2>. QED
    BY <2>1, Parts, Zenon
<1>12. q.ns = ns[1] /\ q.tbl = tb[1] /\ q.key = tb[2] /\ q.nsConflict = ns[2] /\ q.tblConflict = tb[3]
  BY <1>5
<1>13. ns[2] \in BOOLEAN /\ tb[3] \in BOOLEAN
  BY <1>7, <1>8, <1>9, <1>10, Zenon
<1>14. /\ q.nsConflict \in BOOLEAN /\ q.tblConflict \in BOOLEAN
       /\ goodNs => q.ns = e[1] /\ ~q.nsConflict
       /\ ~goodNs => q.ns = "" /\ q.nsConflict
       /\ goodTbl => q.tbl = e[2] /\ q.key = e /\ ~q.tblConflict
       /\ ~goodTbl => q.tbl = "" /\ q.tblConflict
  BY <1>7, <1>8, <1>9, <1>10, <1>12, <1>13, Zenon
<1>. QED
  BY <1>14, Zenon DEF StepEffect, goodNs, goodTbl, SameNs, SameTable

\* A keyspace and a table.
KsNames == {"", "a", "b", "t", "u"}
TableNames == {"", "t", "u"}
Pairs == KsNames \X TableNames

\* What the pass has after n statements is what those share.
PassKeeps(r, es, n) ==
  /\ n = 0 => r = FirstPass
  /\ r.nsConflict \in BOOLEAN /\ r.tblConflict \in BOOLEAN
  /\ n > 0 =>
       /\ ~r.nsConflict => r.ns # "" /\ \A j \in 1..n : es[j][1] = r.ns
       /\ r.nsConflict => r.ns = "" /\ ~\E k : k # "" /\ \A j \in 1..n : es[j][1] = k
       /\ ~r.tblConflict => r.key \in Pairs /\ r.tbl # "" /\ r.key[2] = r.tbl /\ \A j \in 1..n : es[j] = r.key
       /\ r.tblConflict => r.tbl = "" /\ ~\E e : e[2] # "" /\ \A j \in 1..n : es[j] = e

\* One statement more.
LEMMA PassStep ==
  ASSUME NEW r, NEW es, NEW n \in Nat, es[n + 1] \in Pairs, PassKeeps(r, es, n)
  PROVE  PassKeeps(Cql!BatchStep(r, es[n + 1]), es, n + 1)
<1>1. PICK e \in Pairs : e = es[n + 1]
  OBVIOUS
<1>2. PICK k, t : k = e[1] /\ t = e[2] /\ e = <<k, t>>
  BY DEF Pairs
<1>3. PICK q : q = Cql!BatchStep(r, e)
  OBVIOUS
<1>4. r.nsConflict \in BOOLEAN /\ r.tblConflict \in BOOLEAN
  BY DEF PassKeeps
<1>. DEFINE goodNs == SameNs(r, k)
           goodTbl == SameTable(r, e, t)
<1>5. /\ q.nsConflict \in BOOLEAN /\ q.tblConflict \in BOOLEAN
      /\ goodNs => q.ns = k /\ ~q.nsConflict
      /\ ~goodNs => q.ns = "" /\ q.nsConflict
      /\ goodTbl => q.tbl = t /\ q.key = e /\ ~q.tblConflict
      /\ ~goodTbl => q.tbl = "" /\ q.tblConflict
  <2>1. /\ q.nsConflict \in BOOLEAN /\ q.tblConflict \in BOOLEAN
        /\ SameNs(r, e[1]) => q.ns = e[1] /\ ~q.nsConflict
        /\ ~SameNs(r, e[1]) => q.ns = "" /\ q.nsConflict
        /\ SameTable(r, e, e[2]) => q.tbl = e[2] /\ q.key = e /\ ~q.tblConflict
        /\ ~SameTable(r, e, e[2]) => q.tbl = "" /\ q.tblConflict
    <3>1. StepEffect(r, e, q)
      BY <1>3, <1>4, StepOf
    <3>. QED
      BY <3>1, Zenon DEF StepEffect
  <2>2. e[1] = k /\ e[2] = t
    BY <1>2, Zenon
  <2>. QED
    BY <2>1, <2>2, Zenon
<1>. USE DEF SameNs, SameTable
<1>6. /\ \A j \in 1..(n + 1) : j \in 1..n \/ j = n + 1
      /\ \A j \in 1..n : j \in 1..(n + 1)
      /\ n + 1 \in 1..(n + 1) /\ (n = 0 => 1..n = {}) /\ (n > 0 => 1 \in 1..n)
  OBVIOUS
<1>60. n = 0 => r.ns = "" /\ ~r.nsConflict /\ r.key = <<>> /\ ~r.tblConflict
  <2>1. /\ FirstPass.ns = "" /\ FirstPass.nsConflict = FALSE
        /\ FirstPass.key = <<>> /\ FirstPass.tblConflict = FALSE
    BY DEF FirstPass
  <2>2. n = 0 => r = FirstPass
    BY DEF PassKeeps
  <2>. QED
    BY <2>1, <2>2, Zenon
<1>61. n = 0 \/ n > 0
  OBVIOUS
<1>7. e # <<>>
  BY <1>2
<1>8. goodNs => \A j \in 1..(n + 1) : es[j][1] = k
  <2>1. ASSUME goodNs, NEW j \in 1..n PROVE es[j][1] = k
    <3>1. n > 0
      OBVIOUS
    <3>2. r.ns # "" /\ es[j][1] = r.ns
      BY <2>1, <3>1 DEF PassKeeps
    <3>. QED
      BY <2>1, <3>2
  <2>. QED
    BY <1>1, <1>2, <1>6, <2>1
<1>9. ~goodNs => ~\E x : x # "" /\ \A j \in 1..(n + 1) : es[j][1] = x
  <2>. SUFFICES ASSUME ~goodNs, NEW x, x # "", \A j \in 1..(n + 1) : es[j][1] = x PROVE FALSE
    OBVIOUS
  <2>1. k = x /\ \A j \in 1..n : es[j][1] = x
    BY <1>1, <1>2, <1>6
  <2>2. CASE n = 0
    BY <1>60, <2>1, <2>2
  <2>3. CASE n > 0
    BY <1>6, <2>1, <2>3 DEF PassKeeps
  <2>. QED
    BY <1>61, <2>2, <2>3
<1>10. goodTbl => \A j \in 1..(n + 1) : es[j] = e
  <2>1. ASSUME goodTbl, NEW j \in 1..n PROVE es[j] = e
    <3>1. n > 0
      OBVIOUS
    <3>2. r.key \in Pairs /\ es[j] = r.key
      BY <2>1, <3>1 DEF PassKeeps
    <3>3. r.key # <<>>
      <4>1. PICK a, b : r.key = <<a, b>>
        BY <3>2 DEF Pairs
      <4>. QED
        BY <4>1
    <3>. QED
      BY <2>1, <3>2, <3>3
  <2>. QED
    BY <1>1, <1>6, <2>1
<1>11. ~goodTbl => ~\E x : x[2] # "" /\ \A j \in 1..(n + 1) : es[j] = x
  <2>. SUFFICES ASSUME ~goodTbl, NEW x, x[2] # "", \A j \in 1..(n + 1) : es[j] = x PROVE FALSE
    OBVIOUS
  <2>1. e = x /\ t # "" /\ \A j \in 1..n : es[j] = x
    BY <1>1, <1>2, <1>6
  <2>2. CASE n = 0
    BY <1>60, <2>1, <2>2
  <2>3. CASE n > 0
    BY <1>6, <2>1, <2>3 DEF PassKeeps
  <2>. QED
    BY <1>61, <2>2, <2>3
<1>. HIDE DEF goodNs, goodTbl, SameNs, SameTable
<1>12. PassKeeps(q, es, n + 1)
  <2>1. n + 1 # 0 /\ e \in Pairs /\ e[2] = t
    BY <1>2
  <2>2. /\ ~q.nsConflict => q.ns # "" /\ \A j \in 1..(n + 1) : es[j][1] = q.ns
        /\ q.nsConflict => q.ns = "" /\ ~\E x : x # "" /\ \A j \in 1..(n + 1) : es[j][1] = x
    BY <1>5, <1>8, <1>9 DEF goodNs, SameNs
  <2>3. ~q.tblConflict => q.key \in Pairs /\ q.tbl # "" /\ q.key[2] = q.tbl /\ \A j \in 1..(n + 1) : es[j] = q.key
    BY <1>5, <1>10, <2>1 DEF goodTbl, SameTable
  <2>4. q.tblConflict => q.tbl = "" /\ ~\E x : x[2] # "" /\ \A j \in 1..(n + 1) : es[j] = x
    BY <1>5, <1>11
  <2>. QED
    BY <1>5, <2>1, <2>2, <2>3, <2>4 DEF PassKeeps
<1>. QED
  BY <1>1, <1>3, <1>12

\* So it is at the end.
LEMMA PassEnds ==
  ASSUME NEW g, NEW es, NEW n \in Nat, IsPass(g, es, n), \A i \in 1..n : es[i] \in Pairs
  PROVE  PassKeeps(g[n], es, n)
<1>1. \A i \in 0..n : g[i] = IF i = 0 THEN FirstPass ELSE Cql!BatchStep(g[i - 1], es[i])
  BY DEF IsPass
<1>. DEFINE bad == {m \in 0..n : ~PassKeeps(g[m], es, m)}
<1>2. SUFFICES ASSUME bad # {} PROVE FALSE
  <2>1. n \in 0..n
    OBVIOUS
  <2>. QED
    BY <1>2, <2>1, Zenon
<1>3. PICK m \in bad : \A k \in bad : m <= k
  <2>1. bad \in SUBSET Nat
    OBVIOUS
  <2>. QED
    BY <1>2, <2>1, LeastNumber
<1>4. m \in 0..n /\ ~PassKeeps(g[m], es, m)
  OBVIOUS
<1>. HIDE DEF bad
<1>5. m # 0
  <2>1. PassKeeps(FirstPass, es, 0)
    BY DEF PassKeeps, FirstPass
  <2>2. g[0] = FirstPass
    BY <1>1
  <2>. QED
    BY <1>4, <2>1, <2>2
<1>6. m - 1 \in Nat /\ m - 1 \in 0..n /\ m \in 1..n
  BY <1>4, <1>5
<1>7. PassKeeps(g[m - 1], es, m - 1)
  <2>1. m - 1 \notin bad
    BY <1>3, <1>4
  <2>. QED
    BY <1>6, <2>1 DEF bad
<1>8. PICK p \in Nat : p = m - 1 /\ m = p + 1
  BY <1>6
<1>9. PassKeeps(Cql!BatchStep(g[p], es[p + 1]), es, p + 1)
  BY <1>6, <1>7, <1>8, PassStep
<1>10. g[m] = Cql!BatchStep(g[p], es[p + 1])
  BY <1>1, <1>4, <1>5, <1>8
<1>. QED
  BY <1>4, <1>8, <1>9, <1>10

\* batchTargets returns what the pass has at its end.
LEMMA TargetsOf ==
  ASSUME NEW es, NEW n \in Nat, Len(es) = n
  PROVE  \E g : /\ IsPass(g, es, n)
                /\ Cql!BatchTargets(es) =
                     <<IF g[n].ns = "" /\ ~g[n].nsConflict THEN session ELSE g[n].ns, g[n].tbl>>
<1>. DEFINE f == CHOOSE g : g = [i \in 0..Len(es) |->
                   IF i = 0 THEN [ns |-> "", nsConflict |-> FALSE, tbl |-> "", key |-> <<>>, tblConflict |-> FALSE]
                   ELSE Cql!BatchStep(g[i - 1], es[i])]
<1>1. PICK h : IsPass(h, es, n)
  BY PassExists
<1>2. h = [i \in 0..Len(es) |->
             IF i = 0 THEN [ns |-> "", nsConflict |-> FALSE, tbl |-> "", key |-> <<>>, tblConflict |-> FALSE]
             ELSE Cql!BatchStep(h[i - 1], es[i])]
  BY <1>1, Zenon DEF IsPass, FirstPass
<1>3. f = [i \in 0..Len(es) |->
             IF i = 0 THEN [ns |-> "", nsConflict |-> FALSE, tbl |-> "", key |-> <<>>, tblConflict |-> FALSE]
             ELSE Cql!BatchStep(f[i - 1], es[i])]
  BY <1>2, Zenon
<1>4. Cql!BatchTargets(es) =
        <<IF f[Len(es)].ns = "" /\ ~f[Len(es)].nsConflict THEN session ELSE f[Len(es)].ns, f[Len(es)].tbl>>
  BY DEF Cql!BatchTargets
<1>. HIDE DEF f
<1>5. IsPass(f, es, n)
  BY <1>3, Zenon DEF IsPass, FirstPass
<1>. QED
  BY <1>4, <1>5, Zenon

\* The span's target t is true of the statements in list, in a session of keyspace ks.
Truthful(list, ks, t) ==
  list # <<>> =>
    LET truth == {AddressedIn(list[i], ks) : i \in DOMAIN list}
    IN  /\ t[3] # "" => truth = {<<t[2], t[3]>>}
        /\ (\A i \in DOMAIN list : Cql!TableReadable(list[i])) /\ (\E x \in truth : truth = {x}) =>
             <<t[2], t[3]>> \in truth
        /\ (\A i \in DOMAIN list : Cql!KeyspaceReadable(list[i])) =>
             /\ t[2] # "" => \A x \in truth : x[1] = t[2]
             /\ \A x \in truth : (\A y \in truth : y[1] = x[1]) => t[2] = x[1]

\* A target has three parts.
LEMMA ThreeParts ==
  ASSUME NEW o, NEW k, NEW t, NEW x, x = <<o>> \o <<k, t>> PROVE x = <<o, k, t>>
<1>1. x \in Seq({o, k, t}) /\ Len(x) = 3 /\ x[1] = o /\ x[2] = k /\ x[3] = t
  OBVIOUS
<1>2. <<o, k, t>> \in Seq({o, k, t}) /\ Len(<<o, k, t>>) = 3
  OBVIOUS
<1>3. \A i \in 1..3 : x[i] = <<o, k, t>>[i]
  BY <1>1
<1>4. PICK y : y = <<o, k, t>>
  OBVIOUS
<1>5. y \in Seq({o, k, t}) /\ Len(x) = Len(y) /\ \A i \in 1..Len(x) : x[i] = y[i]
  BY <1>1, <1>2, <1>3, <1>4
<1>. QED
  BY <1>1, <1>4, <1>5, SeqEqual

\* A function on 1..n is a sequence of length n.
LEMMA FunctionLen ==
  ASSUME NEW S, NEW n \in Nat, NEW f \in [1..n -> S] PROVE f \in Seq(S) /\ Len(f) = n
  OBVIOUS

\* A sequence of one, and the numbers from 1.
LEMMA Singles ==
  /\ \A s : <<s>>[1] = s /\ DOMAIN <<s>> = {1}
  /\ \A n \in Nat \ {0} : n > 0 /\ 1 \in 1..n /\ n \in Nat
  /\ \A n \in 0..MaxStmts : n \in Nat
<1>1. ASSUME NEW s PROVE <<s>>[1] = s /\ DOMAIN <<s>> = {1}
  OBVIOUS
<1>2. ASSUME NEW n \in Nat \ {0} PROVE n > 0 /\ 1 \in 1..n /\ n \in Nat
  OBVIOUS
<1>3. ASSUME NEW n \in 0..MaxStmts PROVE n \in Nat
  BY StmtsAssumption
<1>. QED
  BY <1>1, <1>2, <1>3

\* A pair is its two parts.
LEMMA PairOf == ASSUME NEW e \in Pairs PROVE e = <<e[1], e[2]>>
  BY DEF Pairs

\* A query's target is true.
LEMMA QueryTruthful ==
  ASSUME kind # "batch", NEW s \in Cql!Statements, stmts = <<s>>, session \in {"", "a"}
  PROVE  Truthful(stmts, session, Cql!Target)
<1>1. PICK a : a = AddressedIn(s, session)
  OBVIOUS
<1>2. Reads(Cql!Effective(s), a, Cql!TableReadable(s), Cql!KeyspaceReadable(s))
  BY <1>1, EffectiveHonest
<1>3. PICK k \in {"", "a", "b", "t", "u"}, t \in {"", "t", "u"} :
        /\ Cql!Effective(s) = <<k, t>>
        /\ t # "" => <<k, t>> = a /\ k \in {"", "a", "b"}
        /\ Cql!TableReadable(s) => <<k, t>> = a
        /\ Cql!KeyspaceReadable(s) => k = a[1]
  BY <1>2 DEF Reads
<1>4. stmts[1] = s /\ DOMAIN stmts = {1}
  BY Singles, Zenon
<1>5. PICK o : o = s.shape[1]
  OBVIOUS
<1>6. PICK x : x = Cql!Target /\ x = <<o>> \o <<k, t>>
  BY <1>3, <1>4, <1>5 DEF Cql!Target
<1>7. x[2] = k /\ x[3] = t
  <2>1. x = <<o, k, t>>
    BY <1>6, ThreeParts
  <2>. QED
    BY <2>1, Parts, Zenon
<1>8. {AddressedIn(stmts[i], session) : i \in DOMAIN stmts} = {a}
  BY <1>1, <1>4
<1>9. Truthful(stmts, session, x)
  BY <1>3, <1>4, <1>7, <1>8 DEF Truthful
<1>. QED
  BY <1>6, <1>9

\* A batch's target is true.
LEMMA BatchTruthful ==
  ASSUME kind = "batch", NEW n \in Nat \ {0}, stmts \in [1..n -> Cql!BatchStatements], session \in {"", "a"}
  PROVE  Truthful(stmts, session, Cql!Target)
<1>1. PICK es : es = [i \in DOMAIN stmts |-> Cql!Effective(stmts[i])]
  OBVIOUS
<1>2. PICK as : as = [i \in 1..n |-> AddressedIn(stmts[i], session)]
  OBVIOUS
<1>3. DOMAIN stmts = 1..n /\ DOMAIN es = 1..n /\ n \in Nat
  BY <1>1
<1>4. Len(es) = n
  <2>1. PICK S : es \in [1..n -> S]
    <3>1. es \in [1..n -> {es[i] : i \in 1..n}]
      BY <1>1, <1>3
    <3>. QED
      BY <3>1
  <2>. QED
    BY <1>3, <2>1, FunctionLen, Zenon
<1>5. ASSUME NEW i \in 1..n
      PROVE  /\ Reads(es[i], as[i], Cql!TableReadable(stmts[i]), Cql!KeyspaceReadable(stmts[i]))
             /\ as[i][2] # ""
  <2>1. stmts[i] \in Cql!Statements /\ stmts[i].shape[1] = "UPDATE"
    BY DEF Cql!BatchStatements
  <2>2. es[i] = Cql!Effective(stmts[i]) /\ as[i] = AddressedIn(stmts[i], session)
    BY <1>1, <1>2, <1>3
  <2>. QED
    BY <2>1, <2>2, EffectiveHonest
<1>6. ASSUME NEW i \in 1..n
      PROVE  /\ es[i] \in Pairs
             /\ es[i][2] # "" => es[i] = as[i] /\ es[i][1] \in {"", "a", "b"}
             /\ Cql!TableReadable(stmts[i]) => es[i] = as[i]
             /\ Cql!KeyspaceReadable(stmts[i]) => es[i][1] = as[i][1]
  <2>1. PICK k \in {"", "a", "b", "t", "u"}, t \in {"", "t", "u"} :
          /\ es[i] = <<k, t>>
          /\ t # "" => es[i] = as[i] /\ k \in {"", "a", "b"}
          /\ Cql!TableReadable(stmts[i]) => es[i] = as[i]
          /\ Cql!KeyspaceReadable(stmts[i]) => k = as[i][1]
    BY <1>5 DEF Reads
  <2>2. es[i][1] = k /\ es[i][2] = t
    BY <2>1, Parts, Zenon
  <2>. QED
    BY <2>1, <2>2 DEF Pairs, KsNames, TableNames
<1>7. PICK g : /\ IsPass(g, es, n)
               /\ Cql!BatchTargets(es) =
                    <<IF g[n].ns = "" /\ ~g[n].nsConflict THEN session ELSE g[n].ns, g[n].tbl>>
  BY <1>3, <1>4, TargetsOf
<1>8. PICK r : r = g[n]
  OBVIOUS
<1>9. PassKeeps(r, es, n)
  BY <1>3, <1>6, <1>7, <1>8, PassEnds
<1>10. /\ n > 0 /\ 1 \in 1..n /\ r.nsConflict \in BOOLEAN /\ r.tblConflict \in BOOLEAN
       /\ ~r.nsConflict => r.ns # "" /\ \A j \in 1..n : es[j][1] = r.ns
       /\ r.nsConflict => r.ns = "" /\ ~\E k : k # "" /\ \A j \in 1..n : es[j][1] = k
       /\ ~r.tblConflict => r.key \in Pairs /\ r.tbl # "" /\ r.key[2] = r.tbl /\ \A j \in 1..n : es[j] = r.key
       /\ r.tblConflict => r.tbl = "" /\ ~\E e : e[2] # "" /\ \A j \in 1..n : es[j] = e
  <2>2. n > 0 /\ 1 \in 1..n
    BY Singles, Zenon
  <2>. QED
    BY <1>9, <2>2, Zenon DEF PassKeeps
<1>11. Cql!BatchTargets(es) = <<r.ns, r.tbl>>
  BY <1>7, <1>8, <1>10, Zenon
<1>12. PICK x : x = Cql!Target /\ x = <<"BATCH">> \o <<r.ns, r.tbl>>
  BY <1>1, <1>11 DEF Cql!Target
<1>13. x[2] = r.ns /\ x[3] = r.tbl
  <2>1. PICK o, k, t : o = "BATCH" /\ k = r.ns /\ t = r.tbl
    OBVIOUS
  <2>2. x = <<o>> \o <<k, t>>
    BY <1>12, <2>1
  <2>3. x = <<o, k, t>>
    BY <2>2, ThreeParts
  <2>. QED
    BY <2>1, <2>3, Parts, Zenon
<1>14. PICK truth : truth = {AddressedIn(stmts[i], session) : i \in DOMAIN stmts} /\ truth = {as[i] : i \in 1..n}
  BY <1>2, <1>3
<1>15. ASSUME r.tbl # "" PROVE r.ns \in {"", "a", "b"} /\ truth = {<<r.ns, r.tbl>>}
  <2>1. r.key \in Pairs /\ r.key[2] = r.tbl /\ \A j \in 1..n : es[j] = r.key
    BY <1>10, <1>15, Zenon
  <2>2. PICK k, t : r.key = <<k, t>> /\ r.key[1] = k /\ r.key[2] = t
    BY <2>1, PairOf
  <2>3. \A j \in 1..n : es[j] = as[j] /\ es[j][1] = k /\ as[j] = <<k, t>>
    BY <1>6, <1>15, <2>1, <2>2
  <2>4. k \in {"", "a", "b"}
    BY <1>6, <1>10, <1>15, <2>1, <2>2
  <2>5. r.ns = k
    <3>1. CASE r.nsConflict
      BY <1>10, <2>3, <3>1, Zenon
    <3>2. CASE ~r.nsConflict
      BY <1>10, <2>3, <3>2, Zenon
    <3>. QED
      BY <3>1, <3>2
  <2>6. truth = {<<k, t>>}
    BY <1>10, <1>14, <2>3, ZenonT(60)
  <2>. QED
    BY <2>1, <2>2, <2>4, <2>5, <2>6
<1>16. ASSUME \A i \in 1..n : Cql!TableReadable(stmts[i]), NEW a, truth = {a}
       PROVE  r.tbl # ""
  <2>1. \A i \in 1..n : es[i] = a /\ a[2] # ""
    <3>. TAKE i \in 1..n
    <3>1. es[i] = as[i] /\ as[i][2] # ""
      BY <1>5, <1>6, <1>16
    <3>2. as[i] \in truth
      BY <1>14
    <3>3. as[i] = a
      BY <1>16, <3>2
    <3>. QED
      BY <3>1, <3>3
  <2>2. ~r.tblConflict
    BY <1>10, <2>1, Zenon
  <2>. QED
    BY <1>10, <2>2, Zenon
<1>17. ASSUME \A i \in 1..n : Cql!KeyspaceReadable(stmts[i])
       PROVE  /\ r.ns # "" => \A y \in truth : y[1] = r.ns
              /\ \A y \in truth : (\A z \in truth : z[1] = y[1]) => r.ns = y[1]
  <2>1. \A i \in 1..n : es[i][1] = as[i][1] /\ as[i] \in truth
    BY <1>6, <1>14, <1>17
  <2>2. \A y \in truth : \E i \in 1..n : y = as[i]
    BY <1>14
  <2>3. r.ns # "" => \A y \in truth : y[1] = r.ns
    BY <1>10, <2>1, <2>2, Zenon
  <2>4. ASSUME NEW y \in truth, \A z \in truth : z[1] = y[1] PROVE r.ns = y[1]
    <3>1. ASSUME NEW i \in 1..n PROVE es[i][1] = y[1]
      <4>1. as[i] \in truth /\ es[i][1] = as[i][1]
        BY <2>1
      <4>. QED
        BY <2>4, <4>1
    <3>2. CASE r.nsConflict
      BY <1>10, <3>1, <3>2, Zenon
    <3>3. CASE ~r.nsConflict
      BY <1>10, <3>1, <3>3, Zenon
    <3>. QED
      BY <3>2, <3>3
  <2>. QED
    BY <2>3, <2>4
<1>18. PICK ns, tbl : ns = r.ns /\ tbl = r.tbl /\ x[2] = ns /\ x[3] = tbl
  BY <1>13
<1>19. Truthful(stmts, session, x)
  BY <1>3, <1>14, <1>15, <1>16, <1>17, <1>18, Zenon DEF Truthful
<1>. QED
  BY <1>12, <1>19

-----------------------------------------------------------------------------

Asked ==
  \/ kind = "query" /\ \E s \in Cql!Statements : stmts = <<s>>
  \/ kind = "batch" /\ \E n \in Nat : stmts \in [1..n -> Cql!BatchStatements]

CqlInv ==
  /\ session \in {"", "a"}
  /\ cqlPc \in {"idle", "running", "recorded"}
  /\ cqlAttrs \cap Cql!ReservedAttrKeys = {}
  /\ cqlPc # "idle" => Asked
  /\ cqlPc = "recorded" => Truthful(stmts, session, cqlSpan.target)
  /\ Cql!OwnedKeysHonest

\* A target is true whatever was asked.
LEMMA TargetTruthful == CqlInv /\ cqlPc = "running" => Truthful(stmts, session, Cql!Target)
<1>. SUFFICES ASSUME CqlInv, cqlPc = "running" PROVE Truthful(stmts, session, Cql!Target)
  OBVIOUS
<1>1. CASE kind = "query" /\ \E s \in Cql!Statements : stmts = <<s>>
  <2>1. PICK s \in Cql!Statements : stmts = <<s>>
    BY <1>1
  <2>2. kind # "batch" /\ session \in {"", "a"}
    BY <1>1 DEF CqlInv
  <2>. QED
    BY <2>1, <2>2, QueryTruthful
<1>2. CASE kind = "batch" /\ \E n \in Nat : stmts \in [1..n -> Cql!BatchStatements]
  <2>1. PICK n \in Nat : stmts \in [1..n -> Cql!BatchStatements]
    BY <1>2
  <2>2. CASE n = 0
    <3>1. stmts = <<>>
      BY <2>1, <2>2
    <3>. QED
      BY <3>1, Zenon DEF Truthful
  <2>3. CASE n # 0
    <3>1. n \in Nat \ {0} /\ kind = "batch" /\ session \in {"", "a"}
      BY <1>2, <2>3 DEF CqlInv
    <3>. QED
      BY <2>1, <3>1, BatchTruthful
  <2>. QED
    BY <2>2, <2>3
<1>. QED
  BY <1>1, <1>2 DEF CqlInv, Asked

\* Initially nothing is asked and nothing recorded.
LEMMA CqlInit == Cql!Init => CqlInv
<1>. SUFFICES ASSUME Cql!Init PROVE CqlInv
  OBVIOUS
<1>1. cqlPc = "idle" /\ session = ""
  BY DEF Cql!Init
<1>2. cqlAttrs \cap Cql!ReservedAttrKeys = {}
  BY DEF Cql!Init, Cql!FilterReservedAttrs
<1>. QED
  BY <1>1, <1>2 DEF CqlInv, Cql!OwnedKeysHonest

\* What record leaves on the span and on the sample.
LEMMA CqlRecord ==
  ASSUME CqlInv, cqlPc = "running", NEW err, Cql!Record(err),
         UNCHANGED <<cqlCfg, cqlAttrs, stmts, session, kind>>
  PROVE  CqlInv'
<1>1. PICK t : t = Cql!Target
  OBVIOUS
<1>2. Truthful(stmts, session, t)
  BY <1>1, TargetTruthful
<1>3. PICK key : key = IF err = {} THEN {} ELSE {"error.type"}
  OBVIOUS
<1>4. PICK fail : /\ cqlPc' = "recorded" /\ cqlOutcome' = err
                  /\ cqlSpan' = [target |-> t, keys |-> cqlAttrs \cup Cql!SpanAttrs(t) \cup key, error |-> fail]
                  /\ cqlSample' = [target |-> t, keys |-> Cql!MetricAttrs(t) \cup key, error |-> fail]
  BY <1>1, <1>3, Zenon DEF Cql!Record
<1>5. cqlSpan'.target = t /\ cqlSpan'.keys = cqlAttrs \cup Cql!SpanAttrs(t) \cup key
        /\ cqlSample'.keys = Cql!MetricAttrs(t) \cup key
  BY <1>4
<1>6. "error.type" \notin cqlAttrs /\ "db.query.text" \notin cqlAttrs
  BY DEF CqlInv, Cql!ReservedAttrKeys
<1>7. "error.type" \notin Cql!TargetKeys(t) /\ "db.query.text" \notin Cql!TargetKeys(t)
  BY DEF Cql!TargetKeys
<1>8. "error.type" \notin Cql!ServerKeys(host) /\ "db.query.text" \notin Cql!ServerKeys(host)
  BY DEF Cql!ServerKeys
<1>9. "error.type" \notin Cql!SpanAttrs(t) /\ ("db.query.text" \in Cql!SpanAttrs(t) => cqlCfg.queryTextEnabled)
  BY <1>7, <1>8 DEF Cql!SpanAttrs
<1>10. "error.type" \notin Cql!MetricAttrs(t)
  BY <1>7, <1>8 DEF Cql!MetricAttrs
<1>11. ("error.type" \in key <=> err # {}) /\ "db.query.text" \notin key
  BY <1>3
<1>12. Cql!OwnedKeysHonest'
  BY <1>4, <1>5, <1>6, <1>9, <1>10, <1>11 DEF Cql!OwnedKeysHonest
<1>13. Truthful(stmts, session, cqlSpan.target)'
  <2>1. stmts' = stmts /\ session' = session /\ cqlSpan'.target = t
    BY <1>5
  <2>. QED
    BY <1>2, <2>1, Zenon
<1>14. Asked'
  BY DEF CqlInv, Asked
<1>. QED
  BY <1>4, <1>12, <1>13, <1>14 DEF CqlInv

\* Every step keeps CqlInv.
LEMMA CqlNext == CqlInv /\ [Cql!Next]_Cql!vars => CqlInv'
<1>. SUFFICES ASSUME CqlInv, [Cql!Next]_Cql!vars PROVE CqlInv'
  OBVIOUS
<1>1. CASE Cql!Begin
  <2>1. PICK ks \in {"", "a"} :
          \/ \E s \in Cql!Statements : Cql!Run("query", <<s>>, ks)
          \/ \E n \in 0..MaxStmts : \E b \in [1..n -> Cql!BatchStatements] : Cql!Run("batch", b, ks)
    BY <1>1 DEF Cql!Begin
  <2>2. Asked' /\ session' \in {"", "a"} /\ cqlPc' = "running" /\ UNCHANGED cqlAttrs
    <3>1. CASE \E s \in Cql!Statements : Cql!Run("query", <<s>>, ks)
      BY <3>1 DEF Cql!Run, Asked
    <3>2. CASE \E n \in 0..MaxStmts : \E b \in [1..n -> Cql!BatchStatements] : Cql!Run("batch", b, ks)
      <4>1. PICK n \in 0..MaxStmts : \E b \in [1..n -> Cql!BatchStatements] : Cql!Run("batch", b, ks)
        BY <3>2
      <4>2. n \in Nat
        BY Singles, Zenon
      <4>. QED
        BY <4>1, <4>2 DEF Cql!Run, Asked
    <3>. QED
      BY <2>1, <3>1, <3>2
  <2>. QED
    BY <2>2 DEF CqlInv, Cql!OwnedKeysHonest
<1>2. CASE Cql!Reached
  BY <1>2 DEF Cql!Reached, CqlInv, Asked, Cql!OwnedKeysHonest
<1>3. ASSUME NEW err, Cql!ObserveQuery(err) \/ Cql!BatchReturns(err) PROVE CqlInv'
  <2>1. cqlPc = "running" /\ Cql!Record(err) /\ UNCHANGED <<cqlCfg, cqlAttrs, stmts, session, kind>>
    BY <1>3 DEF Cql!ObserveQuery, Cql!BatchReturns
  <2>. QED
    BY <2>1, CqlRecord
<1>4. CASE UNCHANGED Cql!vars
  <2>1. UNCHANGED <<cqlCfg, cqlAttrs, cqlPc, kind, stmts, session, cqlOutcome, cqlSpan, cqlSample>>
    BY <1>4 DEF Cql!vars
  <2>2. cqlPc = "recorded" => Truthful(stmts, session, cqlSpan.target)'
    BY <2>1, Zenon DEF CqlInv
  <2>3. Cql!OwnedKeysHonest'
    BY <2>1 DEF CqlInv, Cql!OwnedKeysHonest
  <2>4. cqlPc # "idle" => Asked'
    BY <2>1 DEF CqlInv, Asked
  <2>. QED
    BY <2>1, <2>2, <2>3, <2>4 DEF CqlInv
<1>. QED
  BY <1>1, <1>2, <1>3, <1>4 DEF Cql!Next

\* CqlInv is what the property asks.
LEMMA CqlHonest == CqlInv => NothingMislabelled
<1>. SUFFICES ASSUME CqlInv, cqlPc = "recorded", stmts # <<>> PROVE Cql!NeverMislabels
  BY DEF CqlInv, NothingMislabelled, Cql!NeverMislabels
<1>1. \A i \in DOMAIN stmts : stmts[i] \in Cql!Statements
  <2>1. CASE kind = "query" /\ \E s \in Cql!Statements : stmts = <<s>>
    BY <2>1
  <2>2. CASE kind = "batch" /\ \E n \in Nat : stmts \in [1..n -> Cql!BatchStatements]
    BY <2>2 DEF Cql!BatchStatements
  <2>. QED
    BY <2>1, <2>2 DEF CqlInv, Asked
<1>2. \A i \in DOMAIN stmts : Cql!Addressed(stmts[i]) = AddressedIn(stmts[i], session)
  BY <1>1, AddressedSame
<1>3. {Cql!Addressed(stmts[i]) : i \in DOMAIN stmts} = {AddressedIn(stmts[i], session) : i \in DOMAIN stmts}
  BY <1>2
<1>4. Truthful(stmts, session, cqlSpan.target)
  BY DEF CqlInv
<1>. QED
  BY <1>3, <1>4, Zenon DEF Truthful, Cql!NeverMislabels

(***************************************************************************)
(* Cassandra: a table on a span is the one every statement addresses, and  *)
(* so is a keyspace where the parser can read which keyspaces they are in, *)
(* batches of any length included; the caller's attributes never speak for *)
(* the package.                                                            *)
(***************************************************************************)
THEOREM MislabelTheorem == Cql!Spec => []NothingMislabelled
<1>. QED
  BY CqlInit, CqlNext, CqlHonest, PTL DEF Cql!Spec

-----------------------------------------------------------------------------
(***************************************************************************)
(* Elasticsearch.                                                          *)
(***************************************************************************)

EsStates == {"idle", "begun", "answered", "told", "closed"}

EsType ==
  /\ esPc \in EsStates /\ last \in Nat /\ tries \in Nat
  /\ esCfg \in Es!Configs /\ sampled \in BOOLEAN /\ failed \in BOOLEAN
  /\ st \in [index : {"none", "one", "many"}, host : BOOLEAN, statusCode : Nat,
             errored : BOOLEAN, err : SUBSET EsErrors, esError : BOOLEAN]
  /\ esSpan \in [status : {"unset", "error"}, code : Nat, body : {"none", "nil", "search"}]

\* A status that was not wiped out by a failed round trip is the response's.
LastStatus ==
  /\ last # 0 => st.statusCode = last
  /\ esPc # "closed" => esSpan.code = 0

\* Nothing is an error before the transport has returned.
Untold ==
  esPc \in {"idle", "begun", "answered"} =>
    ~st.errored /\ ~st.esError /\ esSpan.status = "unset"

\* What RecordError and the response tell the instrumentation is what the caller sees.
Told ==
  esPc = "told" =>
    /\ st.errored => failed /\ ~st.esError /\ \E e \in EsErrors : st.err = {e}
    /\ st.esError => esCfg.typed
    /\ ~st.errored => last # 0 /\ (failed <=> Es!HttpFailed)
    /\ esSpan.status = "error" <=> sampled /\ (st.errored \/ st.esError)

\* What Close leaves.
Closed ==
  esPc = "closed" =>
    /\ esSample.errorType # NoType <=> failed
    /\ esSample.errorType \notin Es!FmtTypes
    /\ esSpan.status = "error" <=> failed /\ sampled
    /\ esSpan.code # 0 => esSpan.code = last
    /\ esSample.response # 0 => esSample.response = last /\ failed

EsInv == EsType /\ LastStatus /\ Untold /\ Told /\ Closed

\* The name of an error is neither empty nor that of a wrapper.
LEMMA InnerName ==
  ASSUME NEW e \in EsErrors
  PROVE  Es!InnerType(e) # NoType /\ Es!InnerType(e) \notin Es!FmtTypes
<1>. DEFINE named == {i \in 1..Len(e.types) : e.types[i] \notin Es!FmtTypes}
<1>1. Len(e.types) \in Nat /\ \A i \in 1..Len(e.types) : e.types[i] # NoType
  BY ErrorAssumption DEF StableNames
<1>2. Es!ContextType(e) # NoType =>
        Es!ContextType(e) \in {"context.DeadlineExceeded", "context.Canceled"}
  BY DEF Es!ContextType
<1>3. CASE Es!ContextType(e) # NoType
  BY <1>2, <1>3 DEF Es!InnerType, Es!FmtTypes
<1>4. CASE Es!ContextType(e) = NoType /\ named = {}
  BY <1>4, ErrorAssumption DEF Es!InnerType, Es!FmtTypes
<1>5. CASE Es!ContextType(e) = NoType /\ named # {}
  <2>1. Es!Min(named) \in named
    <3>1. named \subseteq Nat
      BY <1>1
    <3>2. \E m \in named : \A k \in named : m <= k
      BY <3>1, <1>5, LeastNumber
    <3>. HIDE DEF named
    <3>. QED
      BY <3>2 DEF Es!Min
  <2>2. Es!InnerType(e) = e.types[Es!Min(named)]
    BY <1>5 DEF Es!InnerType
  <2>. QED
    BY <2>1, <2>2, <1>1
<1>. QED
  BY <1>3, <1>4, <1>5

\* A request starts with nothing told.
LEMMA EsInit == Es!Init => EsInv
<1> SUFFICES ASSUME Es!Init PROVE EsInv
  OBVIOUS
<1>1. EsType
  BY DEF Es!Init, EsType, EsStates, Es!FreshState
<1>2. LastStatus /\ Untold /\ Told /\ Closed
  BY DEF Es!Init, LastStatus, Untold, Told, Closed, Es!FreshState
<1>. QED
  BY <1>1, <1>2 DEF EsInv

\* What RecordError does to the responseState and the span.
LEMMA RecordEffect ==
  ASSUME EsInv, NEW e \in EsErrors, esPc = "answered", Es!RecordError(e)
  PROVE  /\ esPc' = "told" /\ failed' = TRUE
         /\ UNCHANGED <<esCfg, sampled, tries, last, esSample>>
         /\ st'.statusCode = st.statusCode /\ esSpan'.code = esSpan.code
         /\ esSpan'.status = "error" <=> sampled
         /\ EsType'
         /\ IF "elasticsearch" \in e.is \/ (esCfg.typed /\ Es!TypedStatusError(e, st.statusCode))
            THEN st'.esError /\ ~st'.errored
            ELSE st'.errored /\ ~st'.esError /\ st'.err = {e}
<1>. DEFINE es == "elasticsearch" \in e.is \/ (esCfg.typed /\ Es!TypedStatusError(e, st.statusCode))
<1>1. /\ esPc' = "told" /\ failed' = TRUE
      /\ UNCHANGED <<esCfg, sampled, tries, last, esSample>>
      /\ esSpan' = IF sampled THEN [esSpan EXCEPT !.status = "error"] ELSE esSpan
      /\ st' = IF es THEN [st EXCEPT !.esError = TRUE]
               ELSE [st EXCEPT !.errored = TRUE, !.err = {e}]
  BY DEF Es!RecordError
<1>2. ~st.errored /\ ~st.esError /\ esSpan.status = "unset"
  BY DEF EsInv, Untold
<1>. HIDE DEF es
<1>3. EsType'
  BY <1>1 DEF EsInv, EsType, EsStates
<1>4. IF es THEN st'.esError /\ ~st'.errored ELSE st'.errored /\ ~st'.esError /\ st'.err = {e}
  BY <1>1, <1>2 DEF EsInv, EsType
<1>5. /\ st'.statusCode = st.statusCode /\ esSpan'.code = esSpan.code
      /\ esSpan'.status = "error" <=> sampled
  BY <1>1, <1>2 DEF EsInv, EsType
<1>. QED
  BY <1>1, <1>3, <1>4, <1>5 DEF es

\* Every callback of a request preserves the invariant.
LEMMA EsNext == EsInv /\ [Es!Next]_Es!vars => EsInv'
<1> SUFFICES ASSUME EsInv, [Es!Next]_Es!vars PROVE EsInv'
  OBVIOUS
<1>1. ASSUME NEW i \in {"none", "one", "many"}, Es!Start(i) PROVE EsInv'
  BY <1>1 DEF Es!Start, EsInv, EsType, EsStates, LastStatus, Untold, Told, Closed
<1>2. ASSUME NEW q \in {"nil", "search"}, Es!RecordRequestBody(q) PROVE EsInv'
  BY <1>2 DEF Es!RecordRequestBody, EsInv, EsType, EsStates, LastStatus, Untold, Told, Closed
<1>3. ASSUME NEW s \in Statuses, Es!AfterResponse(s) PROVE EsInv'
  BY <1>3, StatusAssumption
  DEF Es!AfterResponse, EsInv, EsType, EsStates, LastStatus, Untold, Told, Closed
<1>4. CASE Es!RoundTripFails
  BY <1>4 DEF Es!RoundTripFails, EsInv, EsType, EsStates, LastStatus, Untold, Told, Closed
<1>5. CASE Es!AfterRequest
  <2>1. /\ st' = [st EXCEPT !.host = tries > 0] /\ esPc = "begun" /\ esPc' = "answered"
        /\ UNCHANGED <<esCfg, sampled, tries, last, esSpan, esSample, failed>>
    BY <1>5 DEF Es!AfterRequest
  <2>2. (tries > 0) \in BOOLEAN
    BY DEF EsInv, EsType
  <2>3. EsType'
    BY <2>1, <2>2 DEF EsInv, EsType, EsStates
  <2>4. st'.statusCode = st.statusCode /\ st'.errored = st.errored /\ st'.esError = st.esError
    BY <2>1 DEF EsInv, EsType
  <2>. QED
    BY <2>1, <2>3, <2>4 DEF EsInv, LastStatus, Untold, Told, Closed
<1>6. ASSUME NEW e \in EsErrors, Es!TransportError(e) PROVE EsInv'
  <2>1. esPc = "answered" /\ Es!RecordError(e) /\ "elasticsearch" \notin e.is /\ "status" \notin e.is
    BY <1>6 DEF Es!TransportError
  <2>2. st'.errored /\ ~st'.esError /\ st'.err = {e}
    BY <2>1, RecordEffect DEF Es!TypedStatusError
  <2>3. /\ esPc' = "told" /\ failed' = TRUE /\ UNCHANGED <<esCfg, sampled, last>>
        /\ st'.statusCode = st.statusCode /\ esSpan'.code = esSpan.code
        /\ esSpan'.status = "error" <=> sampled
        /\ EsType'
    BY <2>1, RecordEffect
  <2>. QED
    BY <2>1, <2>2, <2>3 DEF EsInv, LastStatus, Untold, Told, Closed
<1>7. ASSUME NEW e \in EsErrors, Es!Rejected(e) PROVE EsInv'
  <2>1. /\ esPc = "answered" /\ Es!RecordError(e) /\ esCfg.typed /\ last > 299 /\ e.code = last
        /\ "elasticsearch" \in e.is \/ "status" \in e.is
    BY <1>7 DEF Es!Rejected
  <2>2. st.statusCode = last /\ last # 0
    BY <2>1 DEF EsInv, LastStatus, EsType
  <2>3. st'.esError /\ ~st'.errored
    BY <2>1, <2>2, RecordEffect DEF Es!TypedStatusError
  <2>4. /\ esPc' = "told" /\ failed' = TRUE /\ UNCHANGED <<esCfg, sampled, last>>
        /\ st'.statusCode = st.statusCode /\ esSpan'.code = esSpan.code
        /\ esSpan'.status = "error" <=> sampled
        /\ EsType'
    BY <2>1, RecordEffect
  <2>. QED
    BY <2>1, <2>2, <2>3, <2>4 DEF EsInv, LastStatus, Untold, Told, Closed, Es!HttpFailed
<1>8. CASE Es!Return
  <2>1. EsType'
    BY <1>8 DEF Es!Return, EsInv, EsType, EsStates
  <2>2. LastStatus' /\ Untold' /\ Closed'
    BY <1>8 DEF Es!Return, EsInv, EsType, LastStatus, Untold, Closed
  <2>3. Told'
    <3>1. /\ esPc = "answered" /\ esPc' = "told" /\ last # 0 /\ st.statusCode = last
          /\ UNCHANGED <<st, esCfg, sampled, last, esSpan>>
          /\ ~st.errored /\ ~st.esError /\ esSpan.status = "unset"
      BY <1>8 DEF Es!Return, EsInv, LastStatus, Untold
    <3>2. failed' <=> (~esCfg.typed /\ last > 299)
      BY <1>8, Zenon DEF Es!Return
    <3>. QED
      BY <3>1, <3>2 DEF Told, Es!HttpFailed
  <2>. QED
    BY <2>1, <2>2, <2>3 DEF EsInv
<1>9. CASE Es!Close
  <2>1. /\ esPc = "told" /\ esPc' = "closed" /\ UNCHANGED <<esCfg, sampled, st, tries, last, failed>>
        /\ esSample' = Es!MetricAttrs /\ esSpan' = Es!SpanAtClose
    BY <1>9 DEF Es!Close
  <2>2. EsType'
    BY <2>1 DEF EsInv, EsType, EsStates, Es!SpanAtClose
  <2>3. Es!MetricErrorType # NoType <=> failed
    <3>1. CASE st.errored
      <4>1. PICK e \in EsErrors : st.err = {e}
        BY <2>1, <3>1 DEF EsInv, Told
      <4>. QED
        BY <2>1, <3>1, <4>1, InnerName DEF EsInv, Told, Es!MetricErrorType
    <3>2. CASE ~st.errored
      BY <2>1, <3>2, ErrorAssumption DEF EsInv, EsType, LastStatus, Told, Es!MetricErrorType
    <3>. QED
      BY <3>1, <3>2
  <2>4. Es!MetricErrorType \notin Es!FmtTypes
    <3>1. CASE st.errored
      <4>1. PICK e \in EsErrors : st.err = {e}
        BY <2>1, <3>1 DEF EsInv, Told
      <4>. QED
        BY <2>1, <3>1, <4>1, InnerName DEF Es!MetricErrorType
    <3>2. CASE ~st.errored
      BY <3>2, ErrorAssumption DEF Es!MetricErrorType, Es!FmtTypes
    <3>. QED
      BY <3>1, <3>2
  <2>5. esSample'.errorType = Es!MetricErrorType
        /\ (esSample'.response # 0 => esSample'.response = st.statusCode /\ ~st.errored /\ Es!HttpFailed)
    BY <2>1 DEF Es!MetricAttrs
  <2>6. esSpan'.status = "error" <=> failed /\ sampled
    BY <2>1 DEF EsInv, EsType, LastStatus, Told, Es!SpanAtClose, Es!HttpFailed
  <2>7. esSpan'.code # 0 => esSpan'.code = last
    BY <2>1 DEF EsInv, EsType, LastStatus, Told, Es!SpanAtClose
  <2>8. Closed'
    BY <2>1, <2>3, <2>4, <2>5, <2>6, <2>7 DEF EsInv, LastStatus, Told, Closed, Es!FmtTypes
  <2>. QED
    BY <2>1, <2>2, <2>8 DEF EsInv, LastStatus, Untold, Told
<1>10. CASE UNCHANGED Es!vars
  BY <1>10 DEF Es!vars, EsInv, EsType, LastStatus, Untold, Told, Closed, Es!HttpFailed
<1>. QED
  BY <1>1, <1>2, <1>3, <1>4, <1>5, <1>6, <1>7, <1>8, <1>9, <1>10 DEF Es!Next

\* The invariant says what AgreesWithCaller says.
LEMMA EsAgrees == EsInv => Es!AgreesWithCaller
<1> SUFFICES ASSUME EsInv, esPc = "closed" PROVE Es!AgreesWithCaller
  BY DEF Es!AgreesWithCaller
<1>1. (esSample.errorType # NoType) = failed /\ (esSpan.status = "error") = (failed /\ sampled)
  BY Zenon DEF EsInv, EsType, Closed
<1>. QED
  BY <1>1 DEF EsInv, Closed, Es!AgreesWithCaller

\* A request is one operation.
LEMMA EsReports == Es!Spec => Es!Op!Spec
<1>1. Es!Init => Es!Op!Init
  BY Zenon DEF Es!Init, Es!Op!Init
<1>2. EsInv /\ EsInv' /\ [Es!Next]_Es!vars => [Es!Op!Next]_Es!Op!vars
  <2> SUFFICES ASSUME EsInv, EsInv', [Es!Next]_Es!vars PROVE [Es!Op!Next]_Es!Op!vars
    OBVIOUS
  <2>1. ASSUME NEW i, Es!Start(i) PROVE Es!Op!Open
    BY <2>1 DEF Es!Start, Es!Op!Open
  <2>2. ASSUME NEW q, Es!RecordRequestBody(q) PROVE UNCHANGED Es!Op!vars
    BY <2>2 DEF Es!RecordRequestBody, Es!Op!vars
  <2>3. ASSUME NEW s, Es!AfterResponse(s) PROVE UNCHANGED Es!Op!vars
    BY <2>3 DEF Es!AfterResponse, Es!Op!vars
  <2>4. CASE Es!RoundTripFails \/ Es!AfterRequest \/ Es!Return
    BY <2>4 DEF Es!RoundTripFails, Es!AfterRequest, Es!Return, Es!Op!vars
  <2>5. ASSUME NEW e, Es!TransportError(e) \/ Es!Rejected(e) PROVE UNCHANGED Es!Op!vars
    BY <2>5 DEF Es!TransportError, Es!Rejected, Es!RecordError, Es!Op!vars
  <2>6. CASE Es!Close
    <3>1. esPc = "told" /\ esPc' = "closed"
      BY <2>6 DEF Es!Close
    <3>2. (IF sampled THEN esSpan.status = "error" ELSE failed)' <=> failed'
      BY <3>1 DEF EsInv, EsType, Closed
    <3>3. (esSample.errorType # NoType)' <=> failed'
      BY <3>1 DEF EsInv, Closed
    <3>. QED
      BY <3>1, <3>2, <3>3 DEF Es!Op!Report, Es!Op!Next
  <2>7. CASE UNCHANGED Es!vars
    BY <2>7 DEF Es!vars, Es!Op!vars
  <2>. QED
    BY <2>1, <2>2, <2>3, <2>4, <2>5, <2>6, <2>7 DEF Es!Next, Es!Op!Next
<1>. QED
  BY <1>1, <1>2, EsInit, EsNext, PTL DEF Es!Spec, Es!Op!Spec

-----------------------------------------------------------------------------
(***************************************************************************)
(* MinIO.                                                                  *)
(***************************************************************************)

MinioFailures == MinioErrors \cup {Minio!CtxErr}

\* What a call ends in, and what a listing's channel carries.
Items == {{}} \cup {{e} : e \in MinioFailures}

Transports == {<<"caller">>, <<"minio">>, <<"o11y", "caller">>, <<"o11y", "minio">>}

MinioType ==
  /\ minioPc \in {"idle", "calling", "next", "holding", "draining", "ended"}
  /\ op \in Minio!Calls \cup {"none", "ListObjects"}
  /\ transport \in {<<>>, <<"caller">>} /\ built \in Seq(Transports)
  /\ upstream \in Seq(Items) /\ held \in Items /\ firstErr \in Items

\* A span is reported when it ends; a call is not a listing.
Bracketed ==
  /\ minioPc # "ended" => reported = Minio!NoReport
  /\ minioPc = "idle" => op = "none"
  /\ minioPc = "calling" => op \in Minio!Calls
  /\ minioPc = "ended" => reported.span = reported.sample
  /\ handle # "span"

MinioInv ==
  MinioType /\ Bracketed /\ Minio!ListingReleased /\ Minio!KindAgrees

\* The two switches of minio/errors.go agree on the context.
LEMMA KindOfError ==
  ASSUME NEW e \in MinioFailures
  PROVE  /\ Minio!MinioErrorKind(e) = "client_timeout" <=> Minio!ErrorType(e) = "context.DeadlineExceeded"
         /\ Minio!MinioErrorKind(e) = "client_canceled" <=> Minio!ErrorType(e) = "context.Canceled"
<1>1. Minio!ErrorType(e) = "context.DeadlineExceeded" <=> "deadline" \in e.is
  <2>1. CASE e \in MinioErrors
    <3>1. e.code \notin StableNames /\ Head(e.types) \notin StableNames
      BY <2>1, ErrorAssumption
    <3>. QED
      BY <3>1, ErrorAssumption DEF StableNames, Minio!ErrorType, Minio!ContextType, Minio!OuterType
  <2>2. CASE e = Minio!CtxErr
    BY <2>2, ErrorAssumption DEF Minio!CtxErr, Minio!ErrorType, Minio!ContextType, Minio!OuterType
  <2>. QED
    BY <2>1, <2>2 DEF MinioFailures
<1>2. Minio!ErrorType(e) = "context.Canceled" <=> "canceled" \in e.is /\ "deadline" \notin e.is
  <2>1. CASE e \in MinioErrors
    <3>1. e.code \notin StableNames /\ Head(e.types) \notin StableNames
      BY <2>1, ErrorAssumption
    <3>. QED
      BY <3>1, ErrorAssumption DEF StableNames, Minio!ErrorType, Minio!ContextType, Minio!OuterType
  <2>2. CASE e = Minio!CtxErr
    BY <2>2, ErrorAssumption DEF Minio!CtxErr, Minio!ErrorType, Minio!ContextType, Minio!OuterType
  <2>. QED
    BY <2>1, <2>2 DEF MinioFailures
<1>. DEFINE rows == <<
        <<"canceled" \in e.is /\ "deadline" \notin e.is, "client_canceled">>,
        <<"deadline" \in e.is, "client_timeout">>,
        <<e.code \in {"NoSuchKey", "NoSuchBucket"}, "not_found">>,
        <<e.code \in {"AccessDenied", "InvalidAccessKeyId", "SignatureDoesNotMatch"}, "access_denied">>,
        <<e.code = "PreconditionFailed", "precondition">>,
        <<e.code = "SlowDown" \/ e.status = 503, "throttled">>,
        <<e.is \cap {"tls", "op"} # {}, "transport">>,
        <<e.code # "" /\ e.status >= 500, "server_error">>,
        <<TRUE, "unknown">>>>
     fit == {i \in DOMAIN rows : rows[i][1]}
<1>3. Minio!MinioErrorKind(e) = rows[Minio!Min(fit)][2]
  BY Zenon DEF Minio!MinioErrorKind
<1>4. DOMAIN rows = 1..9
  OBVIOUS
<1>5. /\ rows[1][1] <=> "canceled" \in e.is /\ "deadline" \notin e.is
      /\ rows[2][1] <=> "deadline" \in e.is
      /\ rows[9][1]
  OBVIOUS
<1>6. /\ rows[1][2] = "client_canceled" /\ rows[2][2] = "client_timeout"
      /\ \A i \in 3..9 : rows[i][2] \notin {"client_canceled", "client_timeout"}
  OBVIOUS
<1>. HIDE DEF rows
<1>7. fit \subseteq 1..9 /\ 9 \in fit
  BY <1>4, <1>5
<1>8. (1 \in fit <=> "canceled" \in e.is /\ "deadline" \notin e.is) /\ (2 \in fit <=> "deadline" \in e.is)
  BY <1>4, <1>5
<1>. HIDE DEF fit
<1>9. Minio!Min(fit) \in fit /\ \A i \in fit : Minio!Min(fit) <= i
  <2>1. \E m \in fit : \A k \in fit : m <= k
    BY <1>7, LeastNumber
  <2>. QED
    BY <2>1 DEF Minio!Min
<1>91. PICK m \in Nat : m = Minio!Min(fit) /\ m \in fit /\ m \in 1..9 /\ \A i \in fit : m <= i
  <2>1. PICK x : x = Minio!Min(fit)
    OBVIOUS
  <2>2. x \in fit /\ \A i \in fit : x <= i
    BY <1>9, <2>1, Zenon
  <2>3. x \in 1..9 /\ x \in Nat
    BY <1>7, <2>2
  <2>. QED
    BY <2>1, <2>2, <2>3
<1>10. CASE "deadline" \in e.is
  <2>1. m = 2
    BY <1>7, <1>8, <1>91, <1>10
  <2>. QED
    BY <1>1, <1>2, <1>3, <1>6, <1>91, <1>10, <2>1
<1>11. CASE "deadline" \notin e.is /\ "canceled" \in e.is
  <2>1. m = 1
    BY <1>7, <1>8, <1>91, <1>11
  <2>. QED
    BY <1>1, <1>2, <1>3, <1>6, <1>91, <1>11, <2>1
<1>12. CASE "deadline" \notin e.is /\ "canceled" \notin e.is
  <2>1. m \in 3..9
    BY <1>7, <1>8, <1>91, <1>12
  <2>. QED
    BY <1>1, <1>2, <1>3, <1>6, <1>91, <1>12, <2>1
<1>. QED
  BY <1>10, <1>11, <1>12

\* finish names an error alike on the span and the sample, and labels the sample
\* with nothing but what Labels lists.
LEMMA FinishEffect ==
  ASSUME NEW err \in Items, Minio!Finish(err)
  PROVE  /\ minioPc' = "ended" /\ verdict' = err
         /\ reported'.span = reported'.sample
         /\ Minio!KindAgrees'
<1>1. minioPc' = "ended" /\ verdict' = err
  BY DEF Minio!Finish
<1>2. Minio!Labels \cap {"key", "aws.s3.key", "aws.s3.bucket", "size"} = {}
  BY DEF Minio!Labels
<1>3. CASE err = {}
  <2>1. /\ reported'.span = NoType /\ reported'.sample = NoType /\ reported'.kind = "none"
        /\ reported'.labels = Minio!Labels
    BY <1>3 DEF Minio!Finish, Minio!NoReport
  <2>. QED
    BY <1>1, <1>2, <2>1, ErrorAssumption DEF Minio!KindAgrees
<1>4. CASE err # {}
  <2>1. PICK e \in MinioFailures : err = {e}
    BY <1>4 DEF Items
  <2>2. (CHOOSE x \in err : TRUE) = e
    BY <2>1
  <2>3. /\ reported'.span = Minio!ErrorType(e) /\ reported'.sample = Minio!ErrorType(e)
        /\ reported'.kind = Minio!MinioErrorKind(e)
        /\ reported'.labels = Minio!Labels \cup {"error.type"}
    BY <1>4, <2>2 DEF Minio!Finish
  <2>. QED
    BY <1>1, <1>2, <2>3, KindOfError DEF Minio!KindAgrees
<1>. QED
  BY <1>3, <1>4

\* A client starts with no operation.
LEMMA MinioInit == Minio!Init => MinioInv
<1> SUFFICES ASSUME Minio!Init PROVE MinioInv
  OBVIOUS
<1>1. MinioType
  BY DEF Minio!Init, MinioType, Items
<1>2. Bracketed /\ Minio!ListingReleased
  BY DEF Minio!Init, Bracketed, Minio!ListingReleased
<1>3. Minio!KindAgrees
  BY ErrorAssumption DEF Minio!Init, Minio!NoReport, Minio!KindAgrees
<1>. QED
  BY <1>1, <1>2, <1>3 DEF MinioInv

\* One layer over another.
LEMMA OneLayer == ASSUME NEW a, NEW b PROVE <<a>> \o <<b>> = <<a, b>>
<1>. DEFINE S == {a, b}
            s == <<a>> \o <<b>>
            t == <<a, b>>
<1>1. <<a>> \in Seq(S) /\ <<b>> \in Seq(S) /\ t \in Seq(S)
  OBVIOUS
<1>2. s \in Seq(S) /\ Len(s) = 2 /\ s[1] = a /\ s[2] = b
  BY <1>1
<1>3. Len(t) = 2 /\ t[1] = a /\ t[2] = b
  OBVIOUS
<1>. HIDE DEF s, t
<1>4. \A i \in 1..2 : s[i] = t[i]
  BY <1>2, <1>3
<1>5. s = t
  BY <1>1, <1>2, <1>3, <1>4, SeqEqual
<1>. QED
  BY <1>5 DEF s, t

\* A client's transport is the caller's or minio-go's, under one layer at most.
LEMMA NewTransport ==
  ASSUME MinioInv, NEW childSpans \in BOOLEAN, Minio!New(childSpans)
  PROVE  built' \in Seq(Transports)
<1>. DEFINE base == IF transport = <<>> THEN <<"minio">> ELSE transport
<1>1. base \in {<<"minio">>, <<"caller">>}
  BY DEF MinioInv, MinioType
<1>2. <<"o11y">> \o <<"minio">> = <<"o11y", "minio">> /\ <<"o11y">> \o <<"caller">> = <<"o11y", "caller">>
  BY OneLayer
<1>3. (IF childSpans THEN <<"o11y">> \o base ELSE base) \in Transports
  BY <1>1, <1>2 DEF Transports
<1>4. built' = Append(built, IF childSpans THEN <<"o11y">> \o base ELSE base)
  BY DEF Minio!New
<1>. HIDE DEF base
<1>. QED
  BY <1>3, <1>4 DEF MinioInv, MinioType

\* Every step of a call, of a listing and of the goroutines behind it preserves the
\* invariant.
LEMMA MinioNext == MinioInv /\ [Minio!Next]_Minio!vars => MinioInv'
<1> SUFFICES ASSUME MinioInv, [Minio!Next]_Minio!vars PROVE MinioInv'
  OBVIOUS
<1>. USE DEF MinioInv
<1>0. ASSUME UNCHANGED reported PROVE Minio!KindAgrees'
  BY <1>0 DEF Minio!KindAgrees
<1>1. ASSUME NEW childSpans \in BOOLEAN, Minio!New(childSpans) PROVE MinioInv'
  <2>1. built' \in Seq(Transports)
    BY <1>1, NewTransport
  <2>. QED
    BY <1>0, <1>1, <2>1 DEF Minio!New, Minio!listing, MinioType, Bracketed, Minio!ListingReleased
<1>2. ASSUME NEW c \in Minio!Calls, NEW bucket \in BOOLEAN, NEW key \in BOOLEAN, NEW size \in BOOLEAN,
             Minio!Begin(c, bucket, key, size)
      PROVE  MinioInv'
  BY <1>0, <1>2 DEF Minio!Begin, Minio!client, Minio!listing, MinioType, Bracketed, Minio!ListingReleased
<1>3. ASSUME NEW err \in Items, Minio!Call(err) PROVE MinioInv'
  <2>1. Minio!Finish(err) /\ minioPc = "calling" /\ UNCHANGED <<op, Minio!client, Minio!listing>>
        /\ handle' = IF err = {} THEN Minio!CtxOfHandle(op) ELSE "none"
    BY <1>3 DEF Minio!Call
  <2>2. /\ minioPc' = "ended" /\ reported'.span = reported'.sample /\ Minio!KindAgrees'
    BY <2>1, FinishEffect
  <2>3. op \in Minio!Calls /\ handle' # "span" /\ op # "ListObjects"
    BY <2>1 DEF Bracketed, Minio!CtxOfHandle, Minio!Calls
  <2>. QED
    BY <2>1, <2>2, <2>3 DEF Minio!client, Minio!listing, MinioType, Bracketed, Minio!ListingReleased
<1>4. ASSUME NEW item \in Items, Minio!Produce(item) PROVE MinioInv'
  <2>1. upstream' \in Seq(Items)
    BY <1>4 DEF Minio!Produce
  <2>. QED
    BY <1>0, <1>4, <2>1 DEF Minio!Produce, Minio!client, MinioType, Bracketed, Minio!ListingReleased
<1>5. CASE Minio!ListObjects
  BY <1>0, <1>5 DEF Minio!ListObjects, Minio!client, MinioType, Bracketed, Minio!ListingReleased
<1>6. CASE Minio!ProducerEnds
  BY <1>0, <1>6 DEF Minio!ProducerEnds, Minio!client, MinioType, Bracketed, Minio!ListingReleased
<1>7. CASE Minio!Receive
  <2>1. Head(upstream) \in Items /\ Tail(upstream) \in Seq(Items)
    BY <1>7 DEF Minio!Receive, MinioType
  <2>2. upstream' \in Seq(Items) /\ held' \in Items /\ firstErr' \in Items
    BY <1>7, <2>1 DEF Minio!Receive, MinioType
  <2>. QED
    BY <1>0, <1>7, <2>2 DEF Minio!Receive, Minio!client, MinioType, Bracketed, Minio!ListingReleased
<1>8. CASE Minio!Forward
  BY <1>0, <1>8 DEF Minio!Forward, Minio!client, MinioType, Items, Bracketed, Minio!ListingReleased
<1>9. CASE Minio!ContextDone
  BY <1>0, <1>9 DEF Minio!ContextDone, Minio!client, MinioType, Items, Bracketed, Minio!ListingReleased
<1>10. CASE Minio!Drain
  <2>1. upstream' \in Seq(Items)
    BY <1>10 DEF Minio!Drain, MinioType
  <2>. QED
    BY <1>0, <1>10, <2>1 DEF Minio!Drain, Minio!client, MinioType, Bracketed, Minio!ListingReleased
<1>11. CASE Minio!Drained
  <2>1. firstErr' \in Items
    BY <1>11 DEF Minio!Drained, MinioType, Items, MinioFailures
  <2>. QED
    BY <1>0, <1>11, <2>1 DEF Minio!Drained, Minio!client, MinioType, Bracketed, Minio!ListingReleased
<1>12. CASE Minio!ListingDone
  <2>1. /\ Minio!Finish(firstErr) /\ minioPc = "next" /\ producer = "closed" /\ upstream = <<>>
        /\ UNCHANGED <<Minio!client, op, handle, producer, upstream, held, firstErr>>
    BY <1>12 DEF Minio!ListingDone
  <2>2. /\ minioPc' = "ended" /\ reported'.span = reported'.sample /\ Minio!KindAgrees'
        /\ verdict' = firstErr
    BY <2>1, FinishEffect DEF MinioType
  <2>. QED
    BY <2>1, <2>2 DEF Minio!client, MinioType, Bracketed, Minio!ListingReleased
<1>13. CASE Minio!Abandon \/ Minio!Cancel
  BY <1>0, <1>13
  DEF Minio!Abandon, Minio!Cancel, Minio!client, Minio!listing, MinioType, Bracketed, Minio!ListingReleased
<1>14. CASE UNCHANGED Minio!vars
  BY <1>0, <1>14 DEF Minio!vars, MinioType, Bracketed, Minio!ListingReleased
<1>15. {{}} \cup {{x} : x \in MinioErrors} \subseteq Items
  BY DEF Items, MinioFailures
<1>. QED
  BY <1>1, <1>2, <1>3, <1>4, <1>5, <1>6, <1>7, <1>8, <1>9, <1>10, <1>11, <1>12, <1>13, <1>14, <1>15
  DEF Minio!Next, Minio!Goroutine

\* A call or a listing is one operation.
LEMMA MinioReports == Minio!Spec => Minio!Op!Spec
<1>1. Minio!Init => Minio!Op!Init
  <2> SUFFICES ASSUME Minio!Init PROVE Minio!Op!Init
    OBVIOUS
  <2>1. minioPc = "idle" /\ reported.span = NoType /\ reported.sample = NoType
    BY DEF Minio!Init, Minio!NoReport
  <2>. QED
    BY <2>1, Zenon DEF Minio!Op!Init
<1>2. MinioInv /\ MinioInv' /\ [Minio!Next]_Minio!vars => [Minio!Op!Next]_Minio!Op!vars
  <2> SUFFICES ASSUME MinioInv, MinioInv', [Minio!Next]_Minio!vars
               PROVE  [Minio!Op!Next]_Minio!Op!vars
    OBVIOUS
  <2>0. ASSUME UNCHANGED <<minioPc, reported>> PROVE UNCHANGED Minio!Op!vars
    BY <2>0 DEF Minio!Op!vars
  <2>1. ASSUME minioPc \in {"next", "holding", "draining"}, minioPc' \in {"next", "holding", "draining"},
               UNCHANGED reported
        PROVE  UNCHANGED Minio!Op!vars
    BY <2>1 DEF Minio!Op!vars
  <2>2. ASSUME minioPc = "idle", minioPc' \in {"calling", "next"}, UNCHANGED reported
        PROVE  Minio!Op!Open
    BY <2>2 DEF Minio!Op!Open
  <2>3. ASSUME NEW err, Minio!Finish(err), minioPc \in {"calling", "next"}
        PROVE  Minio!Op!Report
    <3>1. minioPc' = "ended" /\ reported'.span = reported'.sample
      BY <2>3 DEF Minio!Finish, MinioInv, Bracketed
    <3>. QED
      BY <2>3, <3>1 DEF Minio!Op!Report
  <2>4. CASE UNCHANGED Minio!vars
    BY <2>0, <2>4 DEF Minio!vars
  <2>5. CASE (\E childSpans \in BOOLEAN : Minio!New(childSpans)) \/ Minio!ProducerEnds
               \/ Minio!Abandon \/ Minio!Cancel
    BY <2>0, <2>5 DEF Minio!New, Minio!ProducerEnds, Minio!Abandon, Minio!Cancel
  <2>6. CASE (\E c \in Minio!Calls, bucket, key, size \in BOOLEAN : Minio!Begin(c, bucket, key, size))
               \/ Minio!ListObjects
    BY <2>2, <2>6 DEF Minio!Begin, Minio!ListObjects, Minio!Op!Next
  <2>7. CASE \E e \in {{}} \cup {{x} : x \in MinioErrors} : Minio!Call(e) \/ Minio!Produce(e)
    BY <2>0, <2>3, <2>7 DEF Minio!Call, Minio!Produce, Minio!Op!Next
  <2>8. CASE Minio!Goroutine
    <3>1. CASE Minio!ListingDone
      BY <2>3, <3>1 DEF Minio!ListingDone, Minio!Op!Next
    <3>2. CASE Minio!Drain
      BY <2>0, <3>2 DEF Minio!Drain
    <3>3. CASE Minio!Receive \/ Minio!Forward \/ Minio!ContextDone \/ Minio!Drained
      BY <2>1, <3>3 DEF Minio!Receive, Minio!Forward, Minio!ContextDone, Minio!Drained
    <3>. QED
      BY <2>8, <3>1, <3>2, <3>3 DEF Minio!Goroutine
  <2>. QED
    BY <2>4, <2>5, <2>6, <2>7, <2>8 DEF Minio!Next
<1>. QED
  BY <1>1, <1>2, MinioInit, MinioNext, PTL DEF Minio!Spec, Minio!Op!Spec

\* A span and a sample say what the caller saw.
THEOREM FailureTheorem == Es!Spec /\ Minio!Spec => []FailureAsSeen
<1>1. EsInv /\ MinioInv => FailureAsSeen
  BY EsAgrees DEF FailureAsSeen, MinioInv
<1>. QED
  BY <1>1, EsInit, EsNext, MinioInit, MinioNext, PTL DEF Es!Spec, Minio!Spec

\* A listing that ends or is given up leaves no producer running, and Connect
\* leaves the caller's Options and transport as they were.
THEOREM OutlivesTheorem == Minio!Spec => []OutlivesCleanly
<1>1. MinioInv => OutlivesCleanly
  <2> SUFFICES ASSUME MinioInv PROVE OutlivesCleanly
    OBVIOUS
  <2>1. handle # "span" /\ built \in Seq(Transports) /\ Minio!ListingReleased
    BY DEF MinioInv, MinioType, Bracketed
  <2>2. \A i \in 1..Len(built) : built[i] \in Transports
    BY <2>1
  <2>. QED
    BY <2>1, <2>2 DEF OutlivesCleanly, Minio!CallersOwnKept, Transports
<1>. QED
  BY <1>1, MinioInit, MinioNext, PTL DEF Minio!Spec

-----------------------------------------------------------------------------
(***************************************************************************)
(* Redis.                                                                  *)
(***************************************************************************)

RedisResults == {{}} \cup {{e} : e \in RedisErrors}

RedisType ==
  /\ redisPc \in {"idle", "next", "returned"} /\ redisSpan \in {"none", "open", "ended"}
  /\ redisCfg \in Redis!Configs /\ cmds \in Seq(Redis!Commands) /\ samples \in Nat

\* A span is open within a call, and nothing is recorded before it ends.
Recorded ==
  /\ redisPc = "idle" => redisSpan = "none" /\ text = {}
  /\ redisPc = "next" => redisSpan # "ended"
  /\ redisPc = "returned" => redisSpan # "open"
  /\ redisSpan # "ended" => redisVerdict = Redis!NoVerdict /\ samples = 0
  /\ redisSpan = "ended" => redisVerdict.type = redisVerdict.label /\ samples = 1

\* A call with a span has commands, and one of its own is not MULTI or EXEC.
Called ==
  redisSpan # "none" => Len(cmds) > 1 \/ (Len(cmds) = 1 /\ cmds[1] # "multi")

RedisInv == RedisType /\ Recorded /\ Called /\ PipelineHonest

\* A failure has a name.
LEMMA OuterName ==
  ASSUME NEW e \in RedisErrors PROVE Redis!OuterType(e) # NoType
<1>1. e.types \in Seq(STRING) /\ Len(e.types) > 0 /\ e.types[1] # NoType
  BY ErrorAssumption DEF StableNames
<1>2. Head(e.types) # NoType
  BY <1>1
<1>. QED
  BY <1>2 DEF Redis!OuterType

\* finish records a failure exactly of an error that is not redis.Nil.
LEMMA RedisFinishes ==
  ASSUME NEW err \in RedisResults, Redis!Finish(err)
  PROVE  /\ redisSpan' = "ended" /\ samples' = samples + 1
         /\ redisVerdict'.type = redisVerdict'.label
         /\ redisVerdict'.type # NoType <=> Redis!Real(err)
<1>1. redisSpan' = "ended" /\ samples' = samples + 1
  BY DEF Redis!Finish
<1>2. CASE Redis!Real(err)
  <2>1. PICK e \in RedisErrors : err = {e}
    BY <1>2 DEF Redis!Real, RedisResults
  <2>2. (CHOOSE x \in err : TRUE) = e
    BY <2>1
  <2>3. redisVerdict'.type = Redis!OuterType(e) /\ redisVerdict'.label = Redis!OuterType(e)
    BY <1>2, <2>2 DEF Redis!Finish
  <2>. QED
    BY <1>1, <1>2, <2>3, OuterName
<1>3. CASE ~Redis!Real(err)
  BY <1>1, <1>3 DEF Redis!Finish, Redis!NoVerdict
<1>. QED
  BY <1>2, <1>3

\* The first of some commands.
LEMMA FirstCommand ==
  ASSUME NEW S, S \subseteq Nat, S # {} PROVE Redis!Min(S) \in S
<1>1. \E m \in S : \A k \in S : m <= k
  BY LeastNumber
<1>. QED
  BY <1>1 DEF Redis!Min

\* pipelineError is a failure exactly when a user command or the call failed.
LEMMA PipelineFailure ==
  ASSUME NEW P, P \subseteq Nat, NEW each \in [P -> RedisResults], NEW exec \in RedisResults
  PROVE  /\ Redis!PipelineError(exec, each) \in RedisResults
         /\ Redis!Real(Redis!PipelineError(exec, each)) <=>
              (\E i \in DOMAIN each : Redis!Real(each[i])) \/ Redis!Real(exec)
<1>. DEFINE failures == {i \in DOMAIN each : Redis!Real(each[i])}
<1>1. CASE failures = {}
  <2>1. Redis!PipelineError(exec, each) = exec
    BY <1>1 DEF Redis!PipelineError
  <2>. QED
    BY <1>1, <2>1
<1>2. CASE failures # {}
  <2>1. Redis!PipelineError(exec, each) = each[Redis!Min(failures)]
    BY <1>2 DEF Redis!PipelineError
  <2>2. Redis!Min(failures) \in failures
    <3>1. failures \subseteq Nat
      OBVIOUS
    <3>. QED
      BY <1>2, <3>1, FirstCommand
  <2>. QED
    BY <2>1, <2>2
<1>. QED
  BY <1>1, <1>2

\* A wrapper starts with no call.
LEMMA RedisInit == Redis!Init => RedisInv
<1> SUFFICES ASSUME Redis!Init PROVE RedisInv
  OBVIOUS
<1>1. RedisType
  BY DEF Redis!Init, RedisType
<1>2. Recorded /\ Called /\ PipelineHonest
  BY DEF Redis!Init, Recorded, Called, PipelineHonest, Redis!FilteredStaysHidden, Redis!NilHidesNothing
<1>. QED
  BY <1>1, <1>2 DEF RedisInv

\* A call is seen by the hook, in one step.
LEMMA HookEffect ==
  ASSUME RedisInv, Redis!Begin
  PROVE  /\ redisPc = "idle" /\ redisPc' = "next" /\ redisSpan' \in {"none", "open"}
         /\ UNCHANGED <<redisCfg, redisVerdict, samples>> /\ RedisInv'
<1>1. ASSUME NEW p \in BOOLEAN, NEW c \in Redis!Commands, Redis!ProcessHook(c, p)
      PROVE  /\ redisPc' = "next" /\ cmds' = <<c>> /\ cmds' \in Seq(Redis!Commands) /\ c # "multi"
             /\ UNCHANGED <<redisCfg, redisOutcome, redisVerdict, samples>>
             /\ \/ UNCHANGED <<redisSpan, text>>
                \/ redisSpan' = "open" /\ text' \subseteq {1} /\ ~Redis!IsFilteredCommand(c)
  BY <1>1 DEF Redis!ProcessHook, Redis!Leave, Redis!Record
<1>2. ASSUME NEW p \in BOOLEAN, NEW n \in 2..MaxCmds, NEW s \in [1..n -> Redis!Commands],
             Redis!ProcessPipelineHook(s, p)
      PROVE  /\ redisPc' = "next" /\ cmds' = s /\ cmds' \in Seq(Redis!Commands) /\ Len(cmds') > 1
             /\ UNCHANGED <<redisCfg, redisOutcome, redisVerdict, samples>>
             /\ \/ UNCHANGED <<redisSpan, text>>
                \/ /\ redisSpan' = "open"
                   /\ \A i \in text' : ~Redis!IsFilteredCommand(s[i])
                   /\ \E i \in 1..Len(s) : s[i] # "multi" /\ ~Redis!IsFilteredCommand(s[i])
  <2>1. s \in Seq(Redis!Commands)
    BY <1>2
  <2>. QED
    BY <1>2, <2>1 DEF Redis!ProcessPipelineHook, Redis!Leave, Redis!Record,
                      Redis!UserPipelineCommands, Redis!UnfilteredPipelineCommands
<1>3. redisPc = "idle" /\ redisSpan = "none" /\ text = {} /\ redisVerdict = Redis!NoVerdict /\ samples = 0
  BY DEF Redis!Begin, RedisInv, Recorded
<1>4. \A c : Redis!IsFilteredCommand(c)' = Redis!IsFilteredCommand(c) \/ redisCfg' # redisCfg
  BY DEF Redis!IsFilteredCommand, Redis!IsPubSubCommand, Redis!IsConnectionLifecycleCommand
<1>5. ASSUME NEW p \in BOOLEAN, NEW c \in Redis!Commands, Redis!ProcessHook(c, p)
      PROVE  /\ redisPc' = "next" /\ redisSpan' \in {"none", "open"}
             /\ UNCHANGED <<redisCfg, redisVerdict, samples>> /\ RedisInv'
  <2>1. Len(cmds') = 1 /\ cmds'[1] = c
    BY <1>1, <1>5
  <2>2. (~Redis!IsFilteredCommand(c))' <=> ~Redis!IsFilteredCommand(c)
    BY <1>1, <1>5 DEF Redis!IsFilteredCommand, Redis!IsPubSubCommand, Redis!IsConnectionLifecycleCommand
  <2>3. RedisType' /\ Recorded' /\ Called'
    BY <1>1, <1>3, <1>5, <2>1 DEF RedisInv, RedisType, Recorded, Called
  <2>4. PipelineHonest'
    BY <1>1, <1>3, <1>5, <2>1, <2>2
    DEF PipelineHonest, Redis!FilteredStaysHidden, Redis!NilHidesNothing
  <2>. QED
    BY <1>1, <1>3, <1>5, <2>3, <2>4 DEF RedisInv
<1>6. ASSUME NEW p \in BOOLEAN, NEW n \in 2..MaxCmds, NEW s \in [1..n -> Redis!Commands],
             Redis!ProcessPipelineHook(s, p)
      PROVE  /\ redisPc' = "next" /\ redisSpan' \in {"none", "open"}
             /\ UNCHANGED <<redisCfg, redisVerdict, samples>> /\ RedisInv'
  <2>2. \A i : (~Redis!IsFilteredCommand(s[i]))' <=> ~Redis!IsFilteredCommand(s[i])
    BY <1>2, <1>6 DEF Redis!IsFilteredCommand, Redis!IsPubSubCommand, Redis!IsConnectionLifecycleCommand
  <2>3. RedisType' /\ Recorded' /\ Called'
    BY <1>2, <1>3, <1>6 DEF RedisInv, RedisType, Recorded, Called
  <2>4. PipelineHonest'
    BY <1>2, <1>3, <1>6, <2>2
    DEF PipelineHonest, Redis!FilteredStaysHidden, Redis!NilHidesNothing
  <2>. QED
    BY <1>2, <1>3, <1>6, <2>3, <2>4 DEF RedisInv
<1>. QED
  BY <1>3, <1>5, <1>6 DEF Redis!Begin

\* go-redis returns from a call the hook has seen.
LEMMA ReturnEffect ==
  ASSUME RedisInv, NEW each \in [Redis!UserPipelineCommands(cmds) -> RedisResults],
         NEW exec \in RedisResults, Redis!Return(each, exec)
  PROVE  /\ redisPc = "next" /\ redisSpan = "open" /\ redisPc' = "returned" /\ redisSpan' = "ended"
         /\ RedisInv'
<1>. DEFINE errs == {i \in DOMAIN each : each[i] # {}}
<1>1. /\ redisPc = "next" /\ redisSpan = "open" /\ redisPc' = "returned"
      /\ redisOutcome' = [each |-> each, exec |-> exec]
      /\ UNCHANGED <<redisCfg, cmds, text>>
  BY DEF Redis!Return
<1>2. Redis!UserPipelineCommands(cmds) \subseteq Nat /\ Len(cmds) \in Nat
  BY DEF Redis!UserPipelineCommands, RedisInv, RedisType
<1>3. ASSUME Len(cmds) = 1
      PROVE  /\ redisSpan' = "ended" /\ samples' = samples + 1
             /\ redisVerdict'.type = redisVerdict'.label
             /\ redisVerdict'.type # NoType <=>
                  (\E i \in DOMAIN each : Redis!Real(each[i])) \/ Redis!Real(exec)
  <2>1. Redis!UserPipelineCommands(cmds) = {1}
    BY <1>1, <1>3 DEF Redis!UserPipelineCommands, RedisInv, Called
  <2>2. exec = IF errs = {} THEN {} ELSE each[Redis!Min(errs)]
    BY <1>3 DEF Redis!Return
  <2>3. exec = each[1]
    <3>1. CASE errs = {}
      BY <2>1, <2>2, <3>1
    <3>2. CASE errs # {}
      <4>1. Redis!Min(errs) \in errs
        BY <1>2, <3>2, FirstCommand
      <4>. QED
        BY <2>1, <2>2, <3>2, <4>1
    <3>. QED
      BY <3>1, <3>2
  <2>4. Redis!Finish(exec)
    BY <1>3 DEF Redis!Return
  <2>5. redisVerdict'.type # NoType <=> (\E i \in DOMAIN each : Redis!Real(each[i])) \/ Redis!Real(exec)
    BY <2>1, <2>3, <2>4, RedisFinishes
  <2>. QED
    BY <2>4, <2>5, RedisFinishes
<1>4. ASSUME Len(cmds) > 1
      PROVE  /\ redisSpan' = "ended" /\ samples' = samples + 1
             /\ redisVerdict'.type = redisVerdict'.label
             /\ redisVerdict'.type # NoType <=>
                  (\E i \in DOMAIN each : Redis!Real(each[i])) \/ Redis!Real(exec)
  <2>0. Len(cmds) # 1
    BY ONLY <1>2, <1>4
  <2>1. Redis!Finish(Redis!PipelineError(exec, each))
    BY <2>0, Zenon DEF Redis!Return, Redis!Finish
  <2>2. /\ Redis!PipelineError(exec, each) \in RedisResults
        /\ Redis!Real(Redis!PipelineError(exec, each)) <=>
              (\E i \in DOMAIN each : Redis!Real(each[i])) \/ Redis!Real(exec)
    BY <1>2, PipelineFailure
  <2>. QED
    BY <2>1, <2>2, RedisFinishes
<1>5. Len(cmds) = 1 \/ Len(cmds) > 1
  BY <1>1 DEF RedisInv, Called
<1>6. redisSpan' = "ended" /\ samples' = 1 /\ redisVerdict'.type = redisVerdict'.label
  BY <1>1, <1>3, <1>4, <1>5 DEF RedisInv, Recorded
<1>7. RedisType' /\ Recorded' /\ Called'
  BY <1>1, <1>6 DEF RedisInv, RedisType, Recorded, Called
<1>8. Redis!NilHidesNothing'
  <2>1. redisOutcome'.each = each /\ redisOutcome'.exec = exec
    BY <1>1
  <2>2. \A x : Redis!Real(x)' <=> Redis!Real(x)
    BY DEF Redis!Real
  <2>. QED
    BY <2>1, <2>2, <1>3, <1>4, <1>5 DEF Redis!NilHidesNothing, Redis!Real
<1>9. Redis!FilteredStaysHidden'
  BY <1>1, <1>6
  DEF RedisInv, PipelineHonest, Redis!FilteredStaysHidden, Redis!IsFilteredCommand,
      Redis!IsPubSubCommand, Redis!IsConnectionLifecycleCommand
<1>. QED
  BY <1>1, <1>6, <1>7, <1>8, <1>9 DEF RedisInv, PipelineHonest

\* Every step around the hook preserves the invariant.
LEMMA RedisNext == RedisInv /\ [Redis!Next]_Redis!vars => RedisInv'
<1> SUFFICES ASSUME RedisInv, [Redis!Next]_Redis!vars PROVE RedisInv'
  OBVIOUS
<1>1. CASE Redis!Begin
  BY <1>1, HookEffect
<1>2. CASE Redis!End
  <2>1. CASE Redis!ReturnUnseen
    BY <2>1
    DEF Redis!ReturnUnseen, RedisInv, RedisType, Recorded, Called, PipelineHonest,
        Redis!FilteredStaysHidden, Redis!NilHidesNothing, Redis!IsFilteredCommand,
        Redis!IsPubSubCommand, Redis!IsConnectionLifecycleCommand
  <2>. QED
    BY <1>2, <2>1, ReturnEffect DEF Redis!End, Redis!ErrorsOrNone, RedisResults
<1>3. ASSUME \/ \E ok \in BOOLEAN : Redis!Dial(ok)
             \/ Redis!Disable
             \/ UNCHANGED Redis!vars
      PROVE  RedisInv'
  <2>1. UNCHANGED <<redisCfg, redisPc, cmds, redisSpan, text, redisOutcome, redisVerdict, samples>>
    BY <1>3 DEF Redis!Dial, Redis!Disable, Redis!vars
  <2>. QED
    BY <2>1
    DEF RedisInv, RedisType, Recorded, Called, PipelineHonest,
        Redis!FilteredStaysHidden, Redis!NilHidesNothing, Redis!IsFilteredCommand,
        Redis!IsPubSubCommand, Redis!IsConnectionLifecycleCommand, Redis!Real
<1>. QED
  BY <1>1, <1>2, <1>3 DEF Redis!Next

\* A command or a pipeline is one operation, or is left alone.
LEMMA RedisReports == Redis!Spec => Redis!Op!Spec
<1>1. Redis!Init => Redis!Op!Init
  <2> SUFFICES ASSUME Redis!Init PROVE Redis!Op!Init
    OBVIOUS
  <2>1. redisPc = "idle" /\ redisVerdict.type = NoType /\ samples = 0 /\ samples # 1
    BY DEF Redis!Init, Redis!NoVerdict
  <2>. QED
    BY <2>1, Zenon DEF Redis!Op!Init
<1>2. RedisInv /\ RedisInv' /\ [Redis!Next]_Redis!vars => [Redis!Op!Next]_Redis!Op!vars
  <2> SUFFICES ASSUME RedisInv, RedisInv', [Redis!Next]_Redis!vars
               PROVE  [Redis!Op!Next]_Redis!Op!vars
    OBVIOUS
  <2>1. CASE Redis!Begin
    <3>1. /\ redisPc = "idle" /\ redisPc' = "next" /\ redisSpan' \in {"none", "open"}
          /\ UNCHANGED <<redisVerdict, samples>>
      BY <2>1, HookEffect
    <3>. QED
      BY <3>1 DEF Redis!Op!Next, Redis!Op!Open, Redis!Op!Leave
  <2>2. CASE Redis!End
    <3>1. CASE Redis!ReturnUnseen
      BY <3>1 DEF Redis!ReturnUnseen, Redis!Op!vars
    <3>2. ASSUME NEW each \in [Redis!UserPipelineCommands(cmds) -> RedisResults],
                 NEW exec \in RedisResults, Redis!Return(each, exec)
          PROVE  Redis!Op!Report
      <4>1. redisPc = "next" /\ redisSpan = "open" /\ redisPc' = "returned" /\ redisSpan' = "ended"
        BY <3>2, ReturnEffect
      <4>2. redisVerdict'.type = redisVerdict'.label /\ samples' = 1
        BY <4>1 DEF RedisInv, Recorded
      <4>. QED
        BY <4>1, <4>2 DEF Redis!Op!Report
    <3>. QED
      BY <2>2, <3>1, <3>2 DEF Redis!End, Redis!ErrorsOrNone, RedisResults, Redis!Op!Next
  <2>3. CASE (\E ok \in BOOLEAN : Redis!Dial(ok)) \/ Redis!Disable \/ UNCHANGED Redis!vars
    BY <2>3 DEF Redis!Dial, Redis!Disable, Redis!vars, Redis!Op!vars
  <2>. QED
    BY <2>1, <2>2, <2>3 DEF Redis!Next
<1>. QED
  BY <1>1, <1>2, RedisInit, RedisNext, PTL DEF Redis!Spec, Redis!Op!Spec

\* A filtered command's text is on no span of a pipeline, and a redis.Nil among
\* the results hides no failure.
THEOREM PipelineTheorem == Redis!Spec => []PipelineHonest
<1>1. RedisInv => PipelineHonest
  BY DEF RedisInv
<1>. QED
  BY <1>1, RedisInit, RedisNext, PTL DEF Redis!Spec

\* The operations of the four clients implement ClientOp: each has one span,
\* which ends once, and one sample, which agrees on the failure.
THEOREM OperationsTheorem ==
  Es!Spec /\ Minio!Spec /\ Redis!Spec /\ Cql!Spec => OperationsReport
  BY EsReports, MinioReports, RedisReports, CqlReports DEF OperationsReport

-----------------------------------------------------------------------------
(***************************************************************************)
(* Resty's table of wrapped clients.                                       *)
(***************************************************************************)

Looking == {"lock", "locked"}

RestyType ==
  /\ made \in Nat /\ live \in {0, made} /\ hooks \in Seq(Nat) /\ Len(hooks) = made
  /\ entries \in Seq([ref : Nat, done : BOOLEAN]) /\ table \in 0..Len(entries)
  /\ restyPc \in [Goroutines -> {"idle", "start", "lock", "locked"}]
  /\ arg \in [Goroutines -> Nat] /\ at \in [Goroutines -> Nat]

\* An entry is of a client that was made, and a goroutine in Wrap keeps its own alive.
Referred ==
  /\ \A e \in 1..Len(entries) : entries[e].ref \in 1..made
  /\ \A g \in Goroutines : restyPc[g] # "idle" => arg[g] = live /\ live # 0
  /\ \A g \in Goroutines : restyPc[g] \in Looking => at[g] \in 1..Len(entries)
  /\ \A k, l \in cleaning : k = l

\* A client has its hooks once an entry of its own is done.
DoneFor(c) == \E e \in 1..Len(entries) : entries[e].done /\ entries[e].ref = c

Hooked ==
  /\ \A c \in 1..made : (DoneFor(c) => hooks[c] = 1) /\ (~DoneFor(c) => hooks[c] = 0)
  /\ \A c \in wrapped : c \in 1..made /\ DoneFor(c)

\* A done entry stays in the table as long as its client is there.
Kept ==
  \A e \in 1..Len(entries) : live # 0 /\ entries[e].done /\ entries[e].ref = live => table = e

\* An entry that is not yet done has a goroutine that will see to it; one whose
\* client is gone has a cleanup.
Owned ==
  table # 0 =>
    \/ /\ entries[table].ref = live
       /\ entries[table].done \/ \E g \in Goroutines : restyPc[g] \in Looking /\ at[g] = table
    \/ /\ entries[table].ref # live
       /\ \/ entries[table].ref \in queued
          \/ \E k \in cleaning : k.ref = entries[table].ref /\ k.entry = table

RestyInv == RestyType /\ Referred /\ Hooked /\ Kept /\ Owned

\* No client, no entry.
LEMMA RestyInit == Resty!Init => RestyInv
<1> SUFFICES ASSUME Resty!Init PROVE RestyInv
  OBVIOUS
<1>1. RestyType
  BY DEF Resty!Init, Resty!None, RestyType
<1>2. Len(entries) = 0 /\ 1..made = {} /\ 1..Len(entries) = {}
  BY DEF Resty!Init
<1>3. Referred
  BY <1>2 DEF Resty!Init, Referred, Looking
<1>4. Hooked /\ Kept
  BY <1>2 DEF Resty!Init, Hooked, Kept
<1>5. Owned
  BY DEF Resty!Init, Resty!None, Owned
<1>. QED
  BY <1>1, <1>3, <1>4, <1>5 DEF RestyInv

\* Appending to the entries or to the hooks leaves what was there.
LEMMA AppendEffect ==
  ASSUME NEW S, NEW s \in Seq(S), NEW x \in S
  PROVE  /\ Append(s, x) \in Seq(S) /\ Len(Append(s, x)) = Len(s) + 1
         /\ \A i \in 1..Len(s) : Append(s, x)[i] = s[i]
         /\ Append(s, x)[Len(s) + 1] = x
  OBVIOUS

\* LoadOrStore finds the entry of the address or stores one.
LEMMA RestyLoad ==
  ASSUME RestyInv, NEW g \in Goroutines, Resty!LoadOrStore(g)
  PROVE  RestyInv'
<1>1. /\ restyPc[g] = "start" /\ restyPc' = [restyPc EXCEPT ![g] = "lock"]
      /\ UNCHANGED <<made, live, wrapped, calls, arg, hooks, queued, cleaning>>
  BY DEF Resty!LoadOrStore, Resty!callers
<1>2. arg[g] = live /\ live # 0 /\ live = made /\ made \in 1..made
  BY <1>1 DEF RestyInv, RestyType, Referred
<1>3. CASE table # 0 /\ at' = [at EXCEPT ![g] = table] /\ UNCHANGED <<entries, table>>
  <2>1. RestyType' /\ Referred'
    BY <1>1, <1>2, <1>3 DEF RestyInv, RestyType, Referred, Looking
  <2>2. Hooked' /\ Kept'
    BY <1>1, <1>3 DEF RestyInv, Hooked, Kept, DoneFor
  <2>3. Owned'
    BY <1>1, <1>3 DEF RestyInv, RestyType, Owned, Looking
  <2>. QED
    BY <2>1, <2>2, <2>3 DEF RestyInv
<1>4. CASE /\ table = 0 /\ entries' = Append(entries, [ref |-> arg[g], done |-> FALSE])
           /\ table' = Len(entries) + 1 /\ at' = [at EXCEPT ![g] = Len(entries) + 1]
  <2>. DEFINE n == Len(entries) + 1
  <2>1. [ref |-> arg[g], done |-> FALSE] \in [ref : Nat, done : BOOLEAN]
    BY DEF RestyInv, RestyType
  <2>2. /\ entries' \in Seq([ref : Nat, done : BOOLEAN]) /\ Len(entries') = n
        /\ \A i \in 1..Len(entries) : entries'[i] = entries[i]
        /\ entries'[n] = [ref |-> arg[g], done |-> FALSE]
    BY <1>4, <2>1, AppendEffect DEF RestyInv, RestyType
  <2>3. entries'[n].ref = live /\ ~entries'[n].done
    BY <1>2, <2>2
  <2>4. Len(entries) \in Nat /\ n \in Nat /\ 1..n = (1..Len(entries)) \cup {n}
    BY DEF RestyInv, RestyType
  <2>5. RestyType'
    BY <1>1, <1>2, <1>4, <2>2, <2>4 DEF RestyInv, RestyType
  <2>6. Referred'
    <3>1. \A e \in 1..Len(entries') : entries'[e].ref \in 1..made
      BY <1>2, <2>2, <2>3, <2>4 DEF RestyInv, Referred
    <3>2. \A h \in Goroutines : restyPc'[h] \in Looking => at'[h] \in 1..Len(entries')
      BY <1>1, <1>4, <2>2, <2>4 DEF RestyInv, RestyType, Referred, Looking
    <3>3. \A h \in Goroutines : restyPc'[h] # "idle" => arg'[h] = live' /\ live' # 0
      BY <1>1, <1>2 DEF RestyInv, RestyType, Referred
    <3>. QED
      BY <1>1, <3>1, <3>2, <3>3 DEF RestyInv, Referred
  <2>7. \A c : DoneFor(c)' <=> DoneFor(c)
    BY <2>2, <2>3, <2>4 DEF DoneFor
  <2>8. Hooked'
    BY <1>1, <2>7 DEF RestyInv, Hooked
  <2>9. Kept'
    BY <1>1, <1>4, <2>2, <2>3, <2>4 DEF RestyInv, Kept
  <2>10. Owned'
    <3>1. restyPc'[g] = "lock" /\ at'[g] = n /\ table' = n /\ live' = live
      BY <1>1, <1>4 DEF RestyInv, RestyType
    <3>. QED
      BY <2>3, <3>1 DEF Owned, Looking
  <2>. QED
    BY <2>5, <2>6, <2>8, <2>9, <2>10 DEF RestyInv
<1>. QED
  BY <1>3, <1>4 DEF Resty!LoadOrStore, Resty!None

\* A stale entry is taken out of the table, by the goroutine that found it.
LEMMA RestyRetry ==
  ASSUME RestyInv, NEW g \in Goroutines, Resty!Retry(g)
  PROVE  RestyInv'
<1>1. /\ restyPc[g] = "locked" /\ restyPc' = [restyPc EXCEPT ![g] = "start"]
      /\ at' = [at EXCEPT ![g] = 0]
      /\ table' = IF table = at[g] THEN 0 ELSE table
      /\ table # at[g] \/ entries[at[g]].ref # arg[g]
      /\ UNCHANGED <<made, live, wrapped, calls, arg, hooks, entries, queued, cleaning>>
  BY DEF Resty!Retry, Resty!Unlock, Resty!Mine, Resty!callers, Resty!None
<1>2. arg[g] = live /\ live # 0 /\ at[g] \in 1..Len(entries)
  BY <1>1 DEF RestyInv, RestyType, Referred, Looking
<1>3. RestyType'
  BY <1>1 DEF RestyInv, RestyType
<1>4. Referred'
  BY <1>1, <1>2 DEF RestyInv, RestyType, Referred, Looking
<1>5. Hooked'
  BY <1>1 DEF RestyInv, Hooked, DoneFor
<1>6. Kept'
  BY <1>1, <1>2 DEF RestyInv, Kept
<1>7. Owned'
  <2>1. table' # 0 => table' = table /\ table # at[g]
    BY <1>1
  <2>2. \A h \in Goroutines : at[h] = table /\ table # at[g] /\ restyPc[h] \in Looking
          => at'[h] = table /\ restyPc'[h] \in Looking
    BY <1>1 DEF RestyInv, RestyType
  <2>. QED
    BY <1>1, <2>1, <2>2 DEF RestyInv, Owned
<1>. QED
  BY <1>3, <1>4, <1>5, <1>6, <1>7 DEF RestyInv

\* The hooks are installed under the entry's lock, once.
LEMMA RestyInstall ==
  ASSUME RestyInv, NEW g \in Goroutines, Resty!Install(g)
  PROVE  RestyInv'
<1>. DEFINE a == at[g]
<1>1. /\ restyPc[g] = "locked" /\ restyPc' = [restyPc EXCEPT ![g] = "idle"]
      /\ at' = [at EXCEPT ![g] = 0] /\ table = a /\ entries[a].ref = arg[g]
      /\ hooks' = IF entries[a].done THEN hooks ELSE [hooks EXCEPT ![arg[g]] = @ + 1]
      /\ entries' = [entries EXCEPT ![a].done = TRUE]
      /\ wrapped' = wrapped \cup {arg[g]}
      /\ UNCHANGED <<made, live, calls, arg, table, queued, cleaning>>
  BY DEF Resty!Install, Resty!Unlock, Resty!Mine, Resty!AlreadyDone, Resty!None
<1>2. arg[g] = live /\ live # 0 /\ live = made /\ live \in 1..made /\ a \in 1..Len(entries)
  BY <1>1 DEF RestyInv, RestyType, Referred, Looking
<1>. HIDE DEF a
<1>3. /\ entries' \in Seq([ref : Nat, done : BOOLEAN]) /\ Len(entries') = Len(entries)
      /\ \A e \in 1..Len(entries) : entries'[e].ref = entries[e].ref
      /\ entries'[a].done
      /\ \A e \in 1..Len(entries) : e # a => entries'[e].done = entries[e].done
  <2>. DEFINE x == [entries[a] EXCEPT !.done = TRUE]
  <2>0. entries[a] \in [ref : Nat, done : BOOLEAN]
    BY <1>2, ElementOfSeq, Zenon DEF RestyInv, RestyType
  <2>1. x \in [ref : Nat, done : BOOLEAN] /\ x.ref = entries[a].ref /\ x.done
    BY <2>0
  <2>2. entries' = [entries EXCEPT ![a] = x]
    BY <1>1, Zenon
  <2>. HIDE DEF x
  <2>3. /\ entries' \in Seq([ref : Nat, done : BOOLEAN]) /\ Len(entries') = Len(entries)
        /\ entries'[a] = x /\ \A e \in 1..Len(entries) : e # a => entries'[e] = entries[e]
    BY <1>2, <2>1, <2>2 DEF RestyInv, RestyType
  <2>. QED
    BY <1>2, <2>1, <2>3
<1>4. \A e \in 1..Len(entries) : entries[e].done /\ entries[e].ref = live => e = a
  BY <1>1, <1>2 DEF RestyInv, Kept
<1>5. entries[a].done <=> DoneFor(live)
  BY <1>1, <1>2, <1>4 DEF DoneFor
<1>6. \A c : c = live => DoneFor(c)'
  BY <1>1, <1>2, <1>3 DEF DoneFor
<1>7. \A c : c # live => (DoneFor(c)' <=> DoneFor(c))
  BY <1>1, <1>2, <1>3 DEF DoneFor
<1>8. /\ hooks' \in Seq(Nat) /\ Len(hooks') = Len(hooks)
      /\ \A c \in 1..made : c # live => hooks'[c] = hooks[c]
      /\ hooks'[live] = 1
  <2>1. (DoneFor(live) => hooks[live] = 1) /\ (~DoneFor(live) => hooks[live] = 0)
    BY <1>2 DEF RestyInv, Hooked
  <2>2. CASE entries[a].done
    BY <1>1, <1>5, <2>1, <2>2 DEF RestyInv, RestyType
  <2>3. CASE ~entries[a].done
    BY <1>1, <1>2, <1>5, <2>1, <2>3 DEF RestyInv, RestyType
  <2>. QED
    BY <2>2, <2>3
<1>9. RestyType'
  BY <1>1, <1>3, <1>8 DEF RestyInv, RestyType
<1>10. Referred'
  BY <1>1, <1>2, <1>3 DEF RestyInv, RestyType, Referred, Looking
<1>11. Hooked'
  <2>1. \A c \in 1..made : (DoneFor(c)' => hooks'[c] = 1) /\ (~DoneFor(c)' => hooks'[c] = 0)
    BY <1>6, <1>7, <1>8 DEF RestyInv, Hooked
  <2>2. \A c \in wrapped' : c \in 1..made /\ DoneFor(c)'
    BY <1>1, <1>2, <1>6, <1>7 DEF RestyInv, Hooked
  <2>. QED
    BY <1>1, <2>1, <2>2 DEF Hooked
<1>12. Kept'
  BY <1>1, <1>2, <1>3, <1>4 DEF Kept
<1>13. Owned'
  BY <1>1, <1>2, <1>3 DEF Owned
<1>. QED
  BY <1>9, <1>10, <1>11, <1>12, <1>13 DEF RestyInv

\* A client is made at the address, of which nothing is known.
LEMMA RestyAllocate ==
  ASSUME RestyInv, Resty!Allocate
  PROVE  RestyInv'
<1>1. /\ live = 0 /\ made' = made + 1 /\ live' = made + 1 /\ hooks' = Append(hooks, 0)
      /\ UNCHANGED <<wrapped, calls, restyPc, arg, at, entries, table, queued, cleaning>>
  BY DEF Resty!Allocate, Resty!None
<1>2. /\ hooks' \in Seq(Nat) /\ Len(hooks') = made + 1 /\ made \in Nat
      /\ \A c \in 1..made : hooks'[c] = hooks[c]
      /\ hooks'[made + 1] = 0
  BY <1>1, AppendEffect DEF RestyInv, RestyType
<1>3. \A e \in 1..Len(entries) : entries[e].ref \in 1..made /\ entries[e].ref # made + 1
  BY <1>2 DEF RestyInv, Referred
<1>4. \A c : DoneFor(c)' <=> DoneFor(c)
  BY <1>1 DEF DoneFor
<1>5. ~DoneFor(made + 1)
  BY <1>3 DEF DoneFor
<1>6. 1..(made + 1) = (1..made) \cup {made + 1}
  BY <1>2
<1>7. RestyType' /\ Referred'
  BY <1>1, <1>2, <1>3, <1>6 DEF RestyInv, RestyType, Referred
<1>8. Hooked'
  BY <1>1, <1>2, <1>4, <1>5, <1>6 DEF RestyInv, Hooked
<1>9. Kept'
  BY <1>1, <1>3 DEF Kept
<1>10. Owned'
  BY <1>1, <1>3 DEF RestyInv, RestyType, Referred, Owned
<1>. QED
  BY <1>7, <1>8, <1>9, <1>10 DEF RestyInv

\* The collector takes a client; its cleanup is queued if it has hooks.
LEMMA RestyCollect ==
  ASSUME RestyInv, Resty!Collect
  PROVE  RestyInv'
<1>1. /\ live # 0 /\ live' = 0 /\ \A g \in Goroutines : restyPc[g] = "idle"
      /\ queued' = IF hooks[live] > 0 THEN queued \cup {live} ELSE queued
      /\ UNCHANGED <<made, hooks, wrapped, calls, restyPc, arg, at, entries, table, cleaning>>
  BY DEF Resty!Collect, Resty!None
<1>2. live = made /\ live \in 1..made
  BY <1>1 DEF RestyInv, RestyType
<1>3. RestyType' /\ Referred'
  BY <1>1 DEF RestyInv, RestyType, Referred, Looking
<1>4. Hooked' /\ Kept'
  BY <1>1 DEF RestyInv, Hooked, Kept, DoneFor
<1>5. Owned'
  <2> SUFFICES ASSUME table # 0 PROVE Owned'
    BY <1>1 DEF Owned
  <2>1. table \in 1..Len(entries) /\ entries[table].ref \in 1..made /\ entries[table].ref # 0
    BY DEF RestyInv, RestyType, Referred
  <2>2. CASE entries[table].ref = live
    <3>1. entries[table].done
      BY <1>1, <2>2 DEF RestyInv, Owned, Looking
    <3>2. hooks[live] = 1
      BY <1>2, <2>1, <2>2, <3>1 DEF RestyInv, Hooked, DoneFor
    <3>. QED
      BY <1>1, <2>1, <2>2, <3>2 DEF Owned
  <2>3. CASE entries[table].ref # live
    BY <1>1, <2>1, <2>3 DEF RestyInv, Owned
  <2>. QED
    BY <2>2, <2>3
<1>. QED
  BY <1>3, <1>4, <1>5 DEF RestyInv

\* Every step preserves the invariant.
LEMMA RestyNext == RestyInv /\ [Resty!Next]_Resty!vars => RestyInv'
<1> SUFFICES ASSUME RestyInv, [Resty!Next]_Resty!vars PROVE RestyInv'
  OBVIOUS
<1>1. ASSUME NEW g \in Goroutines, Resty!Call(g) PROVE RestyInv'
  <2>1. /\ restyPc[g] = "idle" /\ live # 0 /\ restyPc' = [restyPc EXCEPT ![g] = "start"]
        /\ arg' = [arg EXCEPT ![g] = live]
        /\ UNCHANGED <<made, live, hooks, wrapped, at, entries, table, queued, cleaning>>
    BY <1>1 DEF Resty!Call, Resty!None
  <2>2. RestyType' /\ Referred'
    BY <2>1 DEF RestyInv, RestyType, Referred, Looking
  <2>3. Hooked' /\ Kept'
    BY <2>1 DEF RestyInv, Hooked, Kept, DoneFor
  <2>4. Owned'
    BY <2>1 DEF RestyInv, RestyType, Owned, Looking
  <2>. QED
    BY <2>2, <2>3, <2>4 DEF RestyInv
<1>2. ASSUME NEW g \in Goroutines, Resty!Lock(g) PROVE RestyInv'
  <2>1. /\ restyPc[g] = "lock" /\ restyPc' = [restyPc EXCEPT ![g] = "locked"]
        /\ UNCHANGED <<made, live, hooks, wrapped, arg, at, entries, table, queued, cleaning>>
    BY <1>2 DEF Resty!Lock, Resty!callers
  <2>2. RestyType' /\ Referred'
    BY <2>1 DEF RestyInv, RestyType, Referred, Looking
  <2>3. Hooked' /\ Kept'
    BY <2>1 DEF RestyInv, Hooked, Kept, DoneFor
  <2>4. Owned'
    BY <2>1 DEF RestyInv, RestyType, Owned, Looking
  <2>. QED
    BY <2>2, <2>3, <2>4 DEF RestyInv
<1>3. ASSUME NEW c \in queued, Resty!CleanupLoad(c) PROVE RestyInv'
  <2>1. /\ cleaning = {} /\ queued' = queued \ {c}
        /\ cleaning' = IF table = 0 THEN {} ELSE {[ref |-> c, entry |-> table]}
        /\ UNCHANGED <<made, live, hooks, wrapped, arg, restyPc, at, entries, table>>
    BY <1>3 DEF Resty!CleanupLoad, Resty!callers, Resty!None
  <2>2. RestyType' /\ Referred'
    BY <2>1 DEF RestyInv, RestyType, Referred
  <2>3. Hooked' /\ Kept'
    BY <2>1 DEF RestyInv, Hooked, Kept, DoneFor
  <2>4. Owned'
    BY <2>1 DEF RestyInv, Owned
  <2>. QED
    BY <2>2, <2>3, <2>4 DEF RestyInv
<1>4. ASSUME NEW k \in cleaning, Resty!CleanupDelete(k) PROVE RestyInv'
  <2>1. /\ table' = IF entries[k.entry].ref = k.ref /\ k.ref # live /\ table = k.entry THEN 0 ELSE table
        /\ cleaning' = {}
        /\ UNCHANGED <<made, live, hooks, wrapped, arg, restyPc, at, entries, queued>>
    BY <1>4 DEF Resty!CleanupDelete, Resty!Stale, Resty!callers, Resty!None
  <2>2. \A l \in cleaning : l = k
    BY <1>4 DEF RestyInv, Referred
  <2>3. RestyType' /\ Referred'
    BY <2>1 DEF RestyInv, RestyType, Referred
  <2>4. Hooked'
    BY <2>1 DEF RestyInv, Hooked, DoneFor
  <2>5. Kept'
    BY <2>1 DEF RestyInv, Kept
  <2>6. Owned'
    BY <2>1, <2>2 DEF RestyInv, Owned
  <2>. QED
    BY <2>3, <2>4, <2>5, <2>6 DEF RestyInv
<1>5. CASE UNCHANGED Resty!vars
  BY <1>5 DEF Resty!vars, RestyInv, RestyType, Referred, Hooked, Kept, Owned, DoneFor
<1>. QED
  BY <1>1, <1>2, <1>3, <1>4, <1>5, RestyLoad, RestyRetry, RestyInstall, RestyAllocate, RestyCollect
  DEF Resty!Next, Resty!Step

\* However callers of Wrap race and addresses are reused, a wrapped client has its
\* hooks exactly once.
THEOREM HookedTheorem == Resty!Spec => []HookedOnce
<1>1. RestyInv => HookedOnce
  <2> SUFFICES ASSUME RestyInv PROVE HookedOnce
    OBVIOUS
  <2>1. \A c \in 1..made : hooks[c] <= 1
    BY DEF RestyInv, Hooked
  <2>2. \A c \in wrapped : hooks[c] = 1
    BY DEF RestyInv, Hooked
  <2>3. live = 0 /\ queued = {} /\ cleaning = {} => table = 0
    BY DEF RestyInv, RestyType, Referred, Owned
  <2>. QED
    BY <2>1, <2>2, <2>3 DEF HookedOnce, Resty!HookedOnce, Resty!None
<1>. QED
  BY <1>1, RestyInit, RestyNext, PTL DEF Resty!Spec

-----------------------------------------------------------------------------
(***************************************************************************)
(* MongoDB's commands: what a connection's identifier comes down to, then  *)
(* the spans.                                                              *)
(***************************************************************************)

\* The words of the identifiers.
Words == {"host", "path", "v6", "[", "]", "-", "1", "2", "x"}

\* The last opening bracket of an identifier.
LEMMA LastBracket ==
  ASSUME NEW id \in Seq(Words), NEW open \in 1..Len(id), id[open] = "[",
         \A i \in 1..Len(id) : i > open => id[i] # "["
  PROVE  Mongo!SelectLastInSeq(id, LAMBDA w : w = "[") = open
<1>. DEFINE I == {i \in 1..Len(id) : id[i] = "["}
<1>1. open \in I /\ \A i \in I : open >= i
  OBVIOUS
<1>2. Mongo!Max(I) = open
  <2>1. \A x \in I : (\A y \in I : x >= y) => x = open
    BY <1>1
  <2>. HIDE DEF I
  <2>. QED
    BY <1>1, <2>1 DEF Mongo!Max
<1>. QED
  BY <1>1, <1>2 DEF Mongo!SelectLastInSeq

\* The words of an identifier that may be cut.
LEMMA Counters ==
  /\ Mongo!IsConnectionCounter(<<"-", "1">>) /\ Mongo!IsConnectionCounter(<<"2">>)
  /\ ~Mongo!IsConnectionCounter(<<"-", "x">>)
<1>1. /\ Head(<<"-", "1">>) = "-" /\ Tail(<<"-", "1">>) = <<"1">>
      /\ Head(<<"-", "x">>) = "-" /\ Tail(<<"-", "x">>) = <<"x">>
      /\ Head(<<"2">>) = "2"
      /\ <<"-", "1">> # <<>> /\ <<"-", "x">> # <<>> /\ <<"2">> # <<>> /\ <<"1">> # <<>> /\ <<"x">> # <<>>
  OBVIOUS
<1>2. Mongo!Range(<<"1">>) = {"1"} /\ Mongo!Range(<<"2">>) = {"2"} /\ Mongo!Range(<<"x">>) = {"x"}
  BY DEF Mongo!Range
<1>. QED
  BY <1>1, <1>2 DEF Mongo!IsConnectionCounter

\* A piece of an identifier, by its words.
LEMMA Piece ==
  ASSUME NEW s \in Seq(Words), NEW t \in Seq(Words), NEW m \in 1..Len(s), NEW n \in m..Len(s),
         Len(t) = n - m + 1, \A i \in 1..Len(t) : t[i] = s[m + i - 1]
  PROVE  SubSeq(s, m, n) = t
<1>1. /\ SubSeq(s, m, n) \in Seq(Words) /\ Len(SubSeq(s, m, n)) = n - m + 1
      /\ \A i \in 1..(n - m + 1) : SubSeq(s, m, n)[i] = s[m + i - 1]
  BY SubSeqProperties
<1>. QED
  BY <1>1, SeqEqual

\* One word.
LEMMA OneWord ==
  ASSUME NEW s \in Seq(Words), NEW m \in 1..Len(s), m <= Len(s)
  PROVE  SubSeq(s, m, m) = <<s[m]>>
<1>. DEFINE t == <<s[m]>>
<1>1. t \in Seq(Words) /\ Len(t) = 1 /\ t[1] = s[m]
  OBVIOUS
<1>. HIDE DEF t
<1>2. \A i \in 1..Len(t) : t[i] = s[m + i - 1]
  BY <1>1
<1>3. SubSeq(s, m, m) = t
  BY <1>1, <1>2, Piece
<1>. QED
  BY <1>3 DEF t

\* Two words.
LEMMA TwoWords ==
  ASSUME NEW s \in Seq(Words), NEW m \in 1..Len(s), m + 1 <= Len(s)
  PROVE  SubSeq(s, m, m + 1) = <<s[m], s[m + 1]>>
<1>. DEFINE t == <<s[m], s[m + 1]>>
<1>1. t \in Seq(Words) /\ Len(t) = 2 /\ t[1] = s[m] /\ t[2] = s[m + 1]
  OBVIOUS
<1>. HIDE DEF t
<1>2. \A i \in 1..Len(t) : t[i] = s[m + i - 1]
  BY <1>1
<1>3. SubSeq(s, m, m + 1) = t
  BY <1>1, <1>2, Piece
<1>. QED
  BY <1>3 DEF t

\* Three words.
LEMMA ThreeWords ==
  ASSUME NEW s \in Seq(Words), NEW m \in 1..Len(s), m + 2 <= Len(s)
  PROVE  SubSeq(s, m, m + 2) = <<s[m], s[m + 1], s[m + 2]>>
<1>. DEFINE t == <<s[m], s[m + 1], s[m + 2]>>
<1>1. t \in Seq(Words) /\ Len(t) = 3 /\ t[1] = s[m] /\ t[2] = s[m + 1] /\ t[3] = s[m + 2]
  OBVIOUS
<1>. HIDE DEF t
<1>2. \A i \in 1..Len(t) : t[i] = s[m + i - 1]
  BY <1>1
<1>3. SubSeq(s, m, m + 2) = t
  BY <1>1, <1>2, Piece
<1>. QED
  BY <1>3 DEF t

\* An identifier the driver makes comes down to its server.
LEMMA ServerNames ==
  /\ Mongo!Conns = 1..5
  /\ \A c \in Mongo!Conns : Mongo!NormalizeConnectionID(Mongo!ConnectionID[c]) = Mongo!ServerOf[c]
<1>1. Mongo!Conns = 1..5
  BY DEF Mongo!Conns, Mongo!ConnectionID
<1>2. Mongo!NormalizeConnectionID(Mongo!ConnectionID[1]) = Mongo!ServerOf[1]
  <2>. DEFINE id == <<"host", "[", "-", "1", "]">>
  <2>1. /\ id \in Seq(Words) /\ Len(id) = 5
        /\ id[1] = "host" /\ id[2] = "[" /\ id[3] = "-" /\ id[4] = "1" /\ id[5] = "]"
    BY DEF Words
  <2>2. Mongo!ConnectionID[1] = id /\ Mongo!ServerOf[1] = <<"host">>
    BY DEF Mongo!ConnectionID, Mongo!ServerOf
  <2>. HIDE DEF id
  <2>3. 2 \in 1..Len(id) /\ \A i \in 1..Len(id) : i > 2 => id[i] # "["
    BY <2>1
  <2>4. Mongo!SelectLastInSeq(id, LAMBDA w : w = "[") = 2 /\ Mongo!Last(id) = "]"
    BY <2>1, <2>3, LastBracket DEF Mongo!Last
  <2>5. SubSeq(id, 3, 4) = <<"-", "1">>
    BY <2>1, TwoWords
  <2>6. SubSeq(id, 1, 1) = <<"host">>
    BY <2>1, OneWord
  <2>7. Mongo!NormalizeConnectionID(id) =
          IF 2 > 1 /\ Mongo!IsConnectionCounter(SubSeq(id, 2 + 1, 5 - 1))
          THEN SubSeq(id, 1, 2 - 1) ELSE id
    BY <2>1, <2>4 DEF Mongo!NormalizeConnectionID
  <2>8. 2 + 1 = 3 /\ 5 - 1 = 4 /\ 2 - 1 = 1 /\ 2 > 1
    OBVIOUS
  <2>9. Mongo!NormalizeConnectionID(id) = SubSeq(id, 1, 1)
    BY <2>5, <2>7, <2>8, Counters
  <2>. QED
    BY <2>2, <2>6, <2>9
<1>3. Mongo!NormalizeConnectionID(Mongo!ConnectionID[2]) = Mongo!ServerOf[2]
  <2>. DEFINE id == <<"host", "[", "2", "]">>
  <2>1. /\ id \in Seq(Words) /\ Len(id) = 4
        /\ id[1] = "host" /\ id[2] = "[" /\ id[3] = "2" /\ id[4] = "]"
    BY DEF Words
  <2>2. Mongo!ConnectionID[2] = id /\ Mongo!ServerOf[2] = <<"host">>
    BY DEF Mongo!ConnectionID, Mongo!ServerOf
  <2>. HIDE DEF id
  <2>3. 2 \in 1..Len(id) /\ \A i \in 1..Len(id) : i > 2 => id[i] # "["
    BY <2>1
  <2>4. Mongo!SelectLastInSeq(id, LAMBDA w : w = "[") = 2 /\ Mongo!Last(id) = "]"
    BY <2>1, <2>3, LastBracket DEF Mongo!Last
  <2>5. SubSeq(id, 3, 3) = <<"2">>
    BY <2>1, OneWord
  <2>6. SubSeq(id, 1, 1) = <<"host">>
    BY <2>1, OneWord
  <2>7. Mongo!NormalizeConnectionID(id) =
          IF 2 > 1 /\ Mongo!IsConnectionCounter(SubSeq(id, 2 + 1, 4 - 1))
          THEN SubSeq(id, 1, 2 - 1) ELSE id
    BY <2>1, <2>4 DEF Mongo!NormalizeConnectionID
  <2>8. 2 + 1 = 3 /\ 4 - 1 = 3 /\ 2 - 1 = 1 /\ 2 > 1
    OBVIOUS
  <2>9. Mongo!NormalizeConnectionID(id) = SubSeq(id, 1, 1)
    BY <2>5, <2>7, <2>8, Counters
  <2>. QED
    BY <2>2, <2>6, <2>9
<1>4. Mongo!NormalizeConnectionID(Mongo!ConnectionID[3]) = Mongo!ServerOf[3]
  <2>. DEFINE id == <<"[", "v6", "]", "[", "-", "1", "]">>
  <2>1. /\ id \in Seq(Words) /\ Len(id) = 7
        /\ id[1] = "[" /\ id[2] = "v6" /\ id[3] = "]" /\ id[4] = "[" /\ id[5] = "-" /\ id[6] = "1" /\ id[7] = "]"
    BY DEF Words
  <2>2. Mongo!ConnectionID[3] = id /\ Mongo!ServerOf[3] = <<"[", "v6", "]">>
    BY DEF Mongo!ConnectionID, Mongo!ServerOf
  <2>. HIDE DEF id
  <2>3. 4 \in 1..Len(id) /\ \A i \in 1..Len(id) : i > 4 => id[i] # "["
    BY <2>1
  <2>4. Mongo!SelectLastInSeq(id, LAMBDA w : w = "[") = 4 /\ Mongo!Last(id) = "]"
    BY <2>1, <2>3, LastBracket DEF Mongo!Last
  <2>5. SubSeq(id, 5, 6) = <<"-", "1">>
    BY <2>1, TwoWords
  <2>6. SubSeq(id, 1, 3) = <<"[", "v6", "]">>
    BY <2>1, ThreeWords
  <2>7. Mongo!NormalizeConnectionID(id) =
          IF 4 > 1 /\ Mongo!IsConnectionCounter(SubSeq(id, 4 + 1, 7 - 1))
          THEN SubSeq(id, 1, 4 - 1) ELSE id
    BY <2>1, <2>4 DEF Mongo!NormalizeConnectionID
  <2>8. 4 + 1 = 5 /\ 7 - 1 = 6 /\ 4 - 1 = 3 /\ 4 > 1
    OBVIOUS
  <2>9. Mongo!NormalizeConnectionID(id) = SubSeq(id, 1, 3)
    BY <2>5, <2>7, <2>8, Counters
  <2>. QED
    BY <2>2, <2>6, <2>9
<1>5. Mongo!NormalizeConnectionID(Mongo!ConnectionID[4]) = Mongo!ServerOf[4]
  <2>. DEFINE id == <<"[", "v6", "]">>
  <2>1. /\ id \in Seq(Words) /\ Len(id) = 3
        /\ id[1] = "[" /\ id[2] = "v6" /\ id[3] = "]"
    BY DEF Words
  <2>2. Mongo!ConnectionID[4] = id /\ Mongo!ServerOf[4] = id
    BY DEF Mongo!ConnectionID, Mongo!ServerOf
  <2>. HIDE DEF id
  <2>3. 1 \in 1..Len(id) /\ \A i \in 1..Len(id) : i > 1 => id[i] # "["
    BY <2>1
  <2>4. Mongo!SelectLastInSeq(id, LAMBDA w : w = "[") = 1
    BY <2>1, <2>3, LastBracket
  <2>. QED
    BY <2>1, <2>2, <2>4 DEF Mongo!NormalizeConnectionID
<1>6. Mongo!NormalizeConnectionID(Mongo!ConnectionID[5]) = Mongo!ServerOf[5]
  <2>. DEFINE id == <<"path", "[", "-", "x", "]">>
  <2>1. /\ id \in Seq(Words) /\ Len(id) = 5
        /\ id[1] = "path" /\ id[2] = "[" /\ id[3] = "-" /\ id[4] = "x" /\ id[5] = "]"
    BY DEF Words
  <2>2. Mongo!ConnectionID[5] = id /\ Mongo!ServerOf[5] = id
    BY DEF Mongo!ConnectionID, Mongo!ServerOf
  <2>. HIDE DEF id
  <2>3. 2 \in 1..Len(id) /\ \A i \in 1..Len(id) : i > 2 => id[i] # "["
    BY <2>1
  <2>4. Mongo!SelectLastInSeq(id, LAMBDA w : w = "[") = 2 /\ Mongo!Last(id) = "]"
    BY <2>1, <2>3, LastBracket DEF Mongo!Last
  <2>5. SubSeq(id, 3, 4) = <<"-", "x">>
    BY <2>1, TwoWords
  <2>7. Mongo!NormalizeConnectionID(id) =
          IF 2 > 1 /\ Mongo!IsConnectionCounter(SubSeq(id, 2 + 1, 5 - 1))
          THEN SubSeq(id, 1, 2 - 1) ELSE id
    BY <2>1, <2>4 DEF Mongo!NormalizeConnectionID
  <2>8. 2 + 1 = 3 /\ 5 - 1 = 4
    OBVIOUS
  <2>. QED
    BY <2>2, <2>5, <2>7, <2>8, Counters
<1>. QED
  BY <1>1, <1>2, <1>3, <1>4, <1>5, <1>6

Running == {r \in DOMAIN commands : ~commands[r].over}
Over == {r \in DOMAIN commands : commands[r].over}

\* The span of request r: its key while it is open, and what it says once it ended.
SpanOf(r) == [id |-> Mongo!ServerOf[commands[r].conn], request |-> r]
EndOf(r) == [request |-> r, peer |-> Mongo!ServerOf[commands[r].conn]]

MongoType ==
  /\ monitor \in Seq(0..MaxInstruments) /\ instruments \in 0..MaxInstruments
  /\ trackers \subseteq 1..instruments
  /\ commands \in Seq([conn : Mongo!Conns, over : BOOLEAN])
  /\ DOMAIN spans = 1..MaxInstruments /\ DOMAIN ended = 1..MaxInstruments
  /\ appSaw \in Seq(Mongo!Range(Mongo!ConnectionID))

\* No command before the client is there.
Silent ==
  mongoPc # "connected" =>
    /\ commands = <<>> /\ appSaw = <<>>
    /\ \A k \in 1..MaxInstruments : spans[k] = {} /\ ended[k] = {}

\* Each monitor of the SDK holds the spans of the commands that run, and ended
\* the others'.
Correlated ==
  \A k \in Mongo!Sdk :
    spans[k] = {SpanOf(r) : r \in Running} /\ ended[k] = {EndOf(r) : r \in Over}

\* The application's monitor saw each command start, and end.
Seen == 0 \in Mongo!Range(monitor) => Len(appSaw) = Len(commands) + Cardinality(Over)

MongoInv ==
  MongoType /\ Silent /\ Correlated /\ Seen /\ (mongoPc = "failed" => trackers = {})

\* The invariant holds of fresh options.
LEMMA MongoInit == Mongo!Init => MongoInv
<1>. SUFFICES ASSUME Mongo!Init PROVE MongoInv
  OBVIOUS
<1>0. monitor \in Seq(0..MaxInstruments)
  <2>1. monitor = <<>> \/ monitor = <<0>>
    BY DEF Mongo!Init, Mongo!App
  <2>2. 0 \in 0..MaxInstruments
    BY InstrumentAssumption
  <2>3. <<0>> \in Seq(0..MaxInstruments)
    BY <2>2
  <2>4. <<>> \in Seq(0..MaxInstruments)
    OBVIOUS
  <2>. QED
    BY <2>1, <2>3, <2>4
<1>1. /\ mongoPc = "options" /\ instruments = 0 /\ trackers = {}
      /\ commands = <<>> /\ appSaw = <<>>
      /\ DOMAIN spans = 1..MaxInstruments /\ DOMAIN ended = 1..MaxInstruments
      /\ \A k \in 1..MaxInstruments : spans[k] = {} /\ ended[k] = {}
  BY DEF Mongo!Init
<1>2. Running = {} /\ Over = {}
  BY <1>1 DEF Running, Over
<1>3. Mongo!Sdk \subseteq 1..MaxInstruments
  BY <1>0, InstrumentAssumption DEF Mongo!Sdk, Mongo!Range, Mongo!App
<1>4. MongoType
  BY <1>0, <1>1, InstrumentAssumption DEF MongoType
<1>5. Silent
  BY <1>1 DEF Silent
<1>6. Correlated
  BY <1>1, <1>2, <1>3 DEF Correlated
<1>7. Seen
  BY <1>1, <1>2, FS_EmptySet DEF Seen
<1>. QED
  BY <1>1, <1>4, <1>5, <1>6, <1>7 DEF MongoInv

\* While the options are built no command is there to be correlated.
LEMMA MongoOptions ==
  ASSUME MongoInv, mongoPc = "options",
         monitor' \in Seq(0..MaxInstruments), instruments' \in 0..MaxInstruments,
         trackers' \subseteq 1..instruments', mongoPc' = "failed" => trackers' = {},
         UNCHANGED <<commands, spans, ended, appSaw>>
  PROVE  MongoInv'
<1>1. /\ commands' = <<>> /\ appSaw' = <<>> /\ spans' = spans /\ ended' = ended
      /\ \A k \in 1..MaxInstruments : spans'[k] = {} /\ ended'[k] = {}
  BY DEF MongoInv, Silent
<1>2. Running' = {} /\ Over' = {}
  BY <1>1 DEF Running, Over
<1>3. Mongo!Sdk' \subseteq 1..MaxInstruments
  BY InstrumentAssumption DEF Mongo!Sdk, Mongo!Range, Mongo!App
<1>4. MongoType'
  BY DEF MongoInv, MongoType
<1>5. Silent'
  BY <1>1 DEF Silent
<1>6. Correlated'
  BY <1>1, <1>2, <1>3 DEF Correlated
<1>7. Seen'
  BY <1>1, <1>2, FS_EmptySet DEF Seen
<1>. QED
  BY <1>4, <1>5, <1>6, <1>7 DEF MongoInv

\* The requests so far.
LEMMA Requests ==
  ASSUME MongoType
  PROVE  /\ DOMAIN commands = 1..Len(commands) /\ Len(commands) \in Nat
         /\ IsFiniteSet(Running) /\ IsFiniteSet(Over)
         /\ Cardinality(Running) \in Nat /\ Cardinality(Over) \in Nat
         /\ Cardinality(Running) + Cardinality(Over) = Len(commands)
<1>1. DOMAIN commands = 1..Len(commands) /\ Len(commands) \in Nat
  BY DEF MongoType
<1>2. IsFiniteSet(1..Len(commands)) /\ Cardinality(1..Len(commands)) = Len(commands)
  <2>1. 1 \in Int /\ Len(commands) \in Int
    BY <1>1
  <2>2. /\ IsFiniteSet(1..Len(commands))
        /\ Cardinality(1..Len(commands)) = IF 1 > Len(commands) THEN 0 ELSE Len(commands) - 1 + 1
    BY <2>1, FS_Interval, Zenon
  <2>. QED
    BY <1>1, <2>2
<1>3. Running \in SUBSET (1..Len(commands)) /\ Over \in SUBSET (1..Len(commands))
  BY <1>1 DEF Running, Over
<1>4. IsFiniteSet(Running) /\ IsFiniteSet(Over)
  BY <1>2, <1>3, FS_Subset
<1>5. Cardinality(Running) \in Nat /\ Cardinality(Over) \in Nat
  BY <1>4, FS_CardinalityType
<1>6. Running \cup Over = 1..Len(commands) /\ Running \cap Over = {}
  BY <1>1 DEF Running, Over
<1>7. Cardinality(Running \cup Over) = Cardinality(Running) + Cardinality(Over) - Cardinality({})
  BY <1>4, <1>6, FS_Union
<1>8. Cardinality({}) = 0
  BY FS_EmptySet
<1>9. Len(commands) = Cardinality(Running) + Cardinality(Over) - 0
  BY <1>2, <1>6, <1>7, <1>8, Zenon
<1>10. Cardinality(Running) + Cardinality(Over) = Len(commands)
  BY <1>5, <1>9
<1>. QED
  BY <1>1, <1>4, <1>5, <1>10, Zenon

\* A command starts.
LEMMA MongoStarted ==
  ASSUME MongoInv, NEW c \in Mongo!Conns, Mongo!Started(c)
  PROVE  MongoInv'
<1>0. PICK n : n = Len(commands) + 1
  OBVIOUS
<1>1. /\ commands \in Seq([conn : Mongo!Conns, over : BOOLEAN]) /\ appSaw \in Seq(Mongo!Range(Mongo!ConnectionID))
      /\ Len(commands) \in Nat /\ DOMAIN commands = 1..Len(commands)
  BY DEF MongoInv, MongoType
<1>2. /\ commands' \in Seq([conn : Mongo!Conns, over : BOOLEAN]) /\ Len(commands') = n
      /\ DOMAIN commands' = 1..n
      /\ \A r \in 1..Len(commands) : commands'[r] = commands[r]
      /\ commands'[n] = [conn |-> c, over |-> FALSE]
  BY <1>0, <1>1 DEF Mongo!Started
<1>3. Running' = Running \cup {n} /\ Over' = Over /\ n \notin Running
  BY <1>0, <1>1, <1>2 DEF Running, Over
<1>4. /\ \A r \in Running : SpanOf(r)' = SpanOf(r)
      /\ \A r \in Over : EndOf(r)' = EndOf(r)
      /\ SpanOf(n)' = [id |-> Mongo!ServerOf[c], request |-> n]
  BY <1>1, <1>2 DEF Running, Over, SpanOf, EndOf
<1>5. Mongo!StartedEvent(c) = Mongo!ServerOf[c]
  BY ServerNames DEF Mongo!StartedEvent
<1>6. Mongo!Sdk' = Mongo!Sdk /\ Mongo!Sdk \subseteq 1..MaxInstruments
  BY InstrumentAssumption DEF Mongo!Started, Mongo!Sdk, Mongo!Range, Mongo!App, MongoInv, MongoType
<1>7. /\ DOMAIN spans' = DOMAIN spans /\ ended' = ended
      /\ \A k \in Mongo!Sdk : spans'[k] = spans[k] \cup {SpanOf(n)'}
  <2>1. DOMAIN spans = 1..MaxInstruments
    BY DEF MongoInv, MongoType
  <2>. QED
    BY <1>2, <1>4, <1>5, <1>6, <2>1 DEF Mongo!Started
<1>8. Correlated'
  <2>. SUFFICES ASSUME NEW k \in Mongo!Sdk
               PROVE  spans'[k] = {SpanOf(r)' : r \in Running'} /\ ended'[k] = {EndOf(r)' : r \in Over'}
    BY <1>6 DEF Correlated
  <2>1. spans[k] = {SpanOf(r) : r \in Running} /\ ended[k] = {EndOf(r) : r \in Over}
    BY DEF MongoInv, Correlated
  <2>2. {SpanOf(r) : r \in Running} = {SpanOf(r)' : r \in Running}
    BY <1>4
  <2>3. {EndOf(r) : r \in Over} = {EndOf(r)' : r \in Over}
    BY <1>4
  <2>4. {SpanOf(r)' : r \in Running'} = {SpanOf(r)' : r \in Running} \cup {SpanOf(n)'}
    BY <1>3
  <2>. QED
    BY <1>3, <1>7, <2>1, <2>2, <2>3, <2>4
<1>9. MongoType'
  <2>1. appSaw' \in Seq(Mongo!Range(Mongo!ConnectionID))
    BY <1>1 DEF Mongo!Started, Mongo!Range, Mongo!Conns
  <2>2. UNCHANGED <<monitor, trackers, instruments>>
    BY DEF Mongo!Started
  <2>. QED
    BY <1>2, <1>7, <2>1, <2>2 DEF MongoInv, MongoType
<1>10. mongoPc' = "connected"
  BY DEF Mongo!Started
<1>11. Seen'
  <2>. SUFFICES ASSUME 0 \in Mongo!Range(monitor)'
               PROVE  Len(appSaw') = n + Cardinality(Over)
    BY <1>2, <1>3 DEF Seen
  <2>1. 0 \in Mongo!Range(monitor) /\ appSaw' = Append(appSaw, Mongo!ConnectionID[c])
    BY DEF Mongo!Started, Mongo!App
  <2>2. Len(appSaw) = Len(commands) + Cardinality(Over)
    BY <2>1 DEF MongoInv, Seen
  <2>3. Len(appSaw') = Len(appSaw) + 1
    BY <1>1, <2>1
  <2>4. Cardinality(Over) \in Nat
    BY Requests DEF MongoInv
  <2>. QED
    BY <1>0, <1>1, <2>2, <2>3, <2>4
<1>. QED
  BY <1>8, <1>9, <1>10, <1>11 DEF MongoInv, Silent

\* A command ends.
LEMMA MongoFinished ==
  ASSUME MongoInv, NEW r \in DOMAIN commands, Mongo!Finished(r)
  PROVE  MongoInv'
<1>. DEFINE c == commands[r].conn
<1>1. /\ commands \in Seq([conn : Mongo!Conns, over : BOOLEAN]) /\ appSaw \in Seq(Mongo!Range(Mongo!ConnectionID))
      /\ Len(commands) \in Nat /\ DOMAIN commands = 1..Len(commands) /\ r \in 1..Len(commands)
      /\ commands[r] \in [conn : Mongo!Conns, over : BOOLEAN] /\ c \in Mongo!Conns /\ ~commands[r].over
  <2>1. /\ commands \in Seq([conn : Mongo!Conns, over : BOOLEAN])
        /\ appSaw \in Seq(Mongo!Range(Mongo!ConnectionID))
    BY DEF MongoInv, MongoType
  <2>2. Len(commands) \in Nat /\ DOMAIN commands = 1..Len(commands)
    BY <2>1
  <2>3. commands[r] \in [conn : Mongo!Conns, over : BOOLEAN]
    BY <2>1, <2>2, ElementOfSeq, Zenon
  <2>4. ~commands[r].over
    BY DEF Mongo!Finished
  <2>. QED
    BY <2>1, <2>2, <2>3, <2>4
<1>2. /\ commands' \in Seq([conn : Mongo!Conns, over : BOOLEAN]) /\ Len(commands') = Len(commands)
      /\ DOMAIN commands' = DOMAIN commands
      /\ \A x \in DOMAIN commands : x # r => commands'[x] = commands[x]
      /\ \A x \in DOMAIN commands : commands'[x].conn = commands[x].conn
      /\ commands'[r].over
  <2>. DEFINE done == [commands[r] EXCEPT !.over = TRUE]
  <2>1. done \in [conn : Mongo!Conns, over : BOOLEAN]
    BY <1>1
  <2>2. commands' = [commands EXCEPT ![r] = done]
    BY <1>1 DEF Mongo!Finished
  <2>3. done.over /\ done.conn = commands[r].conn
    BY <1>1
  <2>. HIDE DEF done
  <2>. QED
    BY <1>1, <2>1, <2>2, <2>3
<1>3. Running' = Running \ {r} /\ Over' = Over \cup {r} /\ r \in Running /\ r \notin Over
  BY <1>1, <1>2 DEF Running, Over
<1>4. /\ \A x \in DOMAIN commands : SpanOf(x)' = SpanOf(x)
      /\ \A x \in DOMAIN commands : EndOf(x)' = EndOf(x)
  BY <1>1, <1>2 DEF SpanOf, EndOf
<1>5. Mongo!FinishedEvent(c) = Mongo!ServerOf[c]
  BY <1>1, ServerNames DEF Mongo!FinishedEvent
<1>6. Mongo!Sdk' = Mongo!Sdk /\ Mongo!Sdk \subseteq 1..MaxInstruments
  BY InstrumentAssumption DEF Mongo!Finished, Mongo!Sdk, Mongo!Range, Mongo!App, MongoInv, MongoType
<1>. DEFINE found(k) == {s \in spans[k] : s.id = Mongo!ServerOf[c] /\ s.request = r}
<1>7. /\ DOMAIN spans' = DOMAIN spans /\ DOMAIN ended' = DOMAIN ended
      /\ \A k \in Mongo!Sdk :
           /\ spans'[k] = spans[k] \ found(k)
           /\ ended'[k] = ended[k] \cup {[request |-> s.request, peer |-> s.id] : s \in found(k)}
  <2>1. DOMAIN spans = 1..MaxInstruments /\ DOMAIN ended = 1..MaxInstruments
    BY DEF MongoInv, MongoType
  <2>. QED
    BY <1>5, <1>6, <2>1 DEF Mongo!Finished
<1>8. Correlated'
  <2>. SUFFICES ASSUME NEW k \in Mongo!Sdk
               PROVE  spans'[k] = {SpanOf(x)' : x \in Running'} /\ ended'[k] = {EndOf(x)' : x \in Over'}
    BY <1>6 DEF Correlated
  <2>1. spans[k] = {SpanOf(x) : x \in Running} /\ ended[k] = {EndOf(x) : x \in Over}
    BY DEF MongoInv, Correlated
  <2>2. found(k) = {SpanOf(r)}
    BY <1>3, <2>1 DEF SpanOf
  <2>3. \A x \in Running : SpanOf(x) = SpanOf(r) <=> x = r
    BY DEF SpanOf
  <2>4. {SpanOf(x)' : x \in Running'} = {SpanOf(x) : x \in Running \ {r}}
    BY <1>3, <1>4 DEF Running
  <2>5. {EndOf(x)' : x \in Over'} = {EndOf(x) : x \in Over \cup {r}}
    BY <1>3, <1>4 DEF Over
  <2>6. spans'[k] = {SpanOf(x)' : x \in Running'}
    BY <1>7, <2>1, <2>2, <2>3, <2>4
  <2>7. {[request |-> s.request, peer |-> s.id] : s \in found(k)} = {EndOf(r)}
    BY <2>2 DEF SpanOf, EndOf
  <2>8. {EndOf(x) : x \in Over \cup {r}} = {EndOf(x) : x \in Over} \cup {EndOf(r)}
    OBVIOUS
  <2>. QED
    BY <1>7, <2>1, <2>5, <2>6, <2>7, <2>8
<1>9. MongoType'
  <2>1. appSaw' \in Seq(Mongo!Range(Mongo!ConnectionID))
    BY <1>1 DEF Mongo!Finished, Mongo!Range, Mongo!Conns
  <2>2. UNCHANGED <<monitor, trackers, instruments>>
    BY DEF Mongo!Finished
  <2>. QED
    BY <1>2, <1>7, <2>1, <2>2 DEF MongoInv, MongoType
<1>10. mongoPc' = mongoPc /\ mongoPc = "connected" /\ trackers' = trackers
  BY <1>1 DEF Mongo!Finished, MongoInv, Silent
<1>11. Seen'
  <2>. SUFFICES ASSUME 0 \in Mongo!Range(monitor)'
               PROVE  Len(appSaw') = Len(commands) + Cardinality(Over')
    BY <1>2 DEF Seen
  <2>1. 0 \in Mongo!Range(monitor) /\ appSaw' = Append(appSaw, Mongo!ConnectionID[c])
    BY DEF Mongo!Finished, Mongo!App
  <2>2. Len(appSaw) = Len(commands) + Cardinality(Over)
    BY <2>1 DEF MongoInv, Seen
  <2>3. Len(appSaw') = Len(appSaw) + 1
    BY <1>1, <2>1
  <2>4. Cardinality(Over) \in Nat /\ IsFiniteSet(Over)
    BY Requests DEF MongoInv
  <2>5. Cardinality(Over') = Cardinality(Over) + 1
    BY <1>3, <2>4, FS_AddElement
  <2>. QED
    BY <1>1, <2>2, <2>3, <2>4, <2>5
<1>. QED
  BY <1>8, <1>9, <1>10, <1>11 DEF MongoInv, Silent

\* Every step keeps the invariant.
LEMMA MongoNext == MongoInv /\ [Mongo!Next]_Mongo!vars => MongoInv'
<1>. SUFFICES ASSUME MongoInv, [Mongo!Next]_Mongo!vars PROVE MongoInv'
  OBVIOUS
<1>0. /\ monitor \in Seq(0..MaxInstruments) /\ instruments \in 0..MaxInstruments
      /\ trackers \subseteq 1..instruments
  BY DEF MongoInv, MongoType
<1>1. CASE Mongo!Instrument
  <2>1. instruments' = instruments + 1 /\ instruments' \in 1..MaxInstruments
    BY <1>0, <1>1, InstrumentAssumption DEF Mongo!Instrument
  <2>2. <<instruments'>> \in Seq(0..MaxInstruments)
    BY <2>1, InstrumentAssumption
  <2>3. monitor' \in Seq(0..MaxInstruments)
    <3>1. CASE monitor' = monitor
      BY <1>0, <3>1
    <3>2. CASE monitor' = monitor \o <<instruments'>>
      BY <1>0, <2>2, <3>2, ConcatProperties
    <3>. QED
      BY <1>1, <3>1, <3>2 DEF Mongo!Instrument, Mongo!Compose
  <2>4. trackers' \subseteq 1..instruments'
    <3>1. trackers' \subseteq trackers \cup {instruments'}
      BY <1>1 DEF Mongo!Instrument
    <3>. QED
      BY <1>0, <2>1, <3>1
  <2>. QED
    BY <1>1, <2>1, <2>3, <2>4, MongoOptions, InstrumentAssumption DEF Mongo!Instrument
<1>2. CASE Mongo!SetMonitor
  <2>1. monitor' \in Seq(0..MaxInstruments)
    BY <1>2, InstrumentAssumption DEF Mongo!SetMonitor, Mongo!App
  <2>. QED
    BY <1>0, <1>2, <2>1, MongoOptions DEF Mongo!SetMonitor
<1>3. CASE Mongo!DriverConnect
  BY <1>0, <1>3, MongoOptions DEF Mongo!DriverConnect
<1>4. CASE Mongo!Connect
  <2>1. monitor' \in Seq(0..MaxInstruments) /\ instruments' \in 0..MaxInstruments
    <3>1. <<1>> \in Seq(0..MaxInstruments) /\ 1 \in 0..MaxInstruments
      BY InstrumentAssumption
    <3>. QED
      BY <1>0, <1>4, <3>1 DEF Mongo!Connect
  <2>2. trackers' \subseteq 1..instruments' /\ (mongoPc' = "failed" => trackers' = {})
    <3>1. trackers = {}
      BY <1>0, <1>4 DEF Mongo!Connect
    <3>2. \/ trackers' = {1} /\ instruments' = 1 /\ mongoPc' = "connected"
          \/ trackers' = {}
      BY <1>4, <3>1 DEF Mongo!Connect
    <3>. QED
      BY <3>2
  <2>. QED
    BY <1>4, <2>1, <2>2, MongoOptions DEF Mongo!Connect
<1>5. ASSUME NEW k \in trackers, Mongo!Cleanup(k) PROVE MongoInv'
  <2>1. trackers' \subseteq trackers /\ UNCHANGED <<mongoPc, monitor, instruments, commands, spans, ended, appSaw>>
    BY <1>5 DEF Mongo!Cleanup
  <2>. QED
    BY <2>1 DEF MongoInv, MongoType, Silent, Correlated, Seen, Mongo!Sdk, Mongo!Range, Running, Over, SpanOf, EndOf
<1>6. ASSUME NEW c \in Mongo!Conns, Mongo!Started(c) PROVE MongoInv'
  BY <1>6, MongoStarted
<1>7. ASSUME NEW r \in DOMAIN commands, Mongo!Finished(r) PROVE MongoInv'
  BY <1>7, MongoFinished
<1>8. CASE UNCHANGED Mongo!vars
  BY <1>8 DEF Mongo!vars, MongoInv, MongoType, Silent, Correlated, Seen, Mongo!Sdk, Mongo!Range, Running, Over,
              SpanOf, EndOf
<1>. QED
  BY <1>1, <1>2, <1>3, <1>4, <1>5, <1>6, <1>7, <1>8 DEF Mongo!Next

\* The component's Cardinality is the library's.
LEMMA MongoCardinality == ASSUME NEW S PROVE Mongo!Cardinality(S) = Cardinality(S)
  BY DEF Mongo!Cardinality, Cardinality

\* As many spans as commands that run, and ends as commands that are over.
LEMMA OneSpanEach ==
  ASSUME MongoType
  PROVE  /\ Cardinality({SpanOf(r) : r \in Running}) = Cardinality(Running)
         /\ Cardinality({EndOf(r) : r \in Over}) = Cardinality(Over)
<1>1. IsFiniteSet(Running) /\ IsFiniteSet(Over)
  BY Requests
<1>2. ExistsBijection(Running, {SpanOf(r) : r \in Running})
  <2>. DEFINE T == {SpanOf(r) : r \in Running}
             f == [r \in Running |-> SpanOf(r)]
  <2>1. f \in [Running -> T] /\ \A t \in T : \E r \in Running : f[r] = t
    OBVIOUS
  <2>2. \A a, b \in Running : f[a] = f[b] => a = b
    BY DEF SpanOf
  <2>. HIDE DEF T, f
  <2>3. f \in Bijection(Running, T)
    BY <2>1, <2>2 DEF Bijection, Injection, Surjection, IsInjective
  <2>. QED
    BY <2>3 DEF ExistsBijection, T
<1>3. ExistsBijection(Over, {EndOf(r) : r \in Over})
  <2>. DEFINE T == {EndOf(r) : r \in Over}
             f == [r \in Over |-> EndOf(r)]
  <2>1. f \in [Over -> T] /\ \A t \in T : \E r \in Over : f[r] = t
    OBVIOUS
  <2>2. \A a, b \in Over : f[a] = f[b] => a = b
    BY DEF EndOf
  <2>. HIDE DEF T, f
  <2>3. f \in Bijection(Over, T)
    BY <2>1, <2>2 DEF Bijection, Injection, Surjection, IsInjective
  <2>. QED
    BY <2>3 DEF ExistsBijection, T
<1>. QED
  BY <1>1, <1>2, <1>3, FS_Bijection

\* The invariant says what the property does.
LEMMA MongoCorrelates == MongoInv => CommandsCorrelate
<1>. SUFFICES ASSUME MongoInv PROVE Mongo!CommandsCorrelate
  BY DEF CommandsCorrelate
<1>1. MongoType
  BY DEF MongoInv
<1>2. ASSUME NEW k \in Mongo!Sdk
      PROVE  /\ {s.request : s \in spans[k]} = {r \in DOMAIN commands : ~commands[r].over}
             /\ Cardinality(spans[k]) + Cardinality(ended[k]) = Len(commands)
             /\ ended[k] = {[request |-> r, peer |-> Mongo!ServerOf[commands[r].conn]] :
                              r \in {x \in DOMAIN commands : commands[x].over}}
  <2>1. spans[k] = {SpanOf(r) : r \in Running} /\ ended[k] = {EndOf(r) : r \in Over}
    BY <1>2 DEF MongoInv, Correlated
  <2>2. Cardinality(spans[k]) + Cardinality(ended[k]) = Len(commands)
    BY <1>1, <2>1, OneSpanEach, Requests
  <2>3. {s.request : s \in spans[k]} = Running
    <3>1. \A r \in Running : SpanOf(r).request = r
      BY DEF SpanOf
    <3>. QED
      BY <2>1, <3>1
  <2>. QED
    BY <2>1, <2>2, <2>3 DEF Running, Over, EndOf
<1>3. Mongo!Range(appSaw) \subseteq Mongo!Range(Mongo!ConnectionID)
  <2>1. appSaw \in Seq(Mongo!Range(Mongo!ConnectionID))
    BY <1>1 DEF MongoType
  <2>2. \A i \in DOMAIN appSaw : appSaw[i] \in Mongo!Range(Mongo!ConnectionID)
    BY <2>1
  <2>3. \A x \in Mongo!Range(appSaw) : \E i \in DOMAIN appSaw : x = appSaw[i]
    BY DEF Mongo!Range
  <2>. QED
    BY <2>2, <2>3
<1>4. 0 \in Mongo!Range(monitor) =>
        Len(appSaw) = Len(commands) + Cardinality({r \in DOMAIN commands : commands[r].over})
  BY DEF MongoInv, Seen, Over
<1>5. mongoPc = "failed" => trackers = {}
  BY DEF MongoInv
<1>. QED
  BY <1>2, <1>3, <1>4, <1>5, MongoCardinality DEF Mongo!CommandsCorrelate, Mongo!App

\* However commands overlap on connections that share a name, each has its own open
\* span with each of the SDK's monitors, and then its own ended one that names the server.
THEOREM CommandsTheorem == Mongo!Spec => []CommandsCorrelate
<1>1. MongoInv /\ [Mongo!Next]_Mongo!vars => MongoInv'
  BY MongoNext
<1>. QED
  BY MongoInit, <1>1, MongoCorrelates, PTL DEF Mongo!Spec
=============================================================================
