--------------------------- MODULE UdpTremu_proofs ---------------------------
(***************************************************************************)
(* Proofs about the traffic emulator, for words of any width, any command  *)
(* lines and any number of runs, packets and duplicates.                   *)
(*                                                                         *)
(* The invariant says how far a client has come whose counter cannot wrap  *)
(* (Sending), that the packets of a run agree on its bounds and lie within *)
(* them (OfRuns), and that the rows are the first packets of their numbers *)
(* with the times at which these came (RowsOK).  What a command line gives   *)
(* and that rows can be put in order is shown by induction, from the least *)
(* number for which it would fail (Least).                                 *)
(***************************************************************************)
EXTENDS UdpTremu, SequenceTheorems, FiniteSetTheorems, WellFoundedInduction, TLAPS

-----------------------------------------------------------------------------
\* A set of natural numbers with a member has a least one.
LEMMA Least ==
  ASSUME NEW S \in SUBSET Nat, S # {}
  PROVE  \E n \in S : \A k \in S : n <= k
<1>1. PICK n \in S : \A k \in S : ~(<<k, n>> \in OpToRel(<, Nat))
  BY NatLessThanWellFounded, WFMin, Zenon
<1>2. \A k \in S : ~(k < n) BY <1>1 DEF OpToRel
<1> QED BY <1>2

\* What a step from each number of 0 .. n to the next keeps, holds of them all.
LEMMA Steps ==
  ASSUME NEW n \in Nat, NEW S, 0 \in S, \A k \in 1 .. n : k - 1 \in S => k \in S
  PROVE  0 .. n \subseteq S
<1> DEFINE Bad == {k \in 0 .. n : k \notin S}
<1> SUFFICES ASSUME Bad # {} PROVE FALSE OBVIOUS
<1>1. PICK k \in Bad : \A l \in Bad : k <= l
  <2>1. Bad \in SUBSET Nat OBVIOUS
  <2> HIDE DEF Bad
  <2> QED BY <2>1, Least
<1>2. k \in 1 .. n /\ k \notin S BY <1>1
<1>3. k - 1 \in 0 .. n /\ ~(k <= k - 1) BY <1>2
<1>4. k - 1 \in S BY <1>1, <1>3
<1> QED BY <1>2, <1>4

-----------------------------------------------------------------------------
(***************************************************************************)
(* The command line.                                                       *)
(***************************************************************************)
Fields == {"serverPort", "serverAddr", "localPort", "localAddr", "count", "interval",
           "statsTimeout", "onTimeLimit", "latencyLimit", "pktSize", "firstId"}
Flags == {"help", "serverMode"}

\* What the proofs need of options read so far.
Options ==
  [localAddr: STRING \cup {""}, serverAddr: STRING \cup {""}, localPort: Nat, serverPort: Nat,
   count: 0 .. W - 1, firstId: 0 .. W - 1, interval: Nat, pktSize: Nat, statsTimeout: Nat,
   onTimeLimit: Nat, latencyLimit: Nat,
   help: BOOLEAN, serverMode: BOOLEAN, error: BOOLEAN, want: Fields \cup {""}]

LEMMA Widths == W \in Nat /\ P \in Nat /\ W > 1 /\ P > 1
BY TremuAssumption

LEMMA Remainder ==
  ASSUME NEW n \in Int, NEW m \in Nat, m > 0
  PROVE  n % m \in 0 .. m - 1
OBVIOUS

LEMMA InWord ==
  ASSUME NEW n \in Nat, n < W
  PROVE  n % W = n
BY Widths

LEMMA WordDifference ==
  ASSUME NEW e \in Nat, e < W, NEW n \in Nat, n <= e
  PROVE  n % W = n /\ ((e % W) - (n % W)) % W = e - n
<1>1. e - n \in Nat /\ e - n < W /\ n < W BY Widths
<1>2. e % W = e /\ n % W = n BY <1>1, InWord
<1>3. (e - n) % W = e - n
  <2> DEFINE d == e - n
  <2>1. d \in Nat /\ d < W BY <1>1
  <2> HIDE DEF d
  <2>2. d % W = d BY <2>1, InWord
  <2> QED BY <2>2 DEF d
<1> QED BY <1>2, <1>3, Zenon

LEMMA DefaultOptions == Default \in Options
<1> DEFINE a == 54321 % P  b == 100 % W  c == 1000 % P  d == 128 % P  e == 5 % P
<1>1. b \in 0 .. W - 1 /\ 1 \in 0 .. W - 1 BY Widths, Remainder
<1>2. a \in Nat /\ c \in Nat /\ d \in Nat /\ e \in Nat BY Widths, Remainder
<1>3. Default = [localAddr |-> "", serverAddr |-> "", localPort |-> 0,
                 serverPort |-> a, count |-> b, firstId |-> 1, interval |-> c, pktSize |-> d,
                 statsTimeout |-> e, onTimeLimit |-> 1, latencyLimit |-> 1,
                 help |-> FALSE, serverMode |-> FALSE, error |-> FALSE, want |-> ""]
  BY DEF Default
<1> HIDE DEF a, b, c, d, e
<1> QED BY <1>1, <1>2, <1>3 DEF Options, Fields

LEMMA OptionFields ==
  \A tok : Option(tok) \in Fields \cup {""} /\ Flag(tok) \in Flags \cup {""}
BY DEF Option, Flag, Fields, Flags

LEMMA ValueType ==
  ASSUME NEW field, NEW tok, Number(field, tok) # {}
  PROVE  Value(field, tok) \in Nat /\ (field \in Words => Value(field, tok) \in 0 .. W - 1)
<1> DEFINE n == CHOOSE n \in Number(field, tok) : TRUE
<1>1. n \in Int BY TremuAssumption DEF Number
<1> HIDE DEF n
<1>2. n % W \in 0 .. W - 1 /\ n % P \in 0 .. P - 1 BY <1>1, Widths, Remainder
<1>3. Value(field, tok) = n % (IF field \in Words THEN W ELSE P) BY DEF n, Value
<1> QED BY <1>2, <1>3, Widths

LEMMA TokenOptions ==
  ASSUME NEW o \in Options, NEW tok \in STRING
  PROVE  Token(o, tok) \in Options
<1>1. CASE o.error BY <1>1 DEF Token
<1>2. CASE ~o.error /\ o.want = "localAddr" BY <1>2 DEF Token, Options
<1>3. CASE ~o.error /\ o.want = "serverAddr" BY <1>3 DEF Token, Options
<1>4. CASE ~o.error /\ o.want \in Fields \ {"localAddr", "serverAddr"} /\ Number(o.want, tok) = {}
  BY <1>4 DEF Token, Options, Fields
<1>5. CASE ~o.error /\ o.want \in Fields \ {"localAddr", "serverAddr"} /\ Number(o.want, tok) # {}
  <2> DEFINE v == Value(o.want, tok)
  <2>1. v \in Nat /\ (o.want \in Words => v \in 0 .. W - 1) BY <1>5, ValueType
  <2>2. Token(o, tok) = [o EXCEPT ![o.want] = v, !.want = ""] BY <1>5 DEF Token, Fields
  <2> HIDE DEF v
  <2>3. CASE o.want = "count" BY <2>1, <2>2, <2>3 DEF Options, Words
  <2>4. CASE o.want = "firstId" BY <2>1, <2>2, <2>4 DEF Options, Words
  <2>5. CASE o.want = "serverPort" BY <2>1, <2>2, <2>5 DEF Options
  <2>6. CASE o.want = "localPort" BY <2>1, <2>2, <2>6 DEF Options
  <2>7. CASE o.want = "interval" BY <2>1, <2>2, <2>7 DEF Options
  <2>8. CASE o.want = "statsTimeout" BY <2>1, <2>2, <2>8 DEF Options
  <2>9. CASE o.want = "onTimeLimit" BY <2>1, <2>2, <2>9 DEF Options
  <2>10. CASE o.want = "latencyLimit" BY <2>1, <2>2, <2>10 DEF Options
  <2>11. CASE o.want = "pktSize" BY <2>1, <2>2, <2>11 DEF Options
  <2> QED BY <1>5, <2>3, <2>4, <2>5, <2>6, <2>7, <2>8, <2>9, <2>10, <2>11 DEF Fields
<1>6. CASE ~o.error /\ o.want = "" /\ Option(tok) # ""
  <2>1. Token(o, tok) = [o EXCEPT !.want = Option(tok)] BY <1>6 DEF Token
  <2>2. Option(tok) \in Fields BY <1>6, OptionFields
  <2> QED BY <2>1, <2>2 DEF Options
<1>7. CASE ~o.error /\ o.want = "" /\ Option(tok) = "" /\ Flag(tok) # ""
  <2>1. Token(o, tok) = [o EXCEPT ![Flag(tok)] = TRUE] BY <1>7 DEF Token
  <2>2. Flag(tok) = "help" \/ Flag(tok) = "serverMode" BY <1>7, OptionFields DEF Flags
  <2>3. CASE Flag(tok) = "help" BY <2>1, <2>3 DEF Options
  <2>4. CASE Flag(tok) = "serverMode" BY <2>1, <2>4 DEF Options
  <2> QED BY <2>2, <2>3, <2>4
<1>8. CASE ~o.error /\ o.want = "" /\ Option(tok) = "" /\ Flag(tok) = ""
  <2>1. Token(o, tok) = [o EXCEPT !.error = tok # "-vv"] BY <1>8 DEF Token
  <2> QED BY <2>1 DEF Options
<1>9. o.want \in Fields \cup {""} BY DEF Options
<1> QED BY <1>1, <1>2, <1>3, <1>4, <1>5, <1>6, <1>7, <1>8, <1>9

\* The recursion over a line is defined, and what it reads are options.
LEMMA LineOptions ==
  ASSUME NEW line \in Seq(STRING)
  PROVE  ProgArgs(line) \in Options
<1> DEFINE n == Len(line)
           Reads(g, k) == /\ g \in [0 .. k -> Options] /\ g[0] = Default
                          /\ \A i \in 1 .. k : g[i] = Token(g[i - 1], line[i])
           Read == {k \in 0 .. n : \E g : Reads(g, k)}
<1>1. n \in Nat /\ \A i \in 1 .. n : line[i] \in STRING BY LenProperties
<1>2. 0 \in Read
  <2> DEFINE g == [i \in 0 .. 0 |-> Default]
  <2>1. Reads(g, 0) BY DefaultOptions
  <2> HIDE DEF g, Reads
  <2> QED BY <1>1, <2>1
<1>3. ASSUME NEW k \in 1 .. n, k - 1 \in Read PROVE k \in Read
  <2>1. PICK g : Reads(g, k - 1) BY <1>3
  <2> DEFINE h == [i \in 0 .. k |-> IF i = k THEN Token(g[k - 1], line[k]) ELSE g[i]]
  <2>2. \A i \in 0 .. k : i # k => i \in 0 .. k - 1 BY <1>1
  <2>3. k - 1 \in 0 .. k - 1 /\ 0 \in 0 .. k - 1 BY <1>1
  <2>4. g[k - 1] \in Options BY <2>1, <2>3
  <2>5. Token(g[k - 1], line[k]) \in Options BY <1>1, <2>4, TokenOptions
  <2>6. h \in [0 .. k -> Options] BY <2>1, <2>2, <2>5
  <2>7. h[0] = Default BY <2>1, <2>3, <1>1
  <2>8. ASSUME NEW i \in 1 .. k PROVE h[i] = Token(h[i - 1], line[i])
    <3>1. i - 1 \in 0 .. k /\ i - 1 # k /\ i \in 0 .. k BY <1>1
    <3>2. h[i - 1] = g[i - 1] BY <3>1
    <3>3. CASE i = k BY <3>1, <3>2, <3>3
    <3>4. CASE i # k
      <4>1. i \in 1 .. k - 1 BY <1>1, <3>4
      <4>2. g[i] = Token(g[i - 1], line[i]) BY <2>1, <4>1
      <4> QED BY <3>1, <3>2, <3>4, <4>2
    <3> QED BY <3>3, <3>4
  <2> HIDE DEF h
  <2>9. Reads(h, k) BY <2>6, <2>7, <2>8
  <2> HIDE DEF Reads
  <2> QED BY <2>9, <1>1
<1>4. n \in Read
  <2> HIDE DEF Read
  <2>1. 0 .. n \subseteq Read BY <1>1, <1>2, <1>3, Steps
  <2> QED BY <1>1, <2>1
<1> DEFINE Is(f) == f = [i \in 0 .. n |-> IF i = 0 THEN Default ELSE Token(f[i - 1], line[i])]
<1>5. \E f : Is(f)
  <2>1. PICK g : Reads(g, n) BY <1>4
  <2> DEFINE h == [i \in 0 .. n |-> IF i = 0 THEN Default ELSE Token(g[i - 1], line[i])]
  <2>2. \A i \in 0 .. n : g[i] = h[i] BY <1>1, <2>1
  <2>3. g = h BY <2>1, <2>2
  <2>4. Is(g) BY <2>3
  <2> QED BY <2>4
<1> DEFINE f == CHOOSE f : Is(f)
<1>6. Is(f) BY <1>5
<1>7. ProgArgs(line) = f[n] BY DEF ProgArgs
<1> HIDE DEF f
<1> DEFINE Good == {k \in 0 .. n : f[k] \in Options}
<1>8. 0 \in Good BY <1>1, <1>6, DefaultOptions
<1>9. ASSUME NEW k \in 1 .. n, k - 1 \in Good PROVE k \in Good
  <2>1. f[k] = Token(f[k - 1], line[k]) BY <1>1, <1>6
  <2>2. Token(f[k - 1], line[k]) \in Options BY <1>1, <1>9, TokenOptions
  <2> QED BY <1>1, <2>1, <2>2
<1>10. n \in Good
  <2> HIDE DEF Good
  <2>1. 0 .. n \subseteq Good BY <1>1, <1>8, <1>9, Steps
  <2> QED BY <1>1, <2>1
<1> QED BY <1>7, <1>10

\* The number after the last one may not fit the word.
LEMMA LastIdIs ==
  ASSUME NEW o, o.firstId \in 0 .. W - 1, o.count \in 0 .. W - 1
  PROVE  /\ LastId(o) \in 0 .. W - 1
         /\ LastId(o) # W - 1 /\ o.firstId <= LastId(o) => LastId(o) = o.firstId + o.count - 1
         /\ LastId(o) # W - 1 /\ o.firstId > LastId(o) => o.count = 0 \/ o.firstId + o.count > W
<1> DEFINE f == o.firstId  c == o.count
<1>1. f \in Nat /\ c \in Nat /\ f <= W - 1 /\ c <= W - 1 /\ W \in Nat /\ W > 1 BY Widths
<1>2. LastId(o) = (f + c - 1) % W BY DEF LastId
<1> HIDE DEF f, c
<1>3. (f + c - 1) % W \in 0 .. W - 1 BY <1>1
<1>4. f + c = 0 => (f + c - 1) % W = W - 1 BY <1>1
<1>5. f + c \in 1 .. W => (f + c - 1) % W = f + c - 1 BY <1>1
<1>6. f + c > W => (f + c - 1) % W = f + c - 1 - W BY <1>1
<1> QED BY <1>1, <1>2, <1>3, <1>4, <1>5, <1>6 DEF f, c

-----------------------------------------------------------------------------
(***************************************************************************)
(* The rows of a report.                                                   *)
(***************************************************************************)
Row == [id: 0 .. W - 1, run: 1 .. MaxRun, first: 0 .. W - 1, last: 0 .. W - 1, at: Int]

Sorted(r, S) == /\ r \in [1 .. Cardinality(S) -> S]
                /\ \A i, j \in DOMAIN r : i < j => r[i].id < r[j].id

OneRowPerId(S) == \A s, t \in S : s.id = t.id => s = t

\* Of some rows, one has the greatest number.
LEMMA GreatestRow ==
  ASSUME NEW S \in SUBSET Row, S # {}
  PROVE  \E m \in S : \A s \in S : s.id <= m.id
<1> DEFINE Over == {W - 1 - s.id : s \in S}
<1>1. \A s \in S : s.id \in Nat /\ s.id <= W - 1 BY Widths DEF Row
<1>2. Over \in SUBSET Nat /\ Over # {} BY <1>1, Widths
<1>3. PICK n \in Over : \A k \in Over : n <= k
  <2> HIDE DEF Over
  <2> QED BY <1>2, Least
<1>4. PICK m \in S : n = W - 1 - m.id BY <1>3
<1>5. ASSUME NEW s \in S PROVE s.id <= m.id
  <2>1. W - 1 - m.id <= W - 1 - s.id BY <1>3, <1>4
  <2> QED BY <2>1, <1>1, Widths
<1> QED BY <1>5

\* Rows of different numbers can be put in order.
LEMMA RowsSort ==
  ASSUME NEW S \in SUBSET Row, IsFiniteSet(S), OneRowPerId(S)
  PROVE  \E r : Sorted(r, S)
<1> DEFINE Bad == {n \in Nat : \E T \in SUBSET S : Cardinality(T) = n /\ ~ \E r : Sorted(r, T)}
<1> SUFFICES ASSUME Bad # {} PROVE FALSE
  <2>1. Cardinality(S) \in Nat BY FS_CardinalityType
  <2> QED BY <2>1
<1>1. PICK n \in Bad : \A k \in Bad : n <= k
  <2>1. Bad \in SUBSET Nat OBVIOUS
  <2> HIDE DEF Bad
  <2> QED BY <2>1, Least
<1>2. PICK T \in SUBSET S : Cardinality(T) = n /\ ~ \E r : Sorted(r, T) BY <1>1
<1>3. IsFiniteSet(T) /\ n \in Nat BY <1>1, FS_Subset
<1>4. T # {}
  <2> SUFFICES ASSUME T = {} PROVE FALSE OBVIOUS
  <2>1. Cardinality(T) = 0 BY FS_EmptySet
  <2>2. Sorted([i \in 1 .. 0 |-> 0], T) BY <2>1 DEF Sorted
  <2> QED BY <1>2, <2>2
<1>5. PICK m \in T : \A s \in T : s.id <= m.id
  <2>1. T \in SUBSET Row OBVIOUS
  <2> QED BY <1>4, <2>1, GreatestRow
<1> DEFINE U == T \ {m}
<1>6. IsFiniteSet(U) /\ Cardinality(U) = n - 1 /\ n - 1 \in Nat
  <2>1. IsFiniteSet(U) /\ Cardinality(U) = n - 1 BY <1>2, <1>3, FS_RemoveElement
  <2>2. Cardinality(U) \in Nat BY <2>1, FS_CardinalityType
  <2> QED BY <2>1, <2>2
<1>7. PICK q : Sorted(q, U)
  <2>1. U \in SUBSET S /\ ~(n <= n - 1) BY <1>3
  <2>2. n - 1 \notin Bad BY <1>1, <2>1
  <2> QED BY <1>6, <2>1, <2>2
<1> DEFINE r == [i \in 1 .. n |-> IF i = n THEN m ELSE q[i]]
<1>8. DOMAIN q = 1 .. n - 1 /\ \A i \in 1 .. n - 1 : q[i] \in U BY <1>6, <1>7 DEF Sorted
<1>9. \A i \in 1 .. n : i # n => i \in 1 .. n - 1 BY <1>3
<1>10. r \in [1 .. n -> T] BY <1>8, <1>9
<1>11. ASSUME NEW i \in 1 .. n, NEW j \in 1 .. n, i < j PROVE r[i].id < r[j].id
  <2>1. i # n /\ i \in 1 .. n - 1 BY <1>3, <1>11
  <2>2. r[i] = q[i] /\ q[i] \in U BY <2>1, <1>8
  <2>3. CASE j = n
    <3>1. q[i].id <= m.id /\ q[i].id # m.id BY <1>5, <2>2 DEF OneRowPerId
    <3>2. q[i].id \in Nat /\ m.id \in Nat BY <2>2, Widths DEF Row
    <3> QED BY <2>2, <2>3, <3>1, <3>2
  <2>4. CASE j # n
    <3>1. j \in 1 .. n - 1 BY <1>9, <2>4
    <3>2. q[i].id < q[j].id BY <1>7, <1>8, <1>11, <2>1, <3>1 DEF Sorted
    <3> QED BY <2>2, <2>4, <3>2
  <2> QED BY <2>3, <2>4
<1> HIDE DEF r
<1>12. DOMAIN r = 1 .. n BY <1>10
<1>13. Sorted(r, T) BY <1>2, <1>10, <1>11, <1>12 DEF Sorted
<1> QED BY <1>2, <1>13

LEMMA RowsSorted ==
  ASSUME stats \subseteq Row, IsFiniteSet(stats), OneRowPerId(stats)
  PROVE  /\ Cardinality(stats) \in Nat /\ Len(Rows) = Cardinality(stats)
         /\ \A i \in 1 .. Len(Rows) : Rows[i] \in stats
         /\ \A i, j \in 1 .. Len(Rows) : i < j => Rows[i].id < Rows[j].id
<1>1. \E r : Sorted(r, stats) BY RowsSort
<1>2. Sorted(Rows, stats) BY <1>1 DEF Sorted, Rows
<1>3. Cardinality(stats) \in Nat BY FS_CardinalityType
<1>4. DOMAIN Rows = 1 .. Cardinality(stats) /\ Rows \in Seq(stats) BY <1>2, <1>3 DEF Sorted
<1>5. Len(Rows) = Cardinality(stats) BY <1>3, <1>4, LenProperties
<1> QED BY <1>2, <1>3, <1>4, <1>5 DEF Sorted

-----------------------------------------------------------------------------
(***************************************************************************)
(* The invariant.                                                          *)
(***************************************************************************)
Pkt == [run: 1 .. MaxRun, id: 0 .. W - 1, first: 0 .. W - 1, last: 0 .. W - 1]

Types ==
  /\ srv \in [o: Options, epoch: 0 .. MaxRun, last: 0 .. MaxRun, on: BOOLEAN]
  /\ cl \in [o: Options, pc: {"off", "send", "done"}, run: 0 .. MaxRun, i: 0 .. W - 1,
             sent: SUBSET (0 .. W - 1), twice: BOOLEAN]
  /\ now \in Int /\ total \in Nat /\ since \in Seq(Row) /\ net \subseteq Pkt
  /\ cl.pc # "off" => cl.run >= 1

\* How far a client has come whose counter cannot wrap.
Sending ==
  LET first == cl.o.firstId  last == LastId(cl.o) IN
  /\ cl.pc = "done" => last # W - 1 /\ cl.i > last
  /\ cl.pc \in {"send", "done"} /\ last # W - 1 =>
       /\ ~cl.twice /\ cl.sent = first .. cl.i - 1
       /\ IF first <= last THEN cl.i \in first .. last + 1 ELSE cl.i = first

\* The packets on their way and those received since the last report.
Packets == net \cup {since[i] : i \in DOMAIN since}

\* A packet is of a run of the client, and within its bounds if its counter cannot wrap.
OfRun(p) ==
  /\ p.run <= cl.run
  /\ p.run = cl.run => p.first = cl.o.firstId /\ p.last = LastId(cl.o)
  /\ p.last # W - 1 => p.first <= p.id /\ p.id <= p.last

OfRuns ==
  /\ \A p \in Packets : OfRun(p)
  /\ \A p, q \in Packets : p.run = q.run => p.first = q.first /\ p.last = q.last

\* A row is the first packet of its number, with the time when that came.
IsFirst(i) == \A j \in DOMAIN since : j < i => since[j].id # since[i].id
RowOf(s, i) == IsFirst(i) /\ s = since[i]

RowsOK ==
  /\ IsFiniteSet(stats) /\ stats \subseteq Row /\ OneRowPerId(stats)
  /\ \A i \in DOMAIN since : \E s \in stats : s.id = since[i].id
  /\ \A s \in stats : \E i \in DOMAIN since : RowOf(s, i)

Counts == total = Len(since) /\ Cardinality(stats) <= total

IInv == Types /\ Sending /\ OfRuns /\ RowsOK /\ Counts

\* Packets received are packets.
LEMMA Heard ==
  ASSUME Types
  PROVE  /\ Len(since) \in Nat /\ DOMAIN since = 1 .. Len(since)
         /\ \A i \in DOMAIN since : since[i] \in Row
         /\ Packets \subseteq Pkt \cup Row
<1>1. Len(since) \in Nat /\ DOMAIN since = 1 .. Len(since) /\ \A i \in DOMAIN since : since[i] \in Row
  BY LenProperties DEF Types
<1> QED BY <1>1 DEF Types, Packets

LEMMA InvInit == Init => IInv
<1> SUFFICES ASSUME Init PROVE IInv OBVIOUS
<1>1. MaxRun \in Nat /\ W \in Nat /\ W > 1 BY TremuAssumption
<1>2. PICK line \in ServerLine : srv = [o |-> ProgArgs(line), epoch |-> 0, last |-> 0, on |-> TRUE] BY DEF Init
<1>3. ProgArgs(line) \in Options BY <1>2, TremuAssumption, LineOptions
<1>4. since \in Seq(Row) /\ Len(since) = 0 /\ DOMAIN since = {}
  <2>1. since = << >> BY DEF Init
  <2> QED BY <2>1
<1>5. Types BY <1>1, <1>2, <1>3, <1>4, DefaultOptions DEF Init, Types
<1>6. Sending BY DEF Init, Sending
<1>7. OfRuns BY <1>4 DEF Init, OfRuns, Packets
<1>8. RowsOK /\ Counts BY <1>4, FS_EmptySet DEF Init, RowsOK, Counts, OneRowPerId
<1> QED BY <1>5, <1>6, <1>7, <1>8 DEF IInv

LEMMA RowsUnmoved ==
  ASSUME IInv, stats' = stats, total' = total, now' = now, since' = since
  PROVE  RowsOK' /\ Counts'
<1>1. \A s, i : RowOf(s, i)' <=> RowOf(s, i) BY DEF RowOf, IsFirst
<1>2. RowsOK' BY <1>1 DEF IInv, RowsOK
<1> QED BY <1>2 DEF IInv, Counts

\* A new client: the packets are of runs before its own.
LEMMA KeptByClientStart == IInv /\ ClientStart => IInv'
<1> SUFFICES ASSUME IInv, ClientStart PROVE IInv' OBVIOUS
<1>1. MaxRun \in Nat BY TremuAssumption
<1>2. PICK line \in ClientLine :
        cl' = [o |-> ProgArgs(line),
               pc |-> IF Runs(ProgArgs(line)) /\ ~ProgArgs(line).serverMode THEN "send" ELSE "off",
               run |-> cl.run + 1, i |-> ProgArgs(line).firstId, sent |-> {}, twice |-> FALSE]
  BY DEF ClientStart
<1>3. ProgArgs(line) \in Options BY TremuAssumption, LineOptions
<1> DEFINE o == ProgArgs(line)
<1>4. o.firstId \in 0 .. W - 1 /\ o.count \in 0 .. W - 1 BY <1>3 DEF Options
<1>5. cl.run \in Nat /\ cl.run < MaxRun BY <1>1 DEF IInv, Types, ClientStart
<1>6. UNCHANGED <<srv, stats, total, now, since, net>> BY DEF ClientStart, serverVars
<1> HIDE DEF o
<1>7. Types' BY <1>1, <1>2, <1>3, <1>4, <1>5, <1>6 DEF IInv, Types, o
<1>8. Sending'
  <2>1. cl'.pc # "done" /\ cl'.o = o /\ cl'.sent = {} /\ cl'.i = o.firstId /\ ~cl'.twice BY <1>2 DEF o
  <2>2. LastId(o) \in 0 .. W - 1 BY <1>4, LastIdIs
  <2>3. {} = o.firstId .. o.firstId - 1 BY <1>4, Widths
  <2>4. o.firstId <= LastId(o) => o.firstId \in o.firstId .. LastId(o) + 1 BY <1>4, <2>2, Widths
  <2> QED BY <2>1, <2>3, <2>4 DEF Sending
<1>9. OfRuns'
  <2>1. Packets' = Packets BY <1>6 DEF Packets
  <2>2. \A p \in Packets : p.run \in Nat /\ p.run <= cl.run
    BY Heard, <1>1 DEF IInv, OfRuns, OfRun, Pkt, Row
  <2>3. cl'.run = cl.run + 1 BY <1>2
  <2>4. \A p \in Packets : p.run <= cl'.run /\ p.run # cl'.run BY <2>2, <2>3, <1>5
  <2> QED BY <2>1, <2>4 DEF IInv, OfRuns, OfRun
<1>10. RowsOK' /\ Counts' BY <1>6, RowsUnmoved
<1> QED BY <1>7, <1>8, <1>9, <1>10 DEF IInv

\* A packet sent has the next number.
LEMMA KeptBySend == IInv /\ Send => IInv'
<1> SUFFICES ASSUME IInv, Send PROVE IInv' OBVIOUS
<1>0. PICK o, first, last, i, p :
        o = cl.o /\ first = o.firstId /\ last = LastId(o) /\ i = cl.i /\ p = forgeNewPacket(i)
  OBVIOUS
<1>1. /\ o \in Options /\ first \in 0 .. W - 1 /\ o.count \in 0 .. W - 1 /\ i \in 0 .. W - 1
      /\ cl.run \in 1 .. MaxRun
  <2>1. cl.pc = "send" BY DEF Send
  <2>2. cl.run \in 0 .. MaxRun /\ cl.run >= 1 BY <2>1 DEF IInv, Types
  <2>3. cl.run \in 1 .. MaxRun BY <2>2, TremuAssumption
  <2>4. o \in Options /\ i \in 0 .. W - 1 BY <1>0 DEF IInv, Types
  <2> QED BY <1>0, <2>3, <2>4 DEF Options
<1>2. last \in 0 .. W - 1 BY <1>0, <1>1, LastIdIs
<1>3. cl.pc = "send" /\ i <= last BY <1>0 DEF Send
<1>4. cl' = [cl EXCEPT !.i = (i + 1) % W, !.sent = cl.sent \cup {i},
                       !.twice = cl.twice \/ i \in cl.sent]
  BY <1>0 DEF Send
<1>5. net' \in {net, net \cup {p}} BY <1>0 DEF Send
<1>6. UNCHANGED <<srv, stats, total, now, since>> BY DEF Send, serverVars
<1>7. p = [run |-> cl.run, id |-> i, first |-> first, last |-> last]
  BY <1>0 DEF forgeNewPacket
<1>8. p \in Pkt BY <1>1, <1>2, <1>7 DEF Pkt
<1>9. (i + 1) % W \in 0 .. W - 1 /\ (last # W - 1 => (i + 1) % W = i + 1)
  BY <1>1, <1>2, <1>3, Widths
<1>10. Types'
  <2>1. net' \subseteq Pkt BY <1>5, <1>8 DEF IInv, Types
  <2>2. cl' \in [o: Options, pc: {"off", "send", "done"}, run: 0 .. MaxRun, i: 0 .. W - 1,
                 sent: SUBSET (0 .. W - 1), twice: BOOLEAN]
    <3> DEFINE t == cl.twice \/ i \in cl.sent  k == (i + 1) % W  d == cl.sent \cup {i}
    <3>1. t \in BOOLEAN /\ k \in 0 .. W - 1 /\ d \in SUBSET (0 .. W - 1)
      BY <1>1, <1>9 DEF IInv, Types
    <3>2. cl' = [cl EXCEPT !.i = k, !.sent = d, !.twice = t] BY <1>4
    <3> HIDE DEF t, k, d
    <3> QED BY <3>1, <3>2 DEF IInv, Types
  <2>3. cl'.run >= 1
    <3>1. cl'.run = cl.run BY <1>4 DEF IInv, Types
    <3> QED BY <3>1, <1>1, TremuAssumption
  <2> QED BY <2>1, <2>2, <2>3, <1>6 DEF IInv, Types
<1>11. cl'.o = o /\ cl'.pc = "send" /\ cl'.run = cl.run /\ cl'.i = (i + 1) % W
       /\ cl'.sent = cl.sent \cup {i} /\ cl'.twice = (cl.twice \/ i \in cl.sent)
  BY <1>0, <1>3, <1>4 DEF IInv, Types
<1>12. Sending'
  <2>1. ASSUME last # W - 1
        PROVE  /\ ~cl'.twice /\ cl'.sent = first .. cl'.i - 1
               /\ IF first <= last THEN cl'.i \in first .. last + 1 ELSE cl'.i = first
    <3>1. /\ ~cl.twice /\ cl.sent = first .. i - 1
          /\ IF first <= last THEN i \in first .. last + 1 ELSE i = first
      BY <1>0, <1>3, <2>1 DEF IInv, Sending
    <3>2. first <= last /\ first <= i BY <3>1, <1>1, <1>2, <1>3, Widths
    <3>3. cl'.i = i + 1 BY <1>9, <1>11, <2>1
    <3>4. i \notin first .. i - 1 /\ first .. i = (first .. i - 1) \cup {i} /\ i + 1 - 1 = i
      BY <3>2, <1>1, Widths
    <3>5. i + 1 \in first .. last + 1 BY <3>2, <1>1, <1>2, <1>3, Widths
    <3>6. ~(i \in cl.sent) /\ cl.sent \cup {i} = first .. cl'.i - 1 BY <3>1, <3>3, <3>4
    <3> QED BY <3>1, <3>2, <3>3, <3>5, <3>6, <1>11
  <2> QED BY <2>1, <1>0, <1>11 DEF Sending
<1>13. OfRuns'
  <2>1. Packets' \subseteq Packets \cup {p} BY <1>5, <1>6 DEF Packets
  <2>2. \A q \in Packets : OfRun(q)' BY <1>0, <1>11 DEF IInv, OfRuns, OfRun
  <2>3. OfRun(p)'
    <3>1. last # W - 1 => first <= i
      BY <1>0, <1>1, <1>2, <1>3, Widths DEF IInv, Sending
    <3>2. cl.run <= cl.run BY <1>1, TremuAssumption
    <3> QED BY <1>0, <1>3, <1>7, <1>11, <3>1, <3>2 DEF OfRun
  <2>4. \A q \in Packets : q.run = p.run => q.first = p.first /\ q.last = p.last
    BY <1>0, <1>7 DEF IInv, OfRuns, OfRun
  <2>5. \A q, r \in Packets \cup {p} : q.run = r.run => q.first = r.first /\ q.last = r.last
    BY <2>4 DEF IInv, OfRuns
  <2>6. \A q \in Packets' : OfRun(q)' BY <2>1, <2>2, <2>3
  <2>7. \A q, r \in Packets' : q.run = r.run => q.first = r.first /\ q.last = r.last
    BY ONLY <2>1, <2>5
  <2> QED BY <2>6, <2>7 DEF OfRuns
<1>14. RowsOK' /\ Counts' BY <1>6, RowsUnmoved
<1> QED BY <1>10, <1>12, <1>13, <1>14 DEF IInv

LEMMA KeptByClientEnd == IInv /\ ClientEnd => IInv'
<1> SUFFICES ASSUME IInv, ClientEnd PROVE IInv' OBVIOUS
<1>1. cl.pc = "send" /\ cl.i > LastId(cl.o) /\ cl' = [cl EXCEPT !.pc = "done"]
      /\ UNCHANGED <<srv, stats, total, now, since, net>>
  BY DEF ClientEnd, serverVars
<1>2. cl'.o = cl.o /\ cl'.run = cl.run /\ cl'.i = cl.i /\ cl'.sent = cl.sent
      /\ cl'.twice = cl.twice /\ cl'.pc = "done"
  BY <1>1 DEF IInv, Types
<1>3. Types' BY <1>1, <1>2 DEF IInv, Types
<1>4. LastId(cl.o) # W - 1
  <2>1. cl.i \in 0 .. W - 1 BY DEF IInv, Types
  <2> QED BY <2>1, <1>1, Widths
<1>5. Sending' BY <1>1, <1>2, <1>4 DEF IInv, Sending
<1>6. Packets' = Packets BY <1>1 DEF Packets
<1>7. OfRuns' BY <1>2, <1>6 DEF IInv, OfRuns, OfRun
<1>8. RowsOK' /\ Counts' BY <1>1, RowsUnmoved
<1> QED BY <1>3, <1>5, <1>7, <1>8 DEF IInv

LEMMA KeptByLose == IInv /\ Lose => IInv'
<1> SUFFICES ASSUME IInv, Lose PROVE IInv' OBVIOUS
<1>1. net' \subseteq net /\ UNCHANGED <<srv, stats, total, now, since, cl>> BY DEF Lose, serverVars
<1>2. Types' BY <1>1 DEF IInv, Types
<1>3. Sending' BY <1>1 DEF IInv, Sending
<1>4. Packets' \subseteq Packets BY <1>1 DEF Packets
<1>5. OfRuns' BY <1>1, <1>4 DEF IInv, OfRuns, OfRun
<1>6. RowsOK' /\ Counts' BY <1>1, RowsUnmoved
<1> QED BY <1>2, <1>3, <1>5, <1>6 DEF IInv

\* A packet received makes a row if it is the first of its number.
LEMMA KeptByReceive == IInv /\ Receive => IInv'
<1> SUFFICES ASSUME IInv, Receive PROVE IInv' OBVIOUS
<1>1. PICK p \in net, ms \in Tick :
        /\ now' = IF since = << >> THEN 0 ELSE now + ms
        /\ stats' = IF \E s \in stats : s.id = p.id THEN stats ELSE stats \cup {Stat(p, now')}
        /\ total' = total + 1 /\ since' = Append(since, Stat(p, now'))
        /\ srv' = [srv EXCEPT !.epoch = p.run]
        /\ net' \subseteq net /\ UNCHANGED cl
  BY DEF Receive
<1>2. PICK n, t : n = Len(since) /\ t = now' OBVIOUS
<1> DEFINE new == Stat(p, t)
<1>5. t \in Int /\ now' = t
  <2>1. ms \in Int BY TremuAssumption
  <2> QED BY <1>1, <1>2, <2>1 DEF IInv, Types
<1>3. /\ n \in Nat /\ DOMAIN since = 1 .. n /\ \A i \in 1 .. n : since[i] \in Row
      /\ p \in Pkt
  BY <1>2, Heard DEF IInv, Types
<1>9. new.id = p.id /\ new.run = p.run /\ new.first = p.first /\ new.last = p.last /\ new \in Row
  BY <1>3, <1>5 DEF Stat, Pkt, Row
<1>4. /\ since' \in Seq(Row) /\ Len(since') = n + 1 /\ DOMAIN since' = 1 .. n + 1
      /\ since'[n + 1] = new /\ \A i \in 1 .. n : since'[i] = since[i]
  <2>1. since' = Append(since, new) BY <1>1, <1>2
  <2> HIDE DEF new
  <2> QED BY <1>2, <1>3, <1>9, <2>1, AppendProperties, LenProperties DEF IInv, Types
<1> HIDE DEF new
<1>6. Types'
  <2>1. p.run \in 0 .. MaxRun BY <1>3, TremuAssumption DEF Pkt
  <2>2. srv' \in [o: Options, epoch: 0 .. MaxRun, last: 0 .. MaxRun, on: BOOLEAN]
    BY <1>1, <2>1 DEF IInv, Types
  <2> QED BY <1>1, <1>4, <1>5, <2>2 DEF IInv, Types
<1>7. Sending' BY <1>1 DEF IInv, Sending
<1>8. OfRuns'
  <2>1. ASSUME NEW i \in 1 .. n + 1 PROVE since'[i] \in Packets \cup {new}
    <3>1. CASE i = n + 1 BY <1>4, <3>1
    <3>2. CASE i # n + 1
      <4>1. i \in 1 .. n BY <1>3, <3>2
      <4> QED BY <1>3, <1>4, <4>1 DEF Packets
    <3> QED BY <3>1, <3>2
  <2>2. Packets' \subseteq Packets \cup {new} /\ p \in Packets BY <2>1, <1>1, <1>4 DEF Packets
  <2>3. \A q \in Packets \cup {new} :
          \E r \in Packets : /\ r.run = q.run /\ r.id = q.id
                           /\ r.first = q.first /\ r.last = q.last
    BY <1>9, <2>2
  <2>4. \A q \in Packets' : OfRun(q)' BY <1>1, <2>2, <2>3 DEF IInv, OfRuns, OfRun
  <2>5. \A q, r \in Packets' : q.run = r.run => q.first = r.first /\ q.last = r.last
    BY <2>2, <2>3 DEF IInv, OfRuns
  <2> QED BY <2>4, <2>5 DEF OfRuns
<1>10. \A i \in 1 .. n : IsFirst(i)' <=> IsFirst(i)
  <2>1. \A i \in 1 .. n : \A j \in 1 .. n + 1 : j < i => j \in 1 .. n BY <1>3
  <2>2. 1 .. n \subseteq 1 .. n + 1 BY <1>3
  <2> QED BY <1>3, <1>4, <2>1, <2>2 DEF IsFirst
<1>11. \A i \in 1 .. n : \A s : RowOf(s, i)' <=> RowOf(s, i) BY <1>4, <1>10 DEF RowOf
<1>12. CASE \E s \in stats : s.id = p.id
  <2>1. stats' = stats BY <1>1, <1>12
  <2>2. ~IsFirst(n + 1)'
    <3>1. PICK s \in stats : s.id = p.id BY <1>12
    <3>2. PICK i \in 1 .. n : RowOf(s, i) BY <1>3 DEF IInv, RowsOK
    <3>3. since[i].id = p.id BY <3>1, <3>2 DEF RowOf
    <3>4. i \in 1 .. n + 1 /\ i < n + 1 BY <1>3
    <3> QED BY <1>4, <1>9, <3>3, <3>4 DEF IsFirst
  <2>3. RowsOK'
    <3>1. \A i \in 1 .. n + 1 : i \in 1 .. n \/ i = n + 1 BY <1>3
    <3>2. \A i \in 1 .. n + 1 : \E s \in stats : s.id = since'[i].id
      BY <1>3, <1>4, <1>9, <1>12, <3>1 DEF IInv, RowsOK
    <3>4. \A s \in stats : \E i \in 1 .. n + 1 : RowOf(s, i)'
      <4>1. 1 .. n \subseteq 1 .. n + 1 BY <1>3
      <4> QED BY <1>3, <1>11, <4>1 DEF IInv, RowsOK
    <3>7. IsFiniteSet(stats) /\ stats \subseteq Row /\ OneRowPerId(stats) BY DEF IInv, RowsOK
    <3> QED BY <1>4, <2>1, <3>2, <3>4, <3>7 DEF RowsOK
  <2>4. Counts'
    <3>1. Cardinality(stats) \in Nat BY FS_CardinalityType DEF IInv, RowsOK
    <3>2. Cardinality(stats) <= total /\ total = n BY <1>2 DEF IInv, Counts
    <3>3. Cardinality(stats) <= n + 1 BY <1>3, <3>1, <3>2
    <3> QED BY <1>1, <1>4, <2>1, <3>2, <3>3 DEF Counts
  <2> QED BY <1>6, <1>7, <1>8, <2>3, <2>4 DEF IInv
<1>13. CASE ~ \E s \in stats : s.id = p.id
  <2>1. stats' = stats \cup {new} /\ new \notin stats
    <3>1. stats' = stats \cup {new} BY <1>1, <1>2, <1>13 DEF new
    <3> QED BY <3>1, <1>9, <1>13
  <2>2. RowOf(new, n + 1)'
    <3>1. ASSUME NEW j \in 1 .. n PROVE since[j].id # p.id
      <4>1. PICK s \in stats : s.id = since[j].id BY <1>3 DEF IInv, RowsOK
      <4> QED BY <4>1, <1>13
    <3>2. \A j \in 1 .. n + 1 : j < n + 1 => j \in 1 .. n BY <1>3
    <3>3. IsFirst(n + 1)' BY <1>4, <1>9, <3>1, <3>2 DEF IsFirst
    <3> QED BY <3>3, <1>4, <1>9 DEF RowOf
  <2>5. RowsOK'
    <3>1. \A i \in 1 .. n + 1 : i \in 1 .. n \/ i = n + 1 BY <1>3
    <3>2. \A i \in 1 .. n + 1 : \E s \in stats' : s.id = since'[i].id
      BY <1>3, <1>4, <1>9, <2>1, <3>1 DEF IInv, RowsOK
    <3>5. \A s \in stats' : \E i \in 1 .. n + 1 : RowOf(s, i)'
      <4>1. 1 .. n \subseteq 1 .. n + 1 /\ n + 1 \in 1 .. n + 1 BY <1>3
      <4> QED BY <1>3, <1>11, <2>1, <2>2, <4>1 DEF IInv, RowsOK
    <3>7. IsFiniteSet(stats') BY <2>1, FS_AddElement DEF IInv, RowsOK
    <3>8. stats' \subseteq Row BY <1>9, <2>1 DEF IInv, RowsOK
    <3>9. OneRowPerId(stats') BY <1>9, <1>13, <2>1 DEF IInv, RowsOK, OneRowPerId
    <3> QED BY <1>4, <3>2, <3>5, <3>7, <3>8, <3>9 DEF RowsOK
  <2>6. Counts'
    <3>1. Cardinality(stats') = Cardinality(stats) + 1 BY <2>1, FS_AddElement DEF IInv, RowsOK
    <3>2. Cardinality(stats) \in Nat BY FS_CardinalityType DEF IInv, RowsOK
    <3>3. Cardinality(stats) <= total /\ total = n BY <1>2 DEF IInv, Counts
    <3> QED BY <1>1, <1>3, <1>4, <3>1, <3>2, <3>3 DEF Counts
  <2> QED BY <1>6, <1>7, <1>8, <2>5, <2>6 DEF IInv
<1> QED BY <1>12, <1>13

LEMMA KeptByTimeout == IInv /\ Timeout => IInv'
<1> SUFFICES ASSUME IInv, Timeout PROVE IInv' OBVIOUS
<1>1. /\ stats' = {} /\ total' = 0 /\ since' = << >> /\ now' = 0
      /\ srv' = [srv EXCEPT !.last = srv.epoch] /\ UNCHANGED <<cl, net>>
  BY DEF Timeout
<1>2. since' \in Seq(Row) /\ Len(since') = 0 /\ DOMAIN since' = {} BY <1>1
<1>3. Types'
  <2>1. srv' \in [o: Options, epoch: 0 .. MaxRun, last: 0 .. MaxRun, on: BOOLEAN]
    BY <1>1 DEF IInv, Types
  <2> QED BY <1>1, <1>2, <2>1 DEF IInv, Types
<1>4. Sending' BY <1>1 DEF IInv, Sending
<1>5. Packets' \subseteq Packets BY <1>1, <1>2 DEF Packets
<1>6. OfRuns' BY <1>1, <1>5 DEF IInv, OfRuns, OfRun
<1>7. RowsOK' /\ Counts' BY <1>1, <1>2, FS_EmptySet DEF RowsOK, Counts, OneRowPerId
<1> QED BY <1>3, <1>4, <1>6, <1>7 DEF IInv

LEMMA KeptByServerEnd == IInv /\ ServerEnd => IInv'
<1> SUFFICES ASSUME IInv, ServerEnd PROVE IInv' OBVIOUS
<1>1. /\ stats' = {} /\ total' = 0 /\ since' = << >> /\ now' = 0 /\ net' = {}
      /\ srv' = [srv EXCEPT !.on = FALSE] /\ UNCHANGED cl
  BY DEF ServerEnd
<1>2. since' \in Seq(Row) /\ Len(since') = 0 /\ DOMAIN since' = {} BY <1>1
<1>3. Types'
  <2>1. srv' \in [o: Options, epoch: 0 .. MaxRun, last: 0 .. MaxRun, on: BOOLEAN]
    BY <1>1 DEF IInv, Types
  <2> QED BY <1>1, <1>2, <2>1 DEF IInv, Types
<1>4. Sending' BY <1>1 DEF IInv, Sending
<1>5. Packets' = {} BY <1>1, <1>2 DEF Packets
<1>6. OfRuns' BY <1>5 DEF OfRuns
<1>7. RowsOK' /\ Counts' BY <1>1, <1>2, FS_EmptySet DEF RowsOK, Counts, OneRowPerId
<1> QED BY <1>3, <1>4, <1>6, <1>7 DEF IInv

LEMMA InvStep == IInv /\ [Next]_vars => IInv'
<1> SUFFICES ASSUME IInv, [Next]_vars PROVE IInv' OBVIOUS
<1>1. CASE UNCHANGED vars
  BY <1>1 DEF vars, IInv, Types, Sending, OfRuns, OfRun, Packets, RowsOK, RowOf, IsFirst, Counts
<1>2. CASE Next
  BY <1>2, KeptByClientStart, KeptBySend, KeptByClientEnd, KeptByLose, KeptByReceive,
     KeptByServerEnd, KeptByTimeout
     DEF Next, Client
<1> QED BY <1>1, <1>2

-----------------------------------------------------------------------------
(***************************************************************************)
(* What follows from the invariant, and what a report says.                *)
(***************************************************************************)
\* Rows are as many as their numbers.
LEMMA IdsOfRows ==
  ASSUME RowsOK
  PROVE  LET ids == {s.id : s \in stats} IN
         IsFiniteSet(ids) /\ Cardinality(ids) = Cardinality(stats)
<1> DEFINE ids == {s.id : s \in stats}
           f == [s \in stats |-> s.id]
<1>1. f \in Bijection(stats, ids) 
  BY DEF RowsOK, OneRowPerId, Bijection, Injection, Surjection, IsInjective
<1>2. ExistsBijection(stats, ids) BY <1>1 DEF ExistsBijection
<1> HIDE DEF ids
<1>3. IsFiniteSet(ids) /\ Cardinality(ids) = Cardinality(stats) BY <1>2, FS_Bijection DEF RowsOK
<1> QED BY <1>3 DEF ids

LEMMA TypesFollow == IInv => TypeOK
<1> SUFFICES ASSUME IInv PROVE TypeOK OBVIOUS
<1>1. Cardinality({s.id : s \in stats}) = Cardinality(stats) BY IdsOfRows DEF IInv
<1>2. stats \subseteq Row /\ total = Len(since) /\ Cardinality(stats) <= total
  BY DEF IInv, RowsOK, Counts
<1>3. Cardinality(stats) \in Nat /\ total \in Nat
  BY FS_CardinalityType DEF IInv, RowsOK, Types
<1> QED BY <1>1, <1>2, <1>3 DEF IInv, Types, TypeOK, Row, Pkt

LEMMA ExactFollows == IInv => SentExact
<1> SUFFICES ASSUME IInv, cl.pc = "done" PROVE SentExact BY DEF SentExact
<1> DEFINE f == cl.o.firstId  c == cl.o.count  l == LastId(cl.o)
<1>1. f \in 0 .. W - 1 /\ c \in 0 .. W - 1 /\ cl.i \in 0 .. W - 1 BY DEF IInv, Types, Options
<1>2. /\ l \in 0 .. W - 1
      /\ l # W - 1 /\ f <= l => l = f + c - 1
      /\ l # W - 1 /\ f > l => c = 0 \/ f + c > W
  BY <1>1, LastIdIs
<1>3. /\ l # W - 1 /\ cl.i > l /\ ~cl.twice /\ cl.sent = f .. cl.i - 1
      /\ IF f <= l THEN cl.i \in f .. l + 1 ELSE cl.i = f
  BY DEF IInv, Sending
<1> HIDE DEF f, c, l
<1>4. CASE f <= l
  <2>1. l = f + c - 1 /\ cl.i = l + 1 /\ cl.i - 1 = f + c - 1 /\ ~(f + c > W)
    BY <1>1, <1>2, <1>3, <1>4, Widths
  <2> QED BY <1>3, <2>1 DEF SentExact, f, c
<1>5. CASE ~(f <= l)
  <2>1. cl.i = f /\ (c = 0 \/ f + c > W) BY <1>1, <1>2, <1>3, <1>5, Widths
  <2>2. f .. f - 1 = {} /\ (c = 0 => f + c - 1 = f - 1) BY <1>1, Widths
  <2> QED BY <1>3, <2>1, <2>2 DEF SentExact, f, c
<1> QED BY <1>4, <1>5

\* The first packet of a row's number.
LEMMA FirstAtIs ==
  ASSUME Types, NEW i \in DOMAIN since, IsFirst(i)
  PROVE  FirstAt(since, since[i].id) = i
<1> DEFINE At == {j \in DOMAIN since : since[j].id = since[i].id}
<1>1. At \subseteq Nat /\ i \in At BY Heard
<1>2. \A j \in At : i <= j BY <1>1, Heard DEF IsFirst
<1>3. Min(At) \in At /\ Min(At) <= i
  <2> HIDE DEF At
  <2> QED BY <1>1, <1>2 DEF Min
<1>4. Min(At) = i BY <1>1, <1>2, <1>3
<1> QED BY <1>4 DEF FirstAt

\* The report that a timeout makes.
Facts(rows) ==
  /\ Len(rows) = Cardinality(stats)
  /\ \A i \in 1 .. Len(rows) : rows[i] \in stats
  /\ \A i, j \in 1 .. Len(rows) : i < j => rows[i].id < rows[j].id

LEMMA ReportFacts ==
  ASSUME IInv, stats # {}
  PROVE  Facts(Rows) /\ Len(Rows) \in Nat /\ Len(Rows) >= 1
<1>1. Cardinality(stats) \in Nat /\ Facts(Rows) BY RowsSorted DEF IInv, RowsOK, Facts
<1>2. Cardinality(stats) # 0 BY FS_EmptySet DEF IInv, RowsOK
<1> QED BY <1>1, <1>2 DEF Facts

\* The numbers received are those of the rows.
LEMMA RowsAreIds ==
  ASSUME IInv
  PROVE  Ids(since) = {s.id : s \in stats}
BY DEF IInv, RowsOK, RowOf, Ids

LEMMA ReportFields ==
  ASSUME NEW rows
  PROVE  LET r == printStats(rows)  n == Len(rows) IN
         /\ r.of = since /\ r.rx = n % W /\ r.dup = (total - (n % W)) % W
         /\ r.lost = Signed((((rows[1].last - rows[1].first + 1) % W) - (n % W)) % W)
         /\ r.ooo = Cardinality({i \in 2 .. n : rows[i].at - rows[i - 1].at < 0})
         /\ r.over = Cardinality({i \in 2 .. n : rows[i].at - rows[i - 1].at > srv.o.onTimeLimit})
<1> DEFINE n == Len(rows)
           e == (rows[1].last - rows[1].first + 1) % W
           c == n % W
           l == Signed((e - c) % W)
           d == (total - c) % W
           early == Cardinality({i \in 2 .. n : rows[i].at - rows[i - 1].at < 0})
           late == Cardinality({i \in 2 .. n : rows[i].at - rows[i - 1].at > srv.o.onTimeLimit})
<1>1. printStats(rows) = [of |-> since, expected |-> e, rx |-> c, lost |-> l, dup |-> d,
                          ooo |-> early, over |-> late]
  BY Zenon DEF printStats
<1>2. PICK x, y, z, u, v, w : x = e /\ y = c /\ z = l /\ u = d /\ v = early /\ w = late OBVIOUS
<1>3. printStats(rows) = [of |-> since, expected |-> x, rx |-> y, lost |-> z, dup |-> u,
                          ooo |-> v, over |-> w]
  BY <1>1, <1>2, Zenon
<1> DEFINE r == printStats(rows)
<1>4. r.of = since /\ r.rx = y /\ r.dup = u /\ r.lost = z /\ r.ooo = v /\ r.over = w
  BY <1>3
<1> HIDE DEF r
<1>5. r.of = since /\ r.rx = c /\ r.dup = d /\ r.lost = l /\ r.ooo = early /\ r.over = late
  BY <1>2, <1>4, Zenon
<1> QED BY <1>5, Zenon DEF r

\* Those too early and those too late are different rows, and not the first one.
LEMMA FailsAreIntervals ==
  ASSUME IInv, stats # {}, Cardinality(Ids(since)) < W
  PROVE  LET r == printStats(Rows) IN r.ooo + r.over < r.rx
<1> DEFINE n == Len(Rows)
           d(i) == Rows[i].at - Rows[i - 1].at
           E == {i \in 2 .. n : d(i) < 0}
           L == {i \in 2 .. n : d(i) > srv.o.onTimeLimit}
<1>1. n \in Nat /\ n >= 1 BY ReportFacts
<1>2. ASSUME NEW i \in 2 .. n PROVE d(i) \in Int
  <2>1. i \in 1 .. n /\ i - 1 \in 1 .. n BY <1>1
  <2>2. Rows[i] \in Row /\ Rows[i - 1] \in Row BY <2>1, ReportFacts DEF Facts, IInv, RowsOK
  <2> QED BY <2>2 DEF Row
<1>3. srv.o.onTimeLimit \in Nat BY DEF IInv, Types, Options
<1>4. E \cap L = {} BY <1>2, <1>3
<1>5. IsFiniteSet(2 .. n) /\ Cardinality(2 .. n) = n - 1 BY <1>1, FS_Interval
<1>6. E \in SUBSET (2 .. n) /\ L \in SUBSET (2 .. n) OBVIOUS
<1> DEFINE r == printStats(Rows)
<1>7. r.ooo = Cardinality(E) /\ r.over = Cardinality(L) /\ r.rx = n
  <2>1. n = Cardinality(Ids(since))
    BY RowsAreIds, IdsOfRows, ReportFacts DEF Facts, IInv
  <2>2. n < W BY <2>1
  <2> HIDE DEF n
  <2>3. n % W = n BY <1>1, <2>2, InWord
  <2>4. n = Len(Rows) BY DEF n
  <2> QED BY <2>3, <2>4, ReportFields DEF E, L
<1> HIDE DEF E, L, r, n
<1>8. IsFiniteSet(E) /\ IsFiniteSet(L) BY <1>5, <1>6, FS_Subset
<1>9. Cardinality(E \cup L) = Cardinality(E) + Cardinality(L) - 0
  BY <1>4, <1>8, FS_Union, FS_EmptySet
<1>10. Cardinality(E \cup L) <= n - 1 BY <1>5, <1>6, FS_Subset
<1>11. Cardinality(E) \in Nat /\ Cardinality(L) \in Nat BY <1>8, FS_CardinalityType
<1>12. r.ooo + r.over < r.rx BY <1>1, <1>7, <1>9, <1>10, <1>11
<1> QED BY <1>12 DEF r

LEMMA ReportIsExact ==
  ASSUME IInv, stats # {}, since # << >>, since[1].last # W - 1,
         \A i \in DOMAIN since : since[i].run = since[1].run
  PROVE  LET r == printStats(Rows)
             Missing == Cardinality((since[1].first .. since[1].last) \ Ids(since))
         IN /\ r.rx = Cardinality(Ids(since))
            /\ r.lost = IF 2 * Missing < W THEN Missing ELSE Missing - W
            /\ r.dup = (Len(since) - Cardinality(Ids(since))) % W
            /\ /\ \A i, j \in DOMAIN since : i < j => since[i].at <= since[j].at
               /\ \A a, b \in Ids(since) : a < b => FirstAt(since, a) < FirstAt(since, b)
               => r.ooo = 0
<1> DEFINE n == Len(Rows)  r == printStats(Rows)
<1>0. PICK first, last : first = Rows[1].first /\ last = Rows[1].last OBVIOUS
<1>1. n \in Nat /\ n >= 1 /\ n = Cardinality(stats) /\ 1 \in 1 .. n
  BY ReportFacts DEF Facts
<1>2. ASSUME NEW s \in stats
      PROVE  /\ s.first = since[1].first /\ s.last = since[1].last
             /\ since[1].first <= s.id /\ s.id <= since[1].last
  <2>1. PICK i \in DOMAIN since : RowOf(s, i) BY DEF IInv, RowsOK
  <2>2. s.first = since[i].first /\ s.last = since[i].last /\ s.id = since[i].id
    BY <2>1 DEF RowOf
  <2>3. 1 \in DOMAIN since
    <3>1. Len(since) # 0 BY EmptySeq DEF IInv, Types
    <3> QED BY <3>1, Heard DEF IInv
  <2>4. since[i] \in Packets /\ since[1] \in Packets BY <2>3 DEF Packets
  <2>5. since[i].first = since[1].first /\ since[i].last = since[1].last
    BY <2>4 DEF IInv, OfRuns
  <2>6. since[i].first <= since[i].id /\ since[i].id <= since[i].last
    BY <2>4, <2>5 DEF IInv, OfRuns, OfRun
  <2> QED BY <2>2, <2>5, <2>6
<1>3. Rows[1] \in stats BY <1>1, ReportFacts DEF Facts
<1>4. first = since[1].first /\ last = since[1].last /\ first \in 0 .. W - 1 /\ last \in 0 .. W - 1
      /\ last # W - 1 /\ first <= last
  <2>1. Rows[1] \in Row BY <1>3 DEF IInv, RowsOK
  <2>2. /\ first = since[1].first /\ last = since[1].last
        /\ since[1].first <= Rows[1].id /\ Rows[1].id <= since[1].last
    BY <1>0, <1>2, <1>3
  <2>3. first \in 0 .. W - 1 /\ last \in 0 .. W - 1 /\ Rows[1].id \in 0 .. W - 1 BY <1>0, <2>1 DEF Row
  <2> QED BY <2>2, <2>3, Widths
<1> DEFINE ids == {s.id : s \in stats}
<1>5. Ids(since) = ids /\ IsFiniteSet(ids) /\ Cardinality(ids) = n
  BY <1>1, RowsAreIds, IdsOfRows DEF IInv
<1>6. ids \in SUBSET (first .. last)
  <2>1. \A s \in stats : s.id \in first .. last
    <3>1. \A s \in stats : s.id \in Nat BY Widths DEF IInv, RowsOK, Row
    <3> QED BY <1>2, <1>4, <3>1, Widths
  <2> QED BY <2>1
<1> HIDE DEF ids
<1>7. /\ Cardinality((first .. last) \ ids) = (last - first + 1) - n /\ n <= last - first + 1
  <2>1. first \in Int /\ last \in Int /\ ~(first > last) BY <1>4, Widths
  <2>2. IsFiniteSet(first .. last) /\ Cardinality(first .. last) = last - first + 1
    BY <2>1, FS_Interval
  <2>3. (first .. last) \cap ids = ids BY <1>6
  <2>4. Cardinality((first .. last) \ ids)
          = Cardinality(first .. last) - Cardinality((first .. last) \cap ids)
    BY <2>2, FS_Difference
  <2>5. Cardinality((first .. last) \ ids) = (last - first + 1) - n BY <1>1, <1>5, <2>2, <2>3, <2>4
  <2>6. n <= last - first + 1 BY <1>5, <1>6, <2>2, FS_Subset
  <2> QED BY <2>5, <2>6
<1>8. /\ r.rx = n % W /\ r.dup = (total - (n % W)) % W
      /\ r.lost = Signed((((last - first + 1) % W) - (n % W)) % W)
      /\ r.ooo = Cardinality({i \in 2 .. n : Rows[i].at - Rows[i - 1].at < 0})
  BY <1>0, ReportFields, Zenon
<1>9. n % W = n /\ (((last - first + 1) % W) - (n % W)) % W = (last - first + 1) - n
  <2> DEFINE e == last - first + 1
  <2>1. e \in Nat /\ e < W /\ n <= e
    <3>1. first \in Nat /\ last \in Nat /\ first <= last /\ last <= W - 1 /\ last # W - 1
      BY <1>4, Widths
    <3>2. e \in Nat /\ e < W BY <3>1, Widths
    <3> QED BY <1>7, <3>2
  <2> HIDE DEF e, n
  <2>2. n % W = n /\ ((e % W) - (n % W)) % W = e - n BY <1>1, <2>1, WordDifference
  <2> QED BY <2>2, Zenon DEF e
<1>10. ASSUME \A i, j \in DOMAIN since : i < j => since[i].at <= since[j].at,
              \A a, b \in Ids(since) : a < b => FirstAt(since, a) < FirstAt(since, b)
       PROVE  {i \in 2 .. n : Rows[i].at - Rows[i - 1].at < 0} = {}
  <2> SUFFICES ASSUME NEW k \in 2 .. n PROVE ~(Rows[k].at - Rows[k - 1].at < 0) OBVIOUS
  <2>1. k \in 1 .. n /\ k - 1 \in 1 .. n /\ k - 1 < k BY <1>1
  <2>2. PICK s, t : s = Rows[k - 1] /\ t = Rows[k] OBVIOUS
  <2>3. s \in stats /\ t \in stats /\ s.id < t.id BY <2>1, <2>2, ReportFacts DEF Facts
  <2>4. PICK i, j \in DOMAIN since : RowOf(s, i) /\ RowOf(t, j) BY <2>3 DEF IInv, RowsOK
  <2>5. since[i] = s /\ since[j] = t /\ IsFirst(i) /\ IsFirst(j)
    BY <2>4 DEF RowOf
  <2>6. FirstAt(since, s.id) = i /\ FirstAt(since, t.id) = j
    BY <2>5, FirstAtIs DEF IInv
  <2>7. s.id \in Ids(since) /\ t.id \in Ids(since) BY <2>5 DEF Ids
  <2>8. i < j BY <1>10, <2>3, <2>6, <2>7
  <2>9. s.at <= t.at BY <1>10, <2>5, <2>8
  <2>10. s.at \in Int /\ t.at \in Int BY <2>3 DEF IInv, RowsOK, Row
  <2> QED BY <2>2, <2>9, <2>10
<1> HIDE DEF r, n
<1>11. r.lost = Signed(Cardinality((first .. last) \ ids)) BY <1>7, <1>8, <1>9
<1>12. r.dup = (Len(since) - n) % W
  <2>1. total = Len(since) BY DEF IInv, Counts
  <2>2. r.dup = (total - (n % W)) % W /\ n % W = n BY <1>8, <1>9, Zenon
  <2> QED BY <2>1, <2>2, Zenon
<1>13. r.rx = n /\ n = Cardinality(Ids(since)) BY <1>5, <1>8, <1>9
<1> QED BY <1>4, <1>5, <1>8, <1>10, <1>11, <1>12, <1>13, FS_EmptySet DEF r, Signed

LEMMA ReportInit == Init => ReportExact /\ FailsBounded
BY DEF Init, NoReport, ReportExact, FailsBounded

LEMMA ReportStep ==
  IInv /\ ReportExact /\ FailsBounded /\ [Next]_vars => ReportExact' /\ FailsBounded'
<1> SUFFICES ASSUME IInv, ReportExact, FailsBounded, [Next]_vars
             PROVE  ReportExact' /\ FailsBounded'
  OBVIOUS
<1>1. CASE Timeout
  <2>1. report' = printStats(Rows) /\ stats # {} BY <1>1 DEF Timeout
  <2>2. report'.of = since BY <2>1 DEF printStats
  <2>3. FailsBounded'
    <3> SUFFICES ASSUME Cardinality(Ids(since)) < W PROVE report'.ooo + report'.over < report'.rx
      BY <2>2 DEF FailsBounded
    <3> QED BY <2>1, FailsAreIntervals
  <2>4. ReportExact' BY <2>1, <2>2, ReportIsExact DEF ReportExact
  <2> QED BY <2>3, <2>4
<1>2. CASE Receive \/ ServerEnd
  BY <1>2 DEF Receive, ServerEnd, NoReport, ReportExact, FailsBounded
<1>3. ASSUME UNCHANGED report PROVE ReportExact' /\ FailsBounded'
  BY <1>3 DEF ReportExact, FailsBounded
<1>4. CASE UNCHANGED vars BY <1>3, <1>4 DEF vars
<1>5. CASE Client \/ Lose
  BY <1>3, <1>5 DEF Client, ClientStart, Send, ClientEnd, Lose, serverVars
<1> QED BY <1>1, <1>2, <1>4, <1>5 DEF Next

-----------------------------------------------------------------------------
\* Type correctness of the client, its packets and the server's tables.
THEOREM TypeCorrect == Spec => []TypeOK
<1> QED BY InvInit, InvStep, TypesFollow, PTL DEF Spec

\* A client that ends has sent what it was asked for, or nothing if that does not fit.
THEOREM SendsExactly == Spec => []SentExact
<1> QED BY InvInit, InvStep, ExactFollows, PTL DEF Spec

\* A report of one run's packets counts the numbers received and lost, and the duplicates,
\* exactly, up to the sign of a loss of half a word or more, and calls nothing out of order
\* that came in order while the clock was not set back.
THEOREM ReportsExactly == Spec => []ReportExact
<1> QED BY InvInit, InvStep, ReportInit, ReportStep, PTL DEF Spec

\* A report counts no row as two failures.
THEOREM FailsCounted == Spec => []FailsBounded
<1> QED BY InvInit, InvStep, ReportInit, ReportStep, PTL DEF Spec
=============================================================================
