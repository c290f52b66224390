---------------------------- MODULE SipText_proofs ----------------------------
(***************************************************************************)
(* Proofs about SipText, for requests of any number of lines that satisfy  *)
(* RequestsAssumption.  A text on the connection is made of lines (Made,   *)
(* Cut); the reader is at a place within one of them, which determines the *)
(* state of crlf and the line in progress (Reads); the message being read  *)
(* is what parseHeader makes of the lines before it (After, ReadsNext,     *)
(* AfterNext).  The answer is made of lines again (ReplyMade), so the same *)
(* holds of the agent that reads it.  LineByLine, RequestRead and          *)
(* EchoFaithful follow from that invariant: what a plain line says alone   *)
(* it says in the message too (TellsAlike), and the answer's lines are the  *)
(* request's (AnswerBlocks).                                               *)
(***************************************************************************)
EXTENDS SipText, SequenceTheorems, FiniteSetTheorems, WellFoundedInduction, TLAPS

\* The symbols of a text; a literal is named, being to the provers a value like
\* any other.
Symbol == STRING \cup {"\r", "\n", "sip", "/", "2", ".", "0", " ", "reason"}
Texts == Seq(Symbol)

\* A line with its end, which it holds nowhere else.
WholeLine(w) ==
  /\ w \in Texts /\ Len(w) > 2
  /\ w[Len(w) - 2] # "\r" /\ w[Len(w) - 1] = "\r" /\ w[Len(w)] = "\n"
  /\ \A j \in 1 .. Len(w) - 1 : w[j] # "\n"

\* Text t begins with the lines of b, of which line k ends at off[k].
Cut(t, b, off) ==
  /\ off \in [0 .. Len(b) -> Nat] /\ off[0] = 0
  /\ \A k \in 1 .. Len(b) :
       /\ off[k] = off[k - 1] + Len(b[k])
       /\ \A j \in 1 .. Len(b[k]) : t[off[k - 1] + j] = b[k][j]

\* Text t is the lines of b and then tl.
Made(t, b, tl, off) ==
  /\ Cut(t, b, off)
  /\ t \in Texts /\ Len(t) = off[Len(b)] + Len(tl)
  /\ \A j \in 1 .. Len(tl) : t[off[Len(b)] + j] = tl[j]

-----------------------------------------------------------------------------
\* A set of natural numbers with a member has a least one.
LEMMA Least ==
  ASSUME NEW S \in SUBSET Nat, S # {}
  PROVE  \E n \in S : \A k \in S : n <= k
<1>1. PICK n \in S : \A k \in S : ~(<<k, n>> \in OpToRel(<, Nat))
  BY NatLessThanWellFounded, WFMin, Zenon
<1>2. \A k \in S : ~(k < n) BY <1>1 DEF OpToRel
<1> QED BY <1>2

\* What a step from each number of 0 .. n to the next keeps, holds of them all.
LEMMA Steps ==
  ASSUME NEW n \in Nat, NEW S, 0 \in S, \A k \in 1 .. n : k - 1 \in S => k \in S
  PROVE  0 .. n \subseteq S
<1> DEFINE Missed == {k \in 0 .. n : k \notin S}
<1> SUFFICES ASSUME Missed # {} PROVE FALSE OBVIOUS
<1>1. PICK k \in Missed : \A l \in Missed : k <= l
  <2>1. Missed \in SUBSET Nat OBVIOUS
  <2> HIDE DEF Missed
  <2> QED BY <2>1, Least
<1>2. k \in 1 .. n /\ k \notin S BY <1>1
<1>3. k - 1 \in 0 .. n /\ ~(k <= k - 1) BY <1>2
<1>4. k - 1 \in S BY <1>1, <1>3
<1> QED BY <1>2, <1>4

\* A function defined by recursion over 0 .. n is defined, and stays in S.
Moves(n, S) == [S \X (1 .. n) -> S]
Recursive(f, n, S, base, F) ==
  /\ f \in [0 .. n -> S]
  /\ f[0] = base
  /\ \A i \in 1 .. n : f[i] = F[<<f[i - 1], i>>]

LEMMA Recursion ==
  ASSUME NEW n \in Nat, NEW S, NEW base \in S, NEW F \in Moves(n, S)
  PROVE  \E f : Recursive(f, n, S, base, F)
<1> USE DEF Moves
<1> DEFINE Upto(f, k) == /\ f \in [0 .. k -> S] /\ f[0] = base
                         /\ \A i \in 1 .. k : f[i] = F[<<f[i - 1], i>>]
           Reached == {k \in 0 .. n : \E f : Upto(f, k)}
<1>1. 0 \in Reached
  <2> DEFINE f == [i \in 0 .. 0 |-> base]
  <2>1. Upto(f, 0) OBVIOUS
  <2> HIDE DEF Upto, f
  <2>2. 0 \in 0 .. n OBVIOUS
  <2> QED BY <2>1, <2>2
<1>2. ASSUME NEW k \in 1 .. n, k - 1 \in Reached PROVE k \in Reached
  <2>1. PICK f : Upto(f, k - 1) BY <1>2
  <2> DEFINE h == [i \in 0 .. k |-> IF i = k THEN F[<<f[k - 1], k>>] ELSE f[i]]
  <2>2. \A i \in 0 .. k : i # k => i \in 0 .. k - 1 OBVIOUS
  <2>3. k - 1 \in 0 .. k - 1 /\ 0 \in 0 .. k - 1 OBVIOUS
  <2>4. F[<<f[k - 1], k>>] \in S BY <2>1, <2>3
  <2>5. h \in [0 .. k -> S] BY <2>1, <2>2, <2>4
  <2>6. h[0] = base BY <2>1, <2>3
  <2>7. ASSUME NEW i \in 1 .. k PROVE h[i] = F[<<h[i - 1], i>>]
    <3>1. i - 1 \in 0 .. k /\ i - 1 # k /\ i \in 0 .. k OBVIOUS
    <3>2. h[i - 1] = f[i - 1] BY <3>1
    <3>3. CASE i = k BY <3>1, <3>2, <3>3
    <3>4. CASE i # k
      <4>1. i \in 1 .. k - 1 BY <3>4
      <4>2. f[i] = F[<<f[i - 1], i>>] BY <2>1, <4>1
      <4> QED BY <3>1, <3>2, <3>4, <4>2
    <3> QED BY <3>3, <3>4
  <2> HIDE DEF h
  <2>8. Upto(h, k) BY <2>5, <2>6, <2>7
  <2> HIDE DEF Upto
  <2> QED BY <2>8
<1>3. n \in Reached
  <2> HIDE DEF Reached
  <2>1. 0 .. n \subseteq Reached BY <1>1, <1>2, Steps
  <2> QED BY <2>1
<1> QED BY <1>3 DEF Recursive

-----------------------------------------------------------------------------
(***************************************************************************)
(* A text made of lines.                                                   *)
(***************************************************************************)
LEMMA Concat ==
  ASSUME NEW u \in Texts, NEW v \in Texts
  PROVE  /\ u \o v \in Texts /\ Len(u) \in Nat /\ Len(v) \in Nat
         /\ Len(u \o v) = Len(u) + Len(v)
         /\ \A i \in 1 .. Len(u) : (u \o v)[i] = u[i]
         /\ \A j \in 1 .. Len(v) : (u \o v)[Len(u) + j] = v[j]
<1> DEFINE w == u \o v
<1>1. Len(u) \in Nat /\ Len(v) \in Nat BY LenProperties DEF Texts
<1>2. /\ w \in Texts /\ Len(w) = Len(u) + Len(v)
      /\ \A i \in 1 .. Len(u) + Len(v) : w[i] = IF i <= Len(u) THEN u[i] ELSE v[i - Len(u)]
  BY ConcatProperties DEF Texts
<1> HIDE DEF w
<1>3. ASSUME NEW i \in 1 .. Len(u) PROVE w[i] = u[i] BY <1>1, <1>2
<1>4. ASSUME NEW j \in 1 .. Len(v) PROVE w[Len(u) + j] = v[j]
  <2>1. Len(u) + j \in 1 .. Len(u) + Len(v) /\ ~(Len(u) + j <= Len(u)) /\ Len(u) + j - Len(u) = j
    BY <1>1
  <2> QED BY <1>2, <2>1
<1>5. w \in Texts /\ Len(w) = Len(u) + Len(v) BY <1>2
<1> QED BY <1>1, <1>3, <1>4, <1>5 DEF w

LEMMA Flattened ==
  ASSUME NEW b \in Seq(Texts), b # << >>
  PROVE  \E g \in [1 .. Len(b) -> Texts] :
           /\ g[1] = b[1] /\ FlattenSeq(b) = g[Len(b)]
           /\ \A i \in 2 .. Len(b) : g[i] = g[i - 1] \o b[i]
<1> DEFINE n == Len(b)
           F == [p \in Texts \X (1 .. n) |-> p[1] \o b[p[2]]]
           IsFlat(g) == g = [i \in 1 .. n |-> IF i = 1 THEN b[i] ELSE g[i - 1] \o b[i]]
           g0 == CHOOSE g : IsFlat(g)
<1>1. n \in Nat /\ n > 0 /\ \A i \in 1 .. n : b[i] \in Texts BY EmptySeq
<1>2. << >> \in Texts BY DEF Texts
<1>3. \A u, v \in Texts : u \o v \in Texts BY ConcatProperties DEF Texts
<1>4. \E g : IsFlat(g)
  <2>1. F \in Moves(n, Texts) BY <1>1, <1>3 DEF Moves
  <2>2. PICK f : Recursive(f, n, Texts, << >>, F)
    <3> HIDE DEF F, n
    <3> QED BY <1>1, <1>2, <2>1, Recursion
  <2>3. \A i \in 1 .. n : f[i - 1] \in Texts BY <1>1, <2>2 DEF Recursive
  <2>4. \A i \in 1 .. n : f[i] = f[i - 1] \o b[i] BY <2>2, <2>3 DEF Recursive
  <2>5. f[1] = b[1]
    <3>1. f[0] = << >> BY <2>2 DEF Recursive
    <3>2. 1 \in 1 .. n /\ 1 - 1 = 0 BY <1>1
    <3>3. f[1] = << >> \o b[1] BY <2>4, <3>1, <3>2
    <3> QED BY <1>1, <3>2, <3>3, ConcatEmptySeq DEF Texts
  <2> DEFINE g == [i \in 1 .. n |-> f[i]]
  <2>6. \A i \in 1 .. n : g[i] = IF i = 1 THEN b[i] ELSE g[i - 1] \o b[i]
    <3> SUFFICES ASSUME NEW i \in 1 .. n PROVE g[i] = IF i = 1 THEN b[i] ELSE g[i - 1] \o b[i]
      OBVIOUS
    <3>1. CASE i = 1 BY <2>5, <3>1
    <3>2. CASE i # 1
      <4>1. i - 1 \in 1 .. n BY <1>1, <3>2
      <4>2. g[i - 1] = f[i - 1] /\ g[i] = f[i] BY <4>1
      <4> QED BY <2>4, <3>2, <4>2
    <3> QED BY <3>1, <3>2
  <2>7. g = [i \in 1 .. n |-> IF i = 1 THEN b[i] ELSE g[i - 1] \o b[i]] BY <2>6
  <2>8. IsFlat(g) BY <2>7
  <2> QED BY <2>8
<1>5. IsFlat(g0)
  <2> HIDE DEF IsFlat
  <2> QED BY <1>4
<1>6. FlattenSeq(b) = g0[n] BY <1>1 DEF FlattenSeq
<1> HIDE DEF g0
<1>7. DOMAIN g0 = 1 .. n /\ \A i \in 1 .. n : g0[i] = IF i = 1 THEN b[i] ELSE g0[i - 1] \o b[i]
  BY <1>5
<1>8. g0 \in [1 .. n -> Texts]
  <2> DEFINE Good == {k \in 0 .. n : k > 0 => g0[k] \in Texts}
  <2>1. 0 \in Good BY <1>1
  <2>2. ASSUME NEW k \in 1 .. n, k - 1 \in Good PROVE k \in Good
    <3>1. k \in 0 .. n BY <1>1
    <3>2. g0[k] \in Texts
      <4>1. CASE k = 1 BY <1>1, <1>7, <4>1
      <4>2. CASE k # 1
        <5>1. k - 1 \in 1 .. n /\ k - 1 > 0 BY <4>2
        <5>2. g0[k - 1] \in Texts BY <2>2, <5>1
        <5>3. g0[k] = g0[k - 1] \o b[k] BY <1>7, <4>2
        <5> QED BY <1>1, <1>3, <5>2, <5>3
      <4> QED BY <4>1, <4>2
    <3> QED BY <3>1, <3>2
  <2>3. 0 .. n \subseteq Good
    <3> HIDE DEF Good, n
    <3> QED BY <1>1, <2>1, <2>2, Steps
  <2>4. \A k \in 1 .. n : g0[k] \in Texts BY <2>3
  <2>5. g0 = [i \in 1 .. n |-> IF i = 1 THEN b[i] ELSE g0[i - 1] \o b[i]] BY <1>5
  <2> QED BY <1>7, <2>4, <2>5
<1>9. g0[1] = b[1]
  <2>1. 1 \in 1 .. n BY <1>1
  <2> QED BY <1>7, <2>1, Zenon
<1>10. ASSUME NEW i \in 2 .. n PROVE g0[i] = g0[i - 1] \o b[i]
  <2>1. i \in 1 .. n /\ i # 1 OBVIOUS
  <2> QED BY <1>7, <2>1, Zenon
<1> QED BY <1>6, <1>8, <1>9, <1>10

LEMMA Joining ==
  ASSUME NEW b \in Seq(Texts), b # << >>, NEW tl \in Texts
  PROVE  \E off : Made(FlattenSeq(b) \o tl, b, tl, off)
<1> DEFINE n == Len(b)
<1>1. n \in Nat /\ n > 0 /\ \A i \in 1 .. n : b[i] \in Texts /\ Len(b[i]) \in Nat
  BY EmptySeq, LenProperties DEF Texts
<1>2. PICK g \in [1 .. n -> Texts] :
        /\ g[1] = b[1] /\ FlattenSeq(b) = g[n]
        /\ \A i \in 2 .. n : g[i] = g[i - 1] \o b[i]
  BY Flattened
<1> DEFINE off == [k \in 0 .. n |-> IF k = 0 THEN 0 ELSE Len(g[k])]
           Fits(m) == \A k \in 1 .. m : /\ off[k] <= off[m]
                                        /\ \A j \in 1 .. Len(b[k]) : g[m][off[k - 1] + j] = b[k][j]
           Good == {m \in 0 .. n : m > 0 => Fits(m)}
<1>3. /\ off \in [0 .. n -> Nat] /\ off[0] = 0
      /\ \A k \in 1 .. n : off[k] = Len(g[k]) /\ off[k] = off[k - 1] + Len(b[k])
  <2>1. \A k \in 1 .. n : g[k] \in Texts /\ Len(g[k]) \in Nat BY LenProperties DEF Texts
  <2>2. off \in [0 .. n -> Nat] /\ off[0] = 0 BY <1>1, <2>1
  <2>3. \A k \in 1 .. n : off[k] = Len(g[k]) BY <1>1
  <2>4. ASSUME NEW k \in 1 .. n PROVE off[k] = off[k - 1] + Len(b[k])
    <3>1. CASE k = 1 BY <1>1, <1>2, <2>2, <2>3, <3>1
    <3>2. CASE k # 1
      <4>1. k - 1 \in 1 .. n /\ k \in 2 .. n BY <3>2
      <4>2. Len(g[k]) = Len(g[k - 1]) + Len(b[k])
        <5>1. g[k] = g[k - 1] \o b[k] /\ g[k - 1] \in Texts /\ b[k] \in Texts BY <1>1, <1>2, <2>1, <4>1
        <5> QED BY <5>1, Concat
      <4>3. off[k] = Len(g[k]) /\ off[k - 1] = Len(g[k - 1]) BY <2>3, <4>1
      <4> QED BY <4>2, <4>3
    <3> QED BY <3>1, <3>2
  <2> QED BY <2>2, <2>3, <2>4
<1> HIDE DEF off
<1>4. 0 \in Good BY <1>1
<1>5. ASSUME NEW m \in 1 .. n, m - 1 \in Good PROVE m \in Good
  <2>1. CASE m = 1
    <3>1. \A k \in 1 .. m : k = 1 BY <2>1
    <3>2. \A j \in 1 .. Len(b[1]) : j \in Int BY <1>1
    <3> QED BY <1>1, <1>2, <1>3, <2>1, <3>1, <3>2
  <2>2. CASE m # 1
    <3>1. m - 1 \in 1 .. n /\ m \in 2 .. n /\ Fits(m - 1) BY <1>5, <2>2
    <3>2. g[m] = g[m - 1] \o b[m] /\ g[m - 1] \in Texts /\ b[m] \in Texts BY <1>1, <1>2, <3>1
    <3>3. /\ \A i \in 1 .. Len(g[m - 1]) : g[m][i] = g[m - 1][i]
          /\ \A j \in 1 .. Len(b[m]) : g[m][Len(g[m - 1]) + j] = b[m][j]
      <4> DEFINE u == g[m - 1]
                 v == b[m]
      <4>1. u \in Texts /\ v \in Texts /\ g[m] = u \o v BY <3>2
      <4> HIDE DEF Fits, u, v
      <4>2. /\ \A i \in 1 .. Len(u) : g[m][i] = u[i]
            /\ \A j \in 1 .. Len(v) : g[m][Len(u) + j] = v[j]
        BY <4>1, Concat
      <4> QED BY <4>2 DEF u, v
    <3>4. ASSUME NEW k \in 1 .. m
          PROVE  /\ off[k] <= off[m]
                 /\ \A j \in 1 .. Len(b[k]) : g[m][off[k - 1] + j] = b[k][j]
      <4>1. CASE k = m
        <5>1. off[k - 1] = Len(g[m - 1]) /\ off[k] \in Nat BY <1>3, <3>1, <4>1
        <5> QED BY <3>3, <4>1, <5>1
      <4>2. CASE k # m
        <5>1. k \in 1 .. m - 1 /\ k \in 1 .. n /\ k - 1 \in 0 .. n BY <4>2
        <5>2. /\ off[k - 1] \in Nat /\ off[m] \in Nat /\ off[m - 1] \in Nat /\ off[k] \in Nat
              /\ Len(b[m]) \in Nat /\ Len(b[k]) \in Nat
              /\ off[k] = off[k - 1] + Len(b[k]) /\ off[m - 1] = Len(g[m - 1])
              /\ off[m] = off[m - 1] + Len(b[m]) /\ off[k] <= off[m - 1]
          <6>1. off[k] <= off[m - 1] BY <3>1, <5>1
          <6>2. m - 1 \in 0 .. n /\ k \in 0 .. n /\ m \in 0 .. n BY <3>1, <5>1
          <6> HIDE DEF Fits
          <6> QED BY <1>1, <1>3, <3>1, <5>1, <6>1, <6>2
        <5>3. ASSUME NEW j \in 1 .. Len(b[k]) PROVE g[m][off[k - 1] + j] = b[k][j]
          <6>1. off[k - 1] + j \in 1 .. Len(g[m - 1])
            <7>1. \A x, l, y, z \in Nat : y = x + l /\ y <= z => \A i \in 1 .. l : x + i \in 1 .. z
              OBVIOUS
            <7> HIDE DEF Fits
            <7> QED BY <5>2, <7>1
          <6>2. g[m - 1][off[k - 1] + j] = b[k][j] BY <3>1, <5>1
          <6> QED BY <3>3, <6>1, <6>2
        <5>4. off[k] <= off[m]
          <6>1. \A x, y, z, l \in Nat : x <= y /\ z = y + l => x <= z OBVIOUS
          <6> HIDE DEF Fits
          <6> QED BY <5>2, <6>1, Zenon
        <5> QED BY <5>3, <5>4
      <4> QED BY <4>1, <4>2
    <3> QED BY <3>4
  <2> QED BY <2>1, <2>2
<1>6. Fits(n)
  <2>1. 0 .. n \subseteq Good
    <3> HIDE DEF Good, n
    <3> QED BY <1>1, <1>4, <1>5, Steps
  <2> QED BY <1>1, <2>1
<1> DEFINE t == FlattenSeq(b) \o tl
<1>7. /\ t \in Texts /\ Len(t) = off[n] + Len(tl)
      /\ \A i \in 1 .. off[n] : t[i] = g[n][i]
      /\ \A j \in 1 .. Len(tl) : t[off[n] + j] = tl[j]
  <2>1. g[n] \in Texts /\ FlattenSeq(b) = g[n] /\ off[n] = Len(g[n]) BY <1>1, <1>2, <1>3
  <2> DEFINE u == FlattenSeq(b)
  <2>2. u \in Texts /\ u = g[n] /\ off[n] = Len(u) BY <2>1
  <2> HIDE DEF u
  <2>3. /\ u \o tl \in Texts /\ Len(u \o tl) = Len(u) + Len(tl)
        /\ \A i \in 1 .. Len(u) : (u \o tl)[i] = u[i]
        /\ \A j \in 1 .. Len(tl) : (u \o tl)[Len(u) + j] = tl[j]
    BY <2>2, Concat
  <2> QED BY <2>2, <2>3 DEF u
<1>8. ASSUME NEW k \in 1 .. n, NEW j \in 1 .. Len(b[k]) PROVE t[off[k - 1] + j] = b[k][j]
  <2>1. g[n][off[k - 1] + j] = b[k][j] /\ off[k] <= off[n] BY <1>6
  <2>2. off[k - 1] \in Nat /\ off[k] = off[k - 1] + Len(b[k]) /\ off[n] \in Nat /\ Len(b[k]) \in Nat
    BY <1>1, <1>3
  <2>3. off[k - 1] + j \in 1 .. off[n] BY <2>1, <2>2
  <2> QED BY <1>7, <2>1, <2>3
<1> HIDE DEF t
<1>9. Made(t, b, tl, off) BY <1>3, <1>7, <1>8 DEF Made, Cut
<1> QED BY <1>9 DEF t

\* A line put before a text of lines.
LEMMA Prepended ==
  ASSUME NEW b \in Seq(Texts), NEW tl \in Texts, NEW t, NEW off, Made(t, b, tl, off), NEW w \in Texts
  PROVE  \E off2 : Made(w \o t, <<w>> \o b, tl, off2)
<1> DEFINE n == Len(b)
           b2 == <<w>> \o b
           off2 == [k \in 0 .. n + 1 |-> IF k = 0 THEN 0 ELSE Len(w) + off[k - 1]]
           t2 == w \o t
<1>1. n \in Nat /\ Len(w) \in Nat /\ Len(tl) \in Nat /\ t \in Texts
      /\ \A i \in 1 .. n : b[i] \in Texts /\ Len(b[i]) \in Nat
  BY LenProperties DEF Texts, Made
<1>2. /\ Len(b2) = n + 1 /\ b2[1] = w /\ \A i \in 1 .. n : b2[i + 1] = b[i]
  OBVIOUS
<1>3. /\ t2 \in Texts /\ Len(t2) = Len(w) + Len(t) /\ Len(t) \in Nat
      /\ \A i \in 1 .. Len(w) : t2[i] = w[i]
      /\ \A i \in 1 .. Len(t) : t2[Len(w) + i] = t[i]
  BY <1>1, Concat
<1> HIDE DEF b2, t2
<1>4. Cut(t, b, off) /\ Len(t) = off[n] + Len(tl) /\ \A j \in 1 .. Len(tl) : t[off[n] + j] = tl[j]
  BY DEF Made
<1>5. off \in [0 .. n -> Nat] /\ off[0] = 0
      /\ \A k \in 1 .. n : /\ off[k] = off[k - 1] + Len(b[k])
                           /\ \A j \in 1 .. Len(b[k]) : t[off[k - 1] + j] = b[k][j]
  BY <1>4 DEF Cut
<1>6. off2 \in [0 .. n + 1 -> Nat] /\ off2[0] = 0 /\ \A k \in 1 .. n + 1 : off2[k] = Len(w) + off[k - 1]
  BY <1>1, <1>5
<1> HIDE DEF off2
<1>7. ASSUME NEW k \in 1 .. n + 1
      PROVE  /\ off2[k] = off2[k - 1] + Len(b2[k])
             /\ \A j \in 1 .. Len(b2[k]) : t2[off2[k - 1] + j] = b2[k][j]
  <2>1. CASE k = 1 BY <1>1, <1>2, <1>3, <1>5, <1>6, <2>1
  <2>2. CASE k # 1
    <3> DEFINE i == k - 1
    <3>1. i \in 1 .. n /\ k = i + 1 BY <1>1, <2>2
    <3> HIDE DEF i
    <3>2. b2[k] = b[i] /\ off2[k] = Len(w) + off[i] /\ off2[i] = Len(w) + off[i - 1]
      BY <1>1, <1>2, <1>6, <3>1
    <3>3. off[i] \in Nat /\ off[i - 1] \in Nat /\ off[i] = off[i - 1] + Len(b[i]) BY <1>5, <3>1
    <3>4. ASSUME NEW j \in 1 .. Len(b[i]) PROVE t2[off2[i] + j] = b[i][j]
      <4>1. off[i] <= off[n]
        <5> DEFINE Good == {m \in 0 .. n : i <= m => off[i] <= off[m]}
        <5>1. 0 \in Good BY <1>1, <3>1
        <5>2. ASSUME NEW m \in 1 .. n, m - 1 \in Good PROVE m \in Good
          <6>1. m \in 0 .. n /\ m - 1 \in 0 .. n BY <1>1
          <6>2. off[m] = off[m - 1] + Len(b[m]) /\ off[m] \in Nat /\ off[m - 1] \in Nat /\ Len(b[m]) \in Nat
            BY <1>1, <1>5, <6>1
          <6>3. CASE i = m BY <6>1, <6>2, <6>3
          <6>4. CASE i # m
            <7>1. i <= m => i <= m - 1 BY <1>1, <3>1, <6>4
            <7> QED BY <3>3, <5>2, <6>1, <6>2, <7>1
          <6> QED BY <6>3, <6>4
        <5>3. 0 .. n \subseteq Good
          <6> HIDE DEF Good, n
          <6> QED BY <1>1, <5>1, <5>2, Steps
        <5> QED BY <1>1, <3>1, <5>3
      <4>2. off[i - 1] + j \in 1 .. Len(t) /\ off[n] \in Nat
        <5>1. off[n] \in Nat /\ Len(b[i]) \in Nat BY <1>1, <1>5, <3>1
        <5>2. Len(t) = off[n] + Len(tl) BY <1>4
        <5>3. \A x, y, z, l, e \in Nat : x + l <= y /\ z = y + e /\ j <= l => x + j \in 1 .. z
          OBVIOUS
        <5> HIDE DEF n
        <5>4. off[i - 1] + Len(b[i]) <= off[n] BY <3>3, <4>1
        <5>5. Len(t) \in Nat /\ j <= Len(b[i]) BY <1>3, <5>1
        <5> QED BY <1>1, <3>3, <5>1, <5>2, <5>3, <5>4, <5>5
      <4>3. t2[Len(w) + (off[i - 1] + j)] = b[i][j] BY <1>3, <1>5, <3>1, <4>2
      <4>4. Len(w) + (off[i - 1] + j) = off2[i] + j BY <1>1, <3>2, <3>3
      <4> QED BY <4>3, <4>4
    <3>5. off2[k] = off2[i] + Len(b[i]) BY <1>1, <3>1, <3>2, <3>3
    <3>6. k - 1 = i BY <1>1, <3>1
    <3> QED BY <3>2, <3>4, <3>5, <3>6
  <2> QED BY <2>1, <2>2
<1>8. Cut(t2, b2, off2) BY <1>2, <1>6, <1>7 DEF Cut
<1>9. off2[n + 1] = Len(w) + off[n] /\ off[n] \in Nat BY <1>1, <1>5, <1>6
<1>10. ASSUME NEW j \in 1 .. Len(tl) PROVE t2[off2[n + 1] + j] = tl[j]
  <2>1. off[n] + j \in 1 .. Len(t) BY <1>1, <1>4, <1>9
  <2>2. t2[Len(w) + (off[n] + j)] = tl[j] BY <1>3, <1>4, <2>1
  <2>3. Len(w) + (off[n] + j) = off2[n + 1] + j BY <1>1, <1>9
  <2> QED BY <2>2, <2>3
<1>11. Made(t2, b2, tl, off2) BY <1>1, <1>2, <1>3, <1>4, <1>8, <1>9, <1>10 DEF Made
<1> QED BY <1>11 DEF t2, b2

-----------------------------------------------------------------------------
(***************************************************************************)
(* The type of a header: only a status line is a RESPONSE.                 *)
(***************************************************************************)
LEMMA RegisterType ==
  ASSUME NEW t PROVE parseRegisterInvite(t).type # "RESPONSE"
BY DEF parseRegisterInvite, Header, Bad

LEMMA OthersTypes ==
  ASSUME NEW t, NEW toks
  PROVE  /\ parseCSeq(t).type = "OTHERS" /\ parseVia(t).type = "OTHERS"
         /\ parseAuth(t).type = "OTHERS" /\ parseFromTo(t).type = "OTHERS"
         /\ parseCommaSepList(t).type = "OTHERS" /\ parseGenAttr(t, toks).type = "OTHERS"
<1>1. parseCSeq(t).type = "OTHERS" BY DEF parseCSeq, Header, Bad
<1>2. parseVia(t).type = "OTHERS" BY DEF parseVia, Header, Bad
<1>3. parseAuth(t).type = "OTHERS" BY DEF parseAuth, Header, Bad
<1>4. parseFromTo(t).type = "OTHERS" BY DEF parseFromTo, Header, Bad
<1>5. parseCommaSepList(t).type = "OTHERS" BY DEF parseCommaSepList, Header, Bad
<1>6. parseGenAttr(t, toks).type = "OTHERS" BY DEF parseGenAttr, Header, Bad
<1> QED BY <1>1, <1>2, <1>3, <1>4, <1>5, <1>6

LEMMA ItemType ==
  ASSUME NEW toks, NEW t, NEW h, h = parseItem(toks, t), h.ok
  PROVE  h.type = "RESPONSE" => h.name \in {<<"sip">>, <<"sips">>}
<1>1. CASE t = << >>
  <2>1. h = Header(<< >>, NoKeys) BY <1>1 DEF parseItem
  <2> QED BY <2>1 DEF Header
<1>2. CASE t # << >>
  <2> DEFINE id == t[1].val
  <2>1. CASE id \in {<<"sip">>, <<"sips">>}
    <3>1. h.type = "RESPONSE" => h.name = id
      <4>1. PICK w \in {"sip", "sips"} : id = <<w>> BY <2>1
      <4> HIDE DEF id
      <4>2. \A v : id = <<v>> => w = v BY <4>1
      <4>3. /\ id \notin {<<"register">>, <<"invite">>} /\ id # <<"cseq">> /\ id # <<"via">>
            /\ id \notin {<<"authorization">>, <<"www-authenticate">>}
            /\ id \notin {<<"from">>, <<"to">>, <<"contact">>}
            /\ id \notin {<<"allow">>, <<"supported">>}
        BY <4>1, <4>2
      <4>4. h = parseResponseHeader(t) BY <1>2, <2>1, <4>3, Zenon DEF parseItem, id
      <4> QED BY <1>2, <4>4 DEF parseResponseHeader, Header, Bad, id
    <3> QED BY <2>1, <3>1
  <2>2. CASE id \notin {<<"sip">>, <<"sips">>}
    <3>1. \/ h = parseRegisterInvite(t) \/ h = parseCSeq(t) \/ h = parseVia(t) \/ h = parseAuth(t)
          \/ h = parseFromTo(t) \/ h = parseCommaSepList(t) \/ h = parseGenAttr(t, toks)
      BY <1>2, <2>2, SMTT(60) DEF parseItem
    <3> QED BY <3>1, RegisterType, OthersTypes
  <2> QED BY <2>1, <2>2
<1> QED BY <1>1, <1>2

LEMMA ParseType ==
  ASSUME NEW w, parse(w).ok
  PROVE  parse(w).type = "RESPONSE" => parse(w).name \in {<<"sip">>, <<"sips">>}
BY ItemType DEF parse

-----------------------------------------------------------------------------
(***************************************************************************)
(* The reader (SipSocket::recv), in a text made of lines.                  *)
(***************************************************************************)
\* The lines a message is sent as, and what ends it: a blank line, or nothing.
Lined(b) == b \in Seq(Texts) /\ b # << >> /\ \A i \in 1 .. Len(b) : WholeLine(b[i])
Tails == {Crlf, << >>}

\* The state of crlf after l symbols of line w.
InLine(st, w, l, first) ==
  /\ l = 0 => st = IF first THEN "IDLE" ELSE "LF1"
  /\ l \in 1 .. Len(w) - 2 => st \in {"IDLE", "CR1", "CR2"} /\ (w[l] # "\r" => st = "IDLE")
  /\ l = Len(w) - 1 => st = "CR1"

\* At p, the reader has read k lines, and ln of the next or of the blank line.
Reads(b, off, k, tl, t, p, st, ln) ==
  /\ Made(t, b, tl, off)
  /\ k \in 0 .. Len(b)
  /\ ln \in Texts /\ p = off[k] + Len(ln)
  /\ k < Len(b) => /\ Len(ln) < Len(b[k + 1])
                   /\ \A j \in 1 .. Len(ln) : ln[j] = b[k + 1][j]
                   /\ InLine(st, b[k + 1], Len(ln), k = 0)
  /\ k = Len(b) => /\ Len(ln) <= 1 /\ Len(ln) <= Len(tl)
                   /\ \A j \in 1 .. Len(ln) : ln[j] = tl[j]
                   /\ st = IF Len(ln) = 0 THEN "LF1" ELSE "CR2"

LEMMA TailLength == << >> \in Texts /\ Len(<< >>) = 0 /\ Crlf \in Texts /\ Len(Crlf) = 2
                    /\ Crlf[1] = "\r" /\ Crlf[2] = "\n"
BY DEF Crlf, Texts, Symbol

LEMMA Rising ==
  ASSUME NEW t, NEW b, b \in Seq(Texts), NEW off, Cut(t, b, off), NEW i \in 0 .. Len(b)
  PROVE  off[i] <= off[Len(b)]
<1> DEFINE n == Len(b)
<1>1. n \in Nat /\ \A k \in 1 .. n : Len(b[k]) \in Nat BY LenProperties DEF Texts
<1>2. off \in [0 .. n -> Nat] /\ \A k \in 1 .. n : off[k] = off[k - 1] + Len(b[k]) BY DEF Cut
<1> HIDE DEF n
<1> DEFINE Good == {m \in 0 .. n : i <= m => off[i] <= off[m]}
<1>3. i \in 0 .. n BY DEF n
<1>4. 0 \in Good
  <2>1. i <= 0 => i = 0 BY <1>3
  <2> QED BY <1>1, <1>2, <1>3, <2>1
<1>5. ASSUME NEW m \in 1 .. n, m - 1 \in Good PROVE m \in Good
  <2>1. m \in 0 .. n /\ m - 1 \in 0 .. n BY <1>1
  <2>2. off[m] = off[m - 1] + Len(b[m]) /\ off[m] \in Nat /\ off[m - 1] \in Nat /\ Len(b[m]) \in Nat
    BY <1>1, <1>2, <2>1
  <2>3. CASE i = m BY <2>1, <2>2, <2>3
  <2>4. CASE i # m
    <3>1. i <= m => i <= m - 1 BY <1>1, <1>3, <2>4
    <3>2. off[i] \in Nat BY <1>2, <1>3
    <3> QED BY <1>5, <2>1, <2>2, <3>1, <3>2
  <2> QED BY <2>3, <2>4
<1>6. 0 .. n \subseteq Good
  <2> HIDE DEF Good
  <2> QED BY <1>1, <1>4, <1>5, Steps
<1> QED BY <1>1, <1>3, <1>6 DEF n

\* The reader begins at the first line.
LEMMA ReadsFirst ==
  ASSUME NEW b, Lined(b), NEW tl \in Tails, NEW t, NEW off, Made(t, b, tl, off)
  PROVE  Reads(b, off, 0, tl, t, 0, "IDLE", << >>)
<1>1. Len(b) \in Nat /\ Len(b) > 0 BY EmptySeq DEF Lined
<1>2. WholeLine(b[1]) BY <1>1 DEF Lined
<1>3. off[0] = 0 BY DEF Made, Cut
<1>4. Len(b[1]) \in Nat /\ Len(b[1]) > 2 BY <1>2, LenProperties DEF WholeLine, Texts
<1>5. InLine("IDLE", b[1], 0, 0 = 0)
  <2> DEFINE l == Len(b[1])
  <2>1. l \in Nat /\ l > 2 BY <1>4
  <2> HIDE DEF l
  <2>2. 0 \notin 1 .. l - 2 /\ 0 # l - 1 BY <2>1
  <2> QED BY <2>2 DEF InLine, l
<1>6. \A j \in 1 .. 0 : << >>[j] = b[1][j] OBVIOUS
<1>7. b[0 + 1] = b[1] /\ 0 \in 0 .. Len(b) /\ 0 # Len(b) BY <1>1
<1> QED BY <1>3, <1>4, <1>5, <1>6, <1>7, TailLength DEF Reads

\* It is within the text, and before its end where that is a blank line.
LEMMA Within ==
  ASSUME NEW b, Lined(b), NEW tl \in Tails, NEW t, NEW off, NEW k, NEW p, NEW st, NEW ln,
         Reads(b, off, k, tl, t, p, st, ln)
  PROVE  /\ p \in 0 .. Len(t)
         /\ tl = Crlf => p < Len(t)
         /\ p = Len(t) => k = Len(b)
<1> DEFINE n == Len(b)
<1>1. n \in Nat /\ k \in 0 .. n /\ ln \in Texts /\ Len(ln) \in Nat /\ p = off[k] + Len(ln)
  BY LenProperties DEF Lined, Reads, Texts
<1>2. Cut(t, b, off) /\ Len(t) = off[n] + Len(tl) /\ off \in [0 .. n -> Nat] BY DEF Reads, Made, Cut
<1>3. off[k] \in Nat /\ off[n] \in Nat BY <1>1, <1>2
<1>4. Len(tl) \in {0, 2} /\ (tl = Crlf => Len(tl) = 2) BY TailLength DEF Tails
<1>5. CASE k < n
  <2>1. k + 1 \in 1 .. n /\ k + 1 \in 0 .. n /\ (k + 1) - 1 = k BY <1>1, <1>5
  <2>2. off[k + 1] = off[k] + Len(b[k + 1]) BY <1>2, <2>1 DEF Cut
  <2>3. off[k + 1] <= off[n] /\ off[k + 1] \in Nat BY <1>2, <2>1, Rising DEF Lined
  <2>4. Len(ln) < Len(b[k + 1]) /\ Len(b[k + 1]) \in Nat
    BY <1>5, <2>1, LenProperties DEF Reads, Lined, Texts
  <2>5. \A x, y, z, u, v, e \in Nat : x < y /\ z = u + y /\ z <= v => u + x < v + e OBVIOUS
  <2>6. Len(tl) \in Nat BY <1>4
  <2>7. off[k] + Len(ln) < off[n] + Len(tl) BY <1>1, <1>3, <2>2, <2>3, <2>4, <2>5, <2>6
  <2>8. p < Len(t) /\ p \in Nat BY <1>1, <1>2, <1>3, <2>7
  <2>9. Len(t) \in Nat BY LenProperties DEF Reads, Made, Texts
  <2> QED BY <2>8, <2>9
<1>6. CASE k = n
  <2>1. Len(ln) <= 1 /\ Len(ln) <= Len(tl) BY <1>6 DEF Reads
  <2> HIDE DEF n
  <2> QED BY <1>1, <1>2, <1>3, <1>4, <1>6, <2>1 DEF n
<1> QED BY <1>1, <1>5, <1>6

\* A symbol is read: of the blank line at the end, the last of a line, or another.
Ends(b, k, tl, st2) == st2 = "LF2" /\ k = Len(b) /\ tl = Crlf
NextLine(b, off, k, tl, t, p, ln, c, st2) ==
  /\ st2 = "LF1" /\ k < Len(b) /\ Append(ln, c) = b[k + 1]
  /\ Reads(b, off, k + 1, tl, t, p + 1, st2, << >>)
SameLine(b, off, k, tl, t, p, ln, c, st2) ==
  /\ st2 \notin {"LF1", "LF2"}
  /\ Reads(b, off, k, tl, t, p + 1, st2, Append(ln, c))

\* The reader is at the start of a line that is not the first.
LEMMA AtStart ==
  ASSUME NEW w, Len(w) \in Nat, Len(w) > 2, NEW i \in Nat, i # 0
  PROVE  InLine("LF1", w, 0, i = 0)
<1>1. \A m \in Nat : m > 2 => 0 \notin 1 .. m - 2 /\ 0 # m - 1 OBVIOUS
<1> QED BY <1>1 DEF InLine

LEMMA ReadsNext ==
  ASSUME NEW b, Lined(b), NEW tl \in Tails, NEW t, NEW off, NEW k, NEW p, NEW st, NEW ln,
         Reads(b, off, k, tl, t, p, st, ln), p < Len(t),
         NEW c, c = t[p + 1], NEW st2, st2 = crlf(st, c)
  PROVE  \/ Ends(b, k, tl, st2)
         \/ NextLine(b, off, k, tl, t, p, ln, c, st2)
         \/ SameLine(b, off, k, tl, t, p, ln, c, st2)
<1> DEFINE n == Len(b)
           l == Len(ln)
           ln2 == Append(ln, c)
<1>1. n \in Nat /\ k \in 0 .. n /\ ln \in Texts /\ l \in Nat /\ p = off[k] + l
  BY LenProperties DEF Lined, Reads, Texts
<1>2. /\ Made(t, b, tl, off) /\ Cut(t, b, off) /\ t \in Texts
      /\ Len(t) = off[n] + Len(tl) /\ off \in [0 .. n -> Nat]
      /\ \A j \in 1 .. Len(tl) : t[off[n] + j] = tl[j]
  BY DEF Reads, Made, Cut
<1>3. off[k] \in Nat /\ off[n] \in Nat BY <1>1, <1>2
<1>4. c \in Symbol /\ p \in Nat
  <2>1. p + 1 \in 1 .. Len(t) BY <1>1, <1>2, <1>3, LenProperties DEF Texts
  <2> QED BY <1>1, <1>2, <1>3, <2>1 DEF Texts
<1>5. ln2 \in Texts /\ Len(ln2) = l + 1 /\ ln2[l + 1] = c /\ \A j \in 1 .. l : ln2[j] = ln[j]
  BY <1>1, <1>4, AppendProperties DEF Texts
<1>6. Len(tl) \in {0, 2} /\ tl \in Texts /\ (Len(tl) = 2 => tl = Crlf) /\ Crlf[1] = "\r" /\ Crlf[2] = "\n"
  BY TailLength DEF Tails
<1>7. CASE k < n
  <2> DEFINE w == b[k + 1]
  <2>1. k + 1 \in 1 .. n /\ k + 1 \in 0 .. n /\ (k + 1) - 1 = k BY <1>1, <1>7
  <2>2. WholeLine(w) /\ w \in Texts /\ Len(w) \in Nat BY <2>1, LenProperties DEF Lined, WholeLine, Texts
  <2>3. l < Len(w) /\ (\A j \in 1 .. l : ln[j] = w[j]) /\ InLine(st, w, l, k = 0) BY <1>7 DEF Reads
  <2>4. off[k + 1] = off[k] + Len(w) /\ \A j \in 1 .. Len(w) : t[off[k] + j] = w[j]
    BY <1>2, <2>1 DEF Cut
  <2> HIDE DEF w
  <2>5. c = w[l + 1]
    <3>1. l + 1 \in 1 .. Len(w) /\ p + 1 = off[k] + (l + 1) BY <1>1, <1>3, <2>2, <2>3
    <3> QED BY <2>4, <3>1
  <2>6. \A j \in 1 .. l + 1 : ln2[j] = w[j]
    <3>1. \A j \in 1 .. l + 1 : j \in 1 .. l \/ j = l + 1 BY <1>1
    <3> QED BY <1>5, <2>3, <2>5, <3>1
  <2>7. p + 1 = off[k] + Len(ln2) BY <1>1, <1>3, <1>5
  <2>8. ASSUME l + 1 < Len(w), st2 \notin {"LF1", "LF2"}, InLine(st2, w, l + 1, k = 0)
        PROVE  SameLine(b, off, k, tl, t, p, ln, c, st2)
    <3>1. k # n BY <1>1, <1>7
    <3> HIDE DEF ln2, n
    <3>2. Reads(b, off, k, tl, t, p + 1, st2, ln2)
      BY <1>1, <1>2, <1>5, <2>6, <2>7, <2>8, <3>1 DEF Reads, w, n
    <3> QED BY <2>8, <3>2 DEF SameLine, ln2
  <2>9. CASE l + 1 <= Len(w) - 2
    <3>1. c # "\n" /\ l + 1 < Len(w) /\ l \in 0 .. Len(w) - 3 /\ l # Len(w) - 1 /\ l + 1 # 0
      <4>1. l + 1 \in 1 .. Len(w) - 1 BY <1>1, <2>2, <2>9
      <4>2. c # "\n" BY <2>2, <2>5, <4>1 DEF WholeLine
      <4> QED BY <1>1, <2>2, <2>9, <4>2
    <3>2. st \in {"IDLE", "LF1", "CR1", "CR2"} /\ (st = "LF1" => l = 0)
      <4>1. CASE l = 0 BY <2>3, <4>1 DEF InLine
      <4>2. CASE l # 0
        <5>1. l \in 1 .. Len(w) - 2 BY <1>1, <2>2, <2>9, <4>2
        <5> QED BY <2>3, <5>1 DEF InLine
      <4> QED BY <4>1, <4>2
    <3>3. st2 \in {"IDLE", "CR1", "CR2"} /\ (c # "\r" => st2 = "IDLE") BY <3>1, <3>2 DEF crlf
    <3>4. InLine(st2, w, l + 1, k = 0)
      <4>1. l + 1 # Len(w) - 1 BY <1>1, <2>2, <2>9
      <4> QED BY <2>5, <3>1, <3>3, <4>1 DEF InLine
    <3> QED BY <2>8, <3>1, <3>3, <3>4
  <2>10. CASE l + 1 = Len(w) - 1
    <3>1. c = "\r" /\ l = Len(w) - 2 /\ l \in 1 .. Len(w) - 2 /\ w[l] # "\r"
      BY <1>1, <2>2, <2>5, <2>10 DEF WholeLine
    <3>2. st = "IDLE" BY <2>3, <3>1 DEF InLine
    <3>3. st2 = "CR1" BY <3>1, <3>2 DEF crlf
    <3>4. l + 1 \notin 1 .. Len(w) - 2 /\ l + 1 # 0 /\ l + 1 < Len(w) BY <1>1, <2>2, <2>10
    <3>5. InLine(st2, w, l + 1, k = 0) BY <3>3, <3>4 DEF InLine
    <3> QED BY <2>8, <3>3, <3>4, <3>5
  <2>11. CASE l + 1 = Len(w)
    <3>1. c = "\n" /\ l = Len(w) - 1 BY <1>1, <2>2, <2>5, <2>11 DEF WholeLine
    <3>2. st2 = "LF1" BY <2>3, <3>1 DEF InLine, crlf
    <3>3. ln2 = w
      <4>1. Len(ln2) = Len(w) /\ \A j \in 1 .. Len(w) : ln2[j] = w[j] BY <1>5, <2>6, <2>11
      <4> HIDE DEF ln2
      <4> QED BY <1>5, <2>2, <4>1, SeqEqual DEF Texts
    <3>4. p + 1 = off[k + 1] + Len(<< >>) /\ off[k + 1] \in Nat
      <4>1. off[k + 1] \in Nat BY <1>2, <2>1
      <4>2. p + 1 = off[k] + Len(w) /\ Len(<< >>) = 0 BY <1>5, <2>7, <2>11, TailLength
      <4> QED BY <2>4, <4>1, <4>2
    <3>5. k + 1 < n => /\ Len(<< >>) < Len(b[(k + 1) + 1])
                       /\ InLine(st2, b[(k + 1) + 1], Len(<< >>), (k + 1) = 0)
      <4> SUFFICES ASSUME k + 1 < n PROVE /\ Len(<< >>) < Len(b[(k + 1) + 1])
                                          /\ InLine(st2, b[(k + 1) + 1], Len(<< >>), (k + 1) = 0)
        OBVIOUS
      <4>1. (k + 1) + 1 \in 1 .. n BY <1>1
      <4>2. WholeLine(b[(k + 1) + 1]) BY <4>1 DEF Lined
      <4>3. Len(b[(k + 1) + 1]) \in Nat /\ Len(b[(k + 1) + 1]) > 2 BY <4>2, LenProperties DEF WholeLine, Texts
      <4>4. k + 1 # 0 BY <1>1
      <4>5. k + 1 \in Nat BY <1>1
      <4>6. InLine("LF1", b[(k + 1) + 1], 0, (k + 1) = 0) BY <4>3, <4>4, <4>5, AtStart
      <4> QED BY <3>2, <4>3, <4>6, TailLength
    <3>6. \A u : \A j \in 1 .. Len(<< >>) : << >>[j] = u[j] BY TailLength
    <3> HIDE DEF n
    <3>7. Reads(b, off, k + 1, tl, t, p + 1, st2, << >>)
      <4>1. Len(tl) \in Nat /\ Len(<< >>) <= 1 /\ Len(<< >>) <= Len(tl) /\ Len(<< >>) = 0 BY <1>6, TailLength
      <4> QED BY <1>2, <2>1, <3>2, <3>4, <3>5, <3>6, <4>1, TailLength DEF Reads, n
    <3> QED BY <1>7, <3>2, <3>3, <3>7 DEF NextLine, w, n
  <2> QED BY <1>1, <2>2, <2>3, <2>9, <2>10, <2>11
<1>8. CASE k = n
  <2>1. /\ l <= 1 /\ l <= Len(tl) /\ (\A j \in 1 .. l : ln[j] = tl[j])
        /\ st = IF l = 0 THEN "LF1" ELSE "CR2"
    BY <1>8 DEF Reads
  <2>2. l < Len(tl) /\ tl = Crlf
    <3> HIDE DEF l, n
    <3>1. l < Len(tl) BY <1>1, <1>2, <1>3, <1>6, <1>8
    <3> QED BY <1>1, <1>6, <3>1
  <2>3. c = tl[l + 1]
    <3>1. l + 1 \in 1 .. Len(tl) /\ p + 1 = off[n] + (l + 1) BY <1>1, <1>3, <1>6, <1>8, <2>2
    <3> QED BY <1>2, <3>1
  <2>4. CASE l = 1
    <3>1. c = "\n" /\ st = "CR2" BY <1>6, <2>1, <2>2, <2>3, <2>4
    <3>2. st2 = "LF2" BY <3>1 DEF crlf
    <3> QED BY <1>8, <2>2, <3>2 DEF Ends
  <2>5. CASE l = 0
    <3>1. c = "\r" /\ st = "LF1" BY <1>6, <2>1, <2>2, <2>3, <2>5
    <3>2. st2 = "CR2" BY <3>1 DEF crlf
    <3>3. p + 1 = off[k] + Len(ln2) /\ Len(ln2) = 1 /\ ln2[1] = tl[1] BY <1>1, <1>3, <1>5, <2>3, <2>5
    <3>4. \A j \in 1 .. Len(ln2) : ln2[j] = tl[j] BY <3>3
    <3>5. Len(tl) = 2 /\ ~(k < n) BY <1>1, <1>8, <2>2, TailLength
    <3>6. Len(ln2) <= 1 /\ Len(ln2) <= Len(tl) /\ st2 = IF Len(ln2) = 0 THEN "LF1" ELSE "CR2"
      BY <3>2, <3>3, <3>5
    <3> HIDE DEF n, ln2
    <3>7. Reads(b, off, k, tl, t, p + 1, st2, ln2)
      BY <1>1, <1>2, <1>5, <1>8, <3>3, <3>4, <3>5, <3>6 DEF Reads, n
    <3> QED BY <3>2, <3>7 DEF SameLine, ln2
  <2>6. l = 0 \/ l = 1
    <3>1. l \in Nat /\ l <= 1 BY <1>1, <2>1
    <3> HIDE DEF l
    <3> QED BY <3>1
  <2> QED BY <2>4, <2>5, <2>6
<1> QED BY <1>1, <1>7, <1>8

-----------------------------------------------------------------------------
(***************************************************************************)
(* The message (SipParsedMessage), after k lines of b.                     *)
(***************************************************************************)
Names == {parse(w).name : w \in Texts}
Entries == [name : Names, text : Texts]
Entry(w) == [name |-> parse(w).name, text |-> w]

\* The list and the map are of the same headers, and no two of one name.
Table(m) ==
  /\ m.list \in Seq(Entries)
  /\ DOMAIN m.map = {m.list[i].name : i \in 1 .. Len(m.list)}
  /\ \A i, j \in 1 .. Len(m.list) : m.list[i].name = m.list[j].name => i = j

Listed(m, b, k) == \A i \in 1 .. Len(m.list) : \E j \in 1 .. k : m.list[i].text = b[j]

\* No two lines are headers of one name.
Apart(b) == \A i, j \in 1 .. Len(b) :
              parse(b[i]).ok /\ parse(b[j]).ok /\ parse(b[i]).name = parse(b[j]).name => i = j

Known(m, i, w) == parse(w).ok /\ m.list[i] = Entry(w) /\ m.map[parse(w).name] = parse(w)
InOrder(m, b, k) ==
  /\ Len(m.list) <= k
  /\ \A i \in 1 .. Len(m.list) : \E j \in 1 .. k : i <= j /\ Known(m, i, b[j])

Complete(m, b, k) ==
  (\A i \in 1 .. k : parse(b[i]).ok) => Len(m.list) = k /\ \A i \in 1 .. k : Known(m, i, b[i])

\* Only the first line of b is of the type ty.
OnlyFirst(b, ty) == \A i \in 1 .. Len(b) : parse(b[i]).ok /\ (i = 1 <=> parse(b[i]).type = ty)

After(m, b, k) ==
  /\ Table(m)
  /\ Listed(m, b, k)
  /\ Apart(b) => InOrder(m, b, k) /\ Complete(m, b, k)
  /\ k > 0 /\ OnlyFirst(b, "RESPONSE") => m.code = parse(b[1]).code
  /\ k > 0 /\ OnlyFirst(b, "METHOD") => m.method = parse(b[1]).name

LEMMA MinIn == ASSUME NEW S \in SUBSET Nat, S # {} PROVE Min(S) \in S
<1>1. \E n \in S : \A k \in S : n <= k BY Least
<1> QED BY <1>1 DEF Min

\* Where a header of the name of line w is listed.
Places(m, w) == {i \in 1 .. Len(m.list) : m.list[i].name = parse(w).name}

\* m2 is m with the header of line w.
Added(m, w, m2) ==
  /\ m2.map = [n \in DOMAIN m.map \cup {parse(w).name} |->
                 IF n \in DOMAIN m.map THEN m.map[n] ELSE parse(w)]
  /\ m2.code = IF parse(w).type = "RESPONSE" THEN parse(w).code ELSE m.code
  /\ m2.method = IF parse(w).type = "METHOD" THEN parse(w).name ELSE m.method
  /\ Places(m, w) = {} => m2.list = Append(m.list, Entry(w))
  /\ Places(m, w) # {} => \E i \in Places(m, w) : m2.list = [m.list EXCEPT ![i] = Entry(w)]

LEMMA HeaderAdded ==
  ASSUME NEW m, m.list \in Seq(Entries), NEW w \in Texts, parse(w).ok
  PROVE  Added(m, w, parseHeader(m, w))
<1> DEFINE h == parse(w)
           m2 == parseHeader(m, w)
           known == Places(m, w)
<1>1. DOMAIN m.list = 1 .. Len(m.list) /\ Len(m.list) \in Nat BY LenProperties
<1>2. Entry(w) = [name |-> h.name, text |-> w] BY DEF Entry
<1>3. known = {i \in DOMAIN m.list : m.list[i].name = h.name} BY <1>1 DEF Places
<1>4. m2 = addHeader(m, w, h) BY DEF parseHeader
<1>5. h.ok OBVIOUS
<1> HIDE DEF h, m2, known
<1>6. m2 = [list |-> IF known = {} THEN Append(m.list, Entry(w))
                     ELSE [m.list EXCEPT ![Min(known)] = Entry(w)],
            map |-> [n \in DOMAIN m.map \cup {h.name} |-> IF n \in DOMAIN m.map THEN m.map[n] ELSE h],
            code |-> IF h.type = "RESPONSE" THEN h.code ELSE m.code,
            method |-> methodOf(m, h)]
  BY <1>2, <1>3, <1>4, <1>5, Zenon DEF addHeader
<1>7. known # {} => Min(known) \in known
  <2>1. known \in SUBSET Nat BY <1>1, <1>3
  <2> QED BY <2>1, MinIn
<1>8. ASSUME known # {} PROVE \E i \in known : m2.list = [m.list EXCEPT ![i] = Entry(w)]
  <2>1. m2.list = [m.list EXCEPT ![Min(known)] = Entry(w)] BY <1>6, <1>8
  <2> QED BY <1>7, <1>8, <2>1, Zenon
<1>9. known = {} => m2.list = Append(m.list, Entry(w)) BY <1>6
<1>10. /\ m2.map = [n \in DOMAIN m.map \cup {h.name} |-> IF n \in DOMAIN m.map THEN m.map[n] ELSE h]
       /\ m2.code = IF h.type = "RESPONSE" THEN h.code ELSE m.code
       /\ m2.method = IF h.type = "METHOD" THEN h.name ELSE m.method
  BY <1>6 DEF methodOf
<1> QED BY <1>8, <1>9, <1>10 DEF Added, h, m2, known

LEMMA AfterNone ==
  ASSUME NEW b PROVE After(NoMessage, b, 0)
<1>1. Len(<< >>) = 0 /\ << >> \in Seq(Entries) /\ DOMAIN << >> = {} OBVIOUS
<1>2. NoMessage.list = << >> /\ NoMessage.map = << >> BY DEF NoMessage
<1>3. Table(NoMessage) BY <1>1, <1>2 DEF Table
<1>4. Listed(NoMessage, b, 0) BY <1>1, <1>2 DEF Listed
<1>5. InOrder(NoMessage, b, 0) BY <1>1, <1>2 DEF InOrder
<1>6. Complete(NoMessage, b, 0) BY <1>1, <1>2 DEF Complete
<1> QED BY <1>3, <1>4, <1>5, <1>6 DEF After

\* A header of a name that was not there.
LEMMA AddedNew ==
  ASSUME NEW m, Table(m), NEW w \in Texts, parse(w).ok,
         \A i \in 1 .. Len(m.list) : m.list[i].name # parse(w).name,
         NEW m2, m2 = parseHeader(m, w)
  PROVE  /\ Table(m2) /\ Len(m2.list) = Len(m.list) + 1
         /\ \A i \in 1 .. Len(m.list) : m2.list[i] = m.list[i] /\ m2.map[m.list[i].name] = m.map[m.list[i].name]
         /\ Known(m2, Len(m.list) + 1, w)
<1> DEFINE h == parse(w)
           n == Len(m.list)
           l == m2.list
<1>1. m.list \in Seq(Entries) /\ n \in Nat /\ \A i \in 1 .. n : m.list[i] \in Entries
  BY LenProperties DEF Table
<1>2. Entry(w) \in Entries /\ Entry(w).name = h.name BY DEF Entry, Entries, Names
<1>3. Places(m, w) = {} BY DEF Places
<1>4. /\ l = Append(m.list, Entry(w))
      /\ m2.map = [x \in DOMAIN m.map \cup {h.name} |-> IF x \in DOMAIN m.map THEN m.map[x] ELSE h]
  <2>1. Added(m, w, m2) BY <1>1, HeaderAdded
  <2> QED BY <1>3, <2>1 DEF Added
<1>5. /\ l \in Seq(Entries) /\ Len(l) = n + 1 /\ l[n + 1] = Entry(w)
      /\ \A i \in 1 .. n : l[i] = m.list[i]
  BY <1>1, <1>2, <1>4, AppendProperties
<1>6. DOMAIN m.map = {m.list[i].name : i \in 1 .. n} BY DEF Table
<1> HIDE DEF l, n
<1>7. \A i \in 1 .. n + 1 : i \in 1 .. n \/ i = n + 1 BY <1>1
<1>8. {l[i].name : i \in 1 .. n + 1} = {m.list[i].name : i \in 1 .. n} \cup {h.name}
  <2>1. n + 1 \in 1 .. n + 1 /\ \A i \in 1 .. n : i \in 1 .. n + 1 BY <1>1
  <2>2. \A i \in 1 .. n + 1 : l[i].name \in {m.list[j].name : j \in 1 .. n} \cup {h.name}
    BY <1>2, <1>5, <1>7
  <2>3. \A i \in 1 .. n : m.list[i].name = l[i].name BY <1>5
  <2>4. h.name = l[n + 1].name BY <1>2, <1>5
  <2> HIDE DEF h
  <2> QED BY <2>1, <2>2, <2>3, <2>4
<1>9. DOMAIN m2.map = {l[i].name : i \in 1 .. n + 1} BY <1>4, <1>6, <1>8
<1>10. \A i, j \in 1 .. n + 1 : l[i].name = l[j].name => i = j
  <2>1. \A i, j \in 1 .. n : l[i].name = l[j].name => i = j BY <1>5 DEF Table, n
  <2>2. \A i \in 1 .. n : l[i].name # h.name /\ l[n + 1].name = h.name BY <1>2, <1>5 DEF n
  <2> QED BY <1>7, <2>1, <2>2
<1>11. Table(m2) BY <1>5, <1>9, <1>10 DEF Table, l
<1>12. \A i \in 1 .. n : m2.map[m.list[i].name] = m.map[m.list[i].name] BY <1>4, <1>6
<1>13. h.name \notin DOMAIN m.map BY <1>6 DEF n
<1>14. m2.map[h.name] = h BY <1>4, <1>13
<1>15. Known(m2, n + 1, w) BY <1>5, <1>14 DEF Known, l
<1> QED BY <1>5, <1>11, <1>12, <1>15 DEF l, n

\* A header of a name that was.
LEMMA AddedAgain ==
  ASSUME NEW m, Table(m), NEW w \in Texts, parse(w).ok,
         NEW i0 \in 1 .. Len(m.list), m.list[i0].name = parse(w).name,
         NEW m2, m2 = parseHeader(m, w)
  PROVE  /\ Table(m2) /\ Len(m2.list) = Len(m.list)
         /\ \A i \in 1 .. Len(m.list) : m2.list[i].text \in {m.list[i].text, w}
<1> DEFINE h == parse(w)
           n == Len(m.list)
           l == m2.list
<1>1. m.list \in Seq(Entries) /\ n \in Nat /\ \A i \in 1 .. n : m.list[i] \in Entries
  BY LenProperties DEF Table
<1>2. Entry(w) \in Entries /\ Entry(w).name = h.name /\ Entry(w).text = w BY DEF Entry, Entries, Names
<1>3. Places(m, w) # {} BY DEF Places
<1>4. /\ \E i \in Places(m, w) : l = [m.list EXCEPT ![i] = Entry(w)]
      /\ m2.map = [x \in DOMAIN m.map \cup {h.name} |-> IF x \in DOMAIN m.map THEN m.map[x] ELSE h]
  <2>1. Added(m, w, m2) BY <1>1, HeaderAdded
  <2> QED BY <1>3, <2>1 DEF Added
<1>5. PICK i1 \in 1 .. n : m.list[i1].name = h.name /\ l = [m.list EXCEPT ![i1] = Entry(w)] BY <1>4 DEF Places
<1>6. l \in Seq(Entries) /\ Len(l) = n /\ \A i \in 1 .. n : l[i] = IF i = i1 THEN Entry(w) ELSE m.list[i]
  BY <1>1, <1>2, <1>5, ExceptSeq
<1>7. \A i \in 1 .. n : l[i].name = m.list[i].name /\ l[i].text \in {m.list[i].text, w}
  BY <1>2, <1>5, <1>6
<1>8. DOMAIN m.map = {m.list[i].name : i \in 1 .. n} /\ \A i, j \in 1 .. n : m.list[i].name = m.list[j].name => i = j
  BY DEF Table
<1> HIDE DEF l, n
<1>9. {l[i].name : i \in 1 .. n} = {m.list[i].name : i \in 1 .. n} BY <1>7
<1>10. h.name \in DOMAIN m.map BY <1>5, <1>8
<1>11. DOMAIN m2.map = DOMAIN m.map BY <1>4, <1>10
<1>12. Table(m2)
  <2>1. \A i, j \in 1 .. n : l[i].name = l[j].name => i = j BY <1>7, <1>8
  <2>2. DOMAIN m2.map = {l[i].name : i \in 1 .. Len(l)} BY <1>6, <1>8, <1>9, <1>11
  <2>3. m2.list \in Seq(Entries) /\ Len(m2.list) = n BY <1>6 DEF l
  <2> QED BY <2>1, <2>2, <2>3 DEF Table, l
<1> QED BY <1>6, <1>7, <1>12 DEF l, n

LEMMA AfterNext ==
  ASSUME NEW b, Lined(b), NEW k \in 0 .. Len(b) - 1, NEW m, After(m, b, k),
         NEW m2, m2 = parseHeader(m, b[k + 1])
  PROVE  After(m2, b, k + 1)
<1> DEFINE w == b[k + 1]
           h == parse(w)
           n == Len(m.list)
<1>1. /\ k \in Nat /\ k + 1 \in 1 .. k + 1 /\ k + 1 \in 1 .. Len(b)
      /\ \A j \in 1 .. k : j \in 1 .. k + 1 /\ j \in 1 .. Len(b) /\ j # k + 1
  OBVIOUS
<1>2. w \in Texts BY <1>1 DEF Lined, WholeLine
<1>3. Table(m) /\ Listed(m, b, k) /\ m.list \in Seq(Entries) /\ n \in Nat BY LenProperties DEF After, Table
<1>4. CASE ~h.ok
  <2>1. m2 = m BY <1>4 DEF parseHeader, addHeader
  <2>2. Listed(m2, b, k + 1) BY <1>1, <1>3, <2>1 DEF Listed
  <2>3. ASSUME Apart(b) PROVE InOrder(m2, b, k + 1)
    <3>1. InOrder(m, b, k) BY <2>3 DEF After
    <3> QED BY <1>1, <1>3, <2>1, <3>1 DEF InOrder
  <2>4. Complete(m2, b, k + 1) BY <1>1, <1>4 DEF Complete
  <2>5. ~OnlyFirst(b, "RESPONSE") /\ ~OnlyFirst(b, "METHOD") BY <1>1, <1>4 DEF OnlyFirst
  <2> QED BY <1>3, <2>1, <2>2, <2>3, <2>4, <2>5 DEF After
<1>5. CASE h.ok
  <2>1. /\ m2.code = IF h.type = "RESPONSE" THEN h.code ELSE m.code
        /\ m2.method = IF h.type = "METHOD" THEN h.name ELSE m.method
    <3>1. Added(m, w, m2) BY <1>2, <1>3, <1>5, HeaderAdded
    <3> QED BY <3>1 DEF Added
  <2>2. OnlyFirst(b, "RESPONSE") => m2.code = parse(b[1]).code
    <3>1. CASE k = 0 BY <1>1, <2>1, <3>1 DEF OnlyFirst
    <3>2. CASE k # 0
      <4>1. k > 0 /\ k + 1 # 1 BY <1>1, <3>2
      <4> QED BY <1>1, <2>1, <4>1 DEF OnlyFirst, After
    <3> QED BY <3>1, <3>2
  <2>3. OnlyFirst(b, "METHOD") => m2.method = parse(b[1]).name
    <3>1. CASE k = 0 BY <1>1, <2>1, <3>1 DEF OnlyFirst
    <3>2. CASE k # 0
      <4>1. k > 0 /\ k + 1 # 1 BY <1>1, <3>2
      <4> QED BY <1>1, <2>1, <4>1 DEF OnlyFirst, After
    <3> QED BY <3>1, <3>2
  <2>4. CASE \A i \in 1 .. n : m.list[i].name # h.name
    <3>1. /\ Table(m2) /\ Len(m2.list) = n + 1
          /\ \A i \in 1 .. n : m2.list[i] = m.list[i] /\ m2.map[m.list[i].name] = m.map[m.list[i].name]
          /\ Known(m2, n + 1, w)
      BY <1>2, <1>3, <1>5, <2>4, AddedNew
    <3>2. \A i \in 1 .. n + 1 : i \in 1 .. n \/ i = n + 1 BY <1>3
    <3>3. \A v : \A i \in 1 .. n : Known(m, i, v) => Known(m2, i, v)
      <4> SUFFICES ASSUME NEW v, NEW i \in 1 .. n, Known(m, i, v) PROVE Known(m2, i, v) OBVIOUS
      <4>1. m.list[i].name = parse(v).name BY DEF Known, Entry
      <4> HIDE DEF n, w, h
      <4> QED BY <3>1, <4>1 DEF Known
    <3>4. Listed(m2, b, k + 1)
      <4>1. m2.list[n + 1].text = w BY <3>1 DEF Known, Entry
      <4>2. ASSUME NEW i \in 1 .. n PROVE \E j \in 1 .. k + 1 : m2.list[i].text = b[j]
        <5>1. PICK j \in 1 .. k : m.list[i].text = b[j] BY <1>3 DEF Listed
        <5> QED BY <1>1, <3>1, <5>1
      <4> HIDE DEF n
      <4> QED BY <1>1, <3>1, <3>2, <4>1, <4>2 DEF Listed
    <3>5. ASSUME Apart(b) PROVE InOrder(m2, b, k + 1) /\ Complete(m2, b, k + 1)
      <4>1. InOrder(m, b, k) /\ Complete(m, b, k) BY <3>5 DEF After
      <4>2. n <= k /\ \A i \in 1 .. n : \E j \in 1 .. k : i <= j /\ Known(m, i, b[j]) BY <4>1 DEF InOrder
      <4> HIDE DEF n
      <4>3. n + 1 <= k + 1 BY <1>1, <1>3, <4>2
      <4>4. \A i \in 1 .. n : \E j \in 1 .. k + 1 : i <= j /\ Known(m2, i, b[j]) BY <1>1, <3>3, <4>2
      <4>5. \E j \in 1 .. k + 1 : n + 1 <= j /\ Known(m2, n + 1, b[j]) BY <1>1, <3>1, <4>3
      <4>6. InOrder(m2, b, k + 1) BY <3>1, <3>2, <4>3, <4>4, <4>5 DEF InOrder
      <4>7. ASSUME \A i \in 1 .. k + 1 : parse(b[i]).ok
            PROVE  Len(m2.list) = k + 1 /\ \A i \in 1 .. k + 1 : Known(m2, i, b[i])
        <5>1. n = k /\ \A i \in 1 .. k : Known(m, i, b[i]) BY <1>1, <4>1, <4>7 DEF Complete, n
        <5>2. \A i \in 1 .. k + 1 : i \in 1 .. k \/ i = k + 1 BY <1>1
        <5> QED BY <3>1, <3>3, <5>1, <5>2
      <4> QED BY <4>6, <4>7 DEF Complete
    <3> QED BY <2>2, <2>3, <3>1, <3>4, <3>5 DEF After
  <2>5. CASE \E i \in 1 .. n : m.list[i].name = h.name
    <3>1. PICK i0 \in 1 .. n : m.list[i0].name = h.name BY <2>5
    <3>2. Table(m2) /\ Len(m2.list) = n /\ \A i \in 1 .. n : m2.list[i].text \in {m.list[i].text, w}
      BY <1>2, <1>3, <1>5, <3>1, AddedAgain
    <3>3. Listed(m2, b, k + 1)
      <4> SUFFICES ASSUME NEW i \in 1 .. n PROVE \E j \in 1 .. k + 1 : m2.list[i].text = b[j]
        BY <3>2 DEF Listed
      <4>1. CASE m2.list[i].text = w BY <1>1, <4>1
      <4>2. CASE m2.list[i].text = m.list[i].text BY <1>1, <1>3, <4>2 DEF Listed
      <4> QED BY <3>2, <4>1, <4>2
    <3>4. ~Apart(b)
      <4> SUFFICES ASSUME Apart(b) PROVE FALSE OBVIOUS
      <4>1. PICK j \in 1 .. k : Known(m, i0, b[j]) BY <3>1 DEF After, InOrder
      <4>2. parse(b[j]).ok /\ parse(b[j]).name = h.name BY <3>1, <4>1 DEF Known, Entry
      <4> QED BY <1>1, <1>5, <4>2 DEF Apart
    <3> QED BY <2>2, <2>3, <3>2, <3>3, <3>4 DEF After
  <2> QED BY <2>4, <2>5
<1> QED BY <1>4, <1>5

-----------------------------------------------------------------------------
(***************************************************************************)
(* The lines of a request, and of the answer to a message.                 *)
(***************************************************************************)
Blocks(r) == [i \in DOMAIN r |-> r[i].text \o Crlf]
Status == StatusLine(<<"2", "0", "0">>)
Echoed(m) == [i \in 1 .. Len(m.list) - 1 |-> m.list[i + 1].text]
Reply(m) == <<Status>> \o Echoed(m)
TailOf(m) == IF Len(m.list) <= 1 THEN << >> ELSE Crlf

LEMMA Widened == ASSUME NEW u \in Seq(STRING) PROVE u \in Texts
<1>1. \A i \in 1 .. Len(u) : u[i] \in Symbol
  <2>1. STRING \subseteq Symbol BY Zenon DEF Symbol
  <2> DEFINE S == STRING
  <2>2. u \in Seq(S) /\ S \subseteq Symbol BY <2>1
  <2> HIDE DEF S
  <2> QED BY <2>2
<1>2. u = [i \in 1 .. Len(u) |-> u[i]] /\ Len(u) \in Nat OBVIOUS
<1> HIDE DEF Symbol
<1> QED BY <1>1, <1>2 DEF Texts

\* What a header read from a line of a request is.
LEMMA RequestParsed ==
  ASSUME NEW r \in Requests, NEW i \in DOMAIN r
  PROVE  /\ parse(r[i].text \o Crlf).ok => parse(r[i].text \o Crlf).name = r[i].name
         /\ i > 1 => r[i].name \notin FirstWords
         /\ AllPlain(r) => /\ parse(r[i].text \o Crlf).ok
                           /\ i = 1 <=> parse(r[i].text \o Crlf).type = "METHOD"
                           /\ Tells(parseHeader(NoMessage, r[i].text \o Crlf), r[i], i = 1)
BY RequestsAssumption, ZenonT(60)

LEMMA RequestLined ==
  ASSUME NEW r \in Requests
  PROVE  /\ Lined(Blocks(r)) /\ Len(Blocks(r)) = Len(r) /\ Len(r) \in Nat /\ Len(r) > 0
         /\ DOMAIN r = 1 .. Len(r) /\ \A i \in 1 .. Len(r) : Blocks(r)[i] = r[i].text \o Crlf
<1> DEFINE n == Len(r)
<1>1. r \in Seq(RequestLine) /\ r # << >> BY RequestsAssumption
<1>2. n \in Nat /\ n > 0 /\ DOMAIN r = 1 .. n /\ \A i \in 1 .. n : r[i] \in RequestLine
  BY <1>1, EmptySeq, LenProperties
<1>3. ASSUME NEW i \in 1 .. n PROVE WholeLine(r[i].text \o Crlf)
  <2> DEFINE u == r[i].text
             w == u \o Crlf
  <2>1. /\ u # << >> /\ Last(u) # "\r" /\ \A j \in DOMAIN u : u[j] # "\n"
    BY <1>2, RequestsAssumption
  <2>2. u \in Seq(STRING) BY <1>2 DEF RequestLine
  <2>3. u \in Texts
    <3> HIDE DEF u
    <3> QED BY <2>2, Widened
  <2> HIDE DEF u
  <2>4. Len(u) \in Nat /\ Len(u) > 0 /\ DOMAIN u = 1 .. Len(u) BY <2>1, <2>2, EmptySeq, LenProperties
  <2>5. /\ w \in Texts /\ Len(w) = Len(u) + 2
        /\ \A j \in 1 .. Len(u) : w[j] = u[j]
        /\ \A j \in 1 .. 2 : w[Len(u) + j] = Crlf[j]
    <3>1. Crlf \in Texts /\ Len(Crlf) = 2 BY TailLength
    <3>2. /\ w \in Texts /\ Len(w) = Len(u) + Len(Crlf)
          /\ \A j \in 1 .. Len(u) : w[j] = u[j]
          /\ \A j \in 1 .. Len(Crlf) : w[Len(u) + j] = Crlf[j]
      BY <2>3, <3>1, Concat
    <3> HIDE DEF w
    <3> QED BY <3>1, <3>2
  <2>6. u[Len(u)] # "\r" BY <2>1, <2>4 DEF Last
  <2> HIDE DEF w
  <2>7. w[Len(w)] = "\n" /\ w[Len(w) - 1] = "\r" /\ w[Len(w) - 2] # "\r" /\ Len(w) > 2
    <3>1. Len(w) = Len(u) + 2 /\ Len(w) - 1 = Len(u) + 1 /\ Len(w) - 2 = Len(u) BY <2>4, <2>5
    <3>2. w[Len(u) + 1] = "\r" /\ w[Len(u) + 2] = "\n" BY <2>5, TailLength
    <3>3. w[Len(u)] = u[Len(u)] BY <2>4, <2>5
    <3> QED BY <2>4, <2>6, <3>1, <3>2, <3>3
  <2>8. ASSUME NEW j \in 1 .. Len(w) - 1 PROVE w[j] # "\n"
    <3>1. j \in 1 .. Len(u) \/ j = Len(w) - 1 BY <2>4, <2>5
    <3>2. CASE j \in 1 .. Len(u) BY <2>1, <2>4, <2>5, <3>2
    <3> QED BY <2>7, <3>1, <3>2
  <2>9. WholeLine(w) BY <2>5, <2>7, <2>8 DEF WholeLine
  <2> QED BY <2>9 DEF w, u
<1>4. Blocks(r) = [i \in 1 .. n |-> r[i].text \o Crlf] BY <1>2 DEF Blocks
<1>5. \A i \in 1 .. n : r[i].text \o Crlf \in Texts BY <1>3 DEF WholeLine
<1>6. Blocks(r) \in Seq(Texts) /\ Len(Blocks(r)) = n
  <2> HIDE DEF n
  <2> QED BY <1>2, <1>4, <1>5
<1>7. \A i \in 1 .. n : Blocks(r)[i] = r[i].text \o Crlf BY <1>4
<1>8. Blocks(r) # << >> BY <1>2, <1>6, EmptySeq
<1> QED BY <1>2, <1>3, <1>6, <1>7, <1>8 DEF Lined

LEMMA StatusWhole ==
  /\ WholeLine(Status) /\ parse(Status).ok /\ parse(Status).name = <<"sip">>
  /\ parse(Status).type = "RESPONSE" /\ parse(Status).code = 200
<1> DEFINE u == <<"sip", "/", "2", ".", "0", " ">>
           v == <<"2", "0", "0">>
           x == <<" ", "reason">>
<1>1. /\ u \in Texts /\ Len(u) = 6 /\ \A j \in 1 .. 6 : u[j] # "\n"
      /\ v \in Texts /\ Len(v) = 3 /\ \A j \in 1 .. 3 : v[j] # "\n"
      /\ x \in Texts /\ Len(x) = 2 /\ x[1] # "\n" /\ x[2] = "reason"
  BY DEF Texts, Symbol
<1>2. Status = ((u \o v) \o x) \o Crlf
  <2>1. Status = u \o v \o x \o Crlf BY Zenon DEF Status, StatusLine
  <2> QED BY <2>1
<1> HIDE DEF u, v, x
<1> DEFINE y == u \o v
           z == y \o x
<1>3. /\ y \in Texts /\ Len(y) = 9
      /\ \A j \in 1 .. 6 : y[j] = u[j]
      /\ \A j \in 1 .. 3 : y[6 + j] = v[j]
  <2>1. /\ y \in Texts /\ Len(y) = Len(u) + Len(v)
        /\ \A j \in 1 .. Len(u) : y[j] = u[j]
        /\ \A j \in 1 .. Len(v) : y[Len(u) + j] = v[j]
    BY <1>1, Concat
  <2> HIDE DEF y
  <2> QED BY <1>1, <2>1
<1>4. \A j \in 1 .. 9 : y[j] # "\n"
  <2>1. \A j \in 1 .. 9 : j \in 1 .. 6 \/ (j - 6 \in 1 .. 3 /\ 6 + (j - 6) = j) OBVIOUS
  <2> HIDE DEF y
  <2> QED BY <1>1, <1>3, <2>1
<1> HIDE DEF y
<1>5. /\ z \in Texts /\ Len(z) = 11
      /\ \A j \in 1 .. 9 : z[j] = y[j]
      /\ z[10] = x[1] /\ z[11] = x[2]
  <2>1. /\ z \in Texts /\ Len(z) = Len(y) + Len(x)
        /\ \A j \in 1 .. Len(y) : z[j] = y[j]
        /\ \A j \in 1 .. Len(x) : z[Len(y) + j] = x[j]
    <3>1. y \in Texts /\ x \in Texts BY <1>1, <1>3
    <3> QED BY <3>1, Concat
  <2> HIDE DEF z
  <2>2. 1 \in 1 .. Len(x) /\ 2 \in 1 .. Len(x) /\ Len(y) + 1 = 10 /\ Len(y) + 2 = 11 BY <1>1, <1>3
  <2>3. z[10] = x[1] /\ z[11] = x[2] BY <2>1, <2>2
  <2> QED BY <1>1, <1>3, <2>1, <2>3
<1> HIDE DEF z
<1>6. \A j \in 1 .. 11 : z[j] # "\n"
  <2>1. \A j \in 1 .. 11 : j \in 1 .. 9 \/ j = 10 \/ j = 11 OBVIOUS
  <2> QED BY <1>1, <1>4, <1>5, <2>1
<1>7. /\ Status \in Texts /\ Len(Status) = 13
      /\ \A j \in 1 .. 11 : Status[j] = z[j]
      /\ Status[12] = "\r" /\ Status[13] = "\n"
  <2> DEFINE q == z \o Crlf
  <2>1. Status = q BY <1>2 DEF y, z
  <2>2. /\ q \in Texts /\ Len(q) = Len(z) + Len(Crlf)
        /\ \A j \in 1 .. Len(z) : q[j] = z[j]
        /\ \A j \in 1 .. Len(Crlf) : q[Len(z) + j] = Crlf[j]
    BY <1>5, TailLength, Concat
  <2> HIDE DEF q
  <2>3. 1 \in 1 .. Len(Crlf) /\ 2 \in 1 .. Len(Crlf) /\ Len(z) + 1 = 12 /\ Len(z) + 2 = 13
    BY <1>5, TailLength
  <2>4. q[12] = "\r" /\ q[13] = "\n" BY <2>2, <2>3, TailLength
  <2> QED BY <1>5, <2>1, <2>2, <2>4, TailLength
<1>8. \A j \in 1 .. 12 : Status[j] # "\n"
  <2>1. \A j \in 1 .. 12 : j \in 1 .. 11 \/ j = 12 OBVIOUS
  <2> QED BY <1>6, <1>7, <2>1
<1>9. Status[11] = "reason" BY <1>1, <1>5, <1>7
<1>10. WholeLine(Status)
  <2>1. Len(Status) - 2 = 11 /\ Len(Status) - 1 = 12 BY <1>7
  <2> QED BY <1>7, <1>8, <1>9, <2>1 DEF WholeLine
<1> QED BY <1>10, StatusAssumption DEF Status

LEMMA ReplyLined ==
  ASSUME NEW m, Table(m), NEW b, Lined(b), NEW k \in 0 .. Len(b), Listed(m, b, k)
  PROVE  /\ Lined(Reply(m)) /\ TailOf(m) \in Tails
         /\ Len(m.list) \in Nat
         /\ Echoed(m) \in Seq(Texts)
         /\ Len(Echoed(m)) = IF Len(m.list) = 0 THEN 0 ELSE Len(m.list) - 1
         /\ Len(Reply(m)) = IF Len(m.list) = 0 THEN 1 ELSE Len(m.list)
         /\ Reply(m)[1] = Status
         /\ \A i \in 2 .. Len(m.list) : Reply(m)[i] = m.list[i].text
<1> DEFINE n == Len(m.list)
           e == Echoed(m)
           q == Reply(m)
<1>1. n \in Nat BY LenProperties DEF Table
<1>2. \A i \in 1 .. n : WholeLine(m.list[i].text)
  <2> SUFFICES ASSUME NEW i \in 1 .. n PROVE WholeLine(m.list[i].text) OBVIOUS
  <2>1. PICK j \in 1 .. k : m.list[i].text = b[j] BY DEF Listed
  <2>2. j \in 1 .. Len(b) OBVIOUS
  <2> QED BY <2>1, <2>2 DEF Lined
<1>3. ASSUME NEW i \in 1 .. n - 1 PROVE i + 1 \in 1 .. n /\ m.list[i + 1].text \in Texts
  <2>1. i + 1 \in 1 .. n BY <1>1
  <2> QED BY <1>2, <2>1 DEF WholeLine
<1>4. e = [i \in 1 .. n - 1 |-> m.list[i + 1].text] BY DEF Echoed
<1> HIDE DEF n, e
<1>5. e \in Seq(Texts) /\ Len(e) = IF n = 0 THEN 0 ELSE n - 1
  <2>1. CASE n = 0
    <3>1. e = << >> BY <1>4, <2>1
    <3> QED BY <2>1, <3>1
  <2>2. CASE n # 0
    <3>1. n - 1 \in Nat BY <1>1, <2>2
    <3> QED BY <1>3, <1>4, <2>2, <3>1
  <2> QED BY <2>1, <2>2
<1>6. Status \in Texts BY StatusWhole DEF WholeLine
<1>7. /\ q \in Seq(Texts) /\ Len(q) = 1 + Len(e) /\ q[1] = Status
      /\ \A i \in 1 .. Len(e) : q[i + 1] = e[i]
  BY <1>5, <1>6 DEF Reply, e
<1> HIDE DEF q
<1>8. Len(q) = IF n = 0 THEN 1 ELSE n BY <1>1, <1>5, <1>7
<1>9. ASSUME NEW i \in 2 .. n PROVE q[i] = m.list[i].text
  <2>1. i - 1 \in 1 .. Len(e) /\ i - 1 \in 1 .. n - 1 /\ (i - 1) + 1 = i BY <1>1, <1>5
  <2>2. q[(i - 1) + 1] = e[i - 1] BY <1>7, <2>1
  <2>3. e[i - 1] = m.list[(i - 1) + 1].text BY <1>4, <2>1
  <2> QED BY <2>1, <2>2, <2>3
<1>10. \A i \in 1 .. Len(q) : WholeLine(q[i])
  <2>1. \A i \in 1 .. Len(q) : i = 1 \/ (i \in 2 .. n /\ i \in 1 .. n) BY <1>1, <1>8
  <2> QED BY <1>2, <1>7, <1>9, <2>1, StatusWhole DEF n
<1>11. q # << >> BY <1>1, <1>8, EmptySeq
<1>12. Lined(q) BY <1>7, <1>10, <1>11 DEF Lined
<1> QED BY <1>1, <1>5, <1>7, <1>8, <1>9, <1>12 DEF Tails, TailOf, n, e, q

LEMMA ReplyMade ==
  ASSUME NEW m, Table(m), NEW b, Lined(b), NEW k \in 0 .. Len(b), Listed(m, b, k)
  PROVE  \E off : Made(SipResponse(m, <<"2", "0", "0">>), Reply(m), TailOf(m), off)
<1> DEFINE e == Echoed(m)
           tl == TailOf(m)
           n == Len(m.list)
<1>1. n \in Nat /\ e \in Seq(Texts) /\ tl \in Tails /\ Len(e) = IF n = 0 THEN 0 ELSE n - 1
  BY ReplyLined
<1>2. tl \in Texts /\ Status \in Texts BY <1>1, TailLength, StatusWhole DEF Tails, WholeLine
<1>3. CASE n <= 1
  <2>1. Len(e) = 0 /\ e = << >> /\ tl = << >>
    <3>1. tl = << >> BY <1>3 DEF TailOf
    <3> HIDE DEF e, n
    <3>2. Len(e) = 0 BY <1>1, <1>3
    <3> QED BY <1>1, <3>1, <3>2, EmptySeq
  <2> DEFINE off == [k0 \in 0 .. 0 |-> 0]
  <2>2. Cut(<< >>, << >>, off) BY TailLength DEF Cut
  <2>3. Len(<< >>) = off[Len(<< >>)] + Len(<< >>) BY TailLength
  <2> HIDE DEF off
  <2>4. Made(<< >>, << >>, << >>, off) BY <2>2, <2>3, TailLength DEF Made
  <2>5. << >> \in Seq(Texts) OBVIOUS
  <2>6. \E off2 : Made(Status \o << >>, <<Status>> \o << >>, << >>, off2)
    BY <1>2, <2>4, <2>5, TailLength, Prepended
  <2>7. SipResponse(m, <<"2", "0", "0">>) = Status \o << >> BY <1>3 DEF SipResponse, Status
  <2> QED BY <2>1, <2>6, <2>7 DEF Reply
<1>4. CASE ~(n <= 1)
  <2>1. Len(e) # 0 /\ e # << >> /\ tl = Crlf
    <3>1. tl = Crlf BY <1>4 DEF TailOf
    <3> HIDE DEF e, n
    <3>2. Len(e) # 0 BY <1>1, <1>4
    <3> QED BY <3>1, <3>2, TailLength
  <2> DEFINE t == FlattenSeq(e) \o Crlf
  <2>2. PICK off : Made(t, e, Crlf, off)
    <3> HIDE DEF e
    <3> QED BY <1>1, <2>1, TailLength, Joining
  <2> HIDE DEF t
  <2>3. \E off2 : Made(Status \o t, <<Status>> \o e, Crlf, off2)
    <3> HIDE DEF e
    <3> QED BY <1>1, <1>2, <2>2, TailLength, Prepended
  <2>4. SipResponse(m, <<"2", "0", "0">>) = Status \o t BY <1>4 DEF SipResponse, Status, Echoed, t
  <2> QED BY <2>1, <2>3, <2>4 DEF Reply
<1> QED BY <1>3, <1>4

-----------------------------------------------------------------------------
(***************************************************************************)
(* The inductive invariant.                                                *)
(***************************************************************************)
Reading(b, tl) ==
  \E off, k : Reads(b, off, k, tl, text, pos, s, line) /\ After(msg, b, k)

IInv ==
  /\ lines \in Requests
  /\ phase \in {"request", "answer", "done", "closed"}
  /\ Table(msg) /\ Table(request)
  /\ phase = "request" => Reading(Blocks(lines), Crlf) /\ request = NoMessage
  /\ phase # "request" => After(request, Blocks(lines), Len(lines))
  /\ phase = "answer" => Reading(Reply(request), TailOf(request))
  /\ phase = "done" => Len(request.list) > 1 /\ After(msg, Reply(request), Len(Reply(request)))
  /\ phase = "closed" => Len(request.list) <= 1

\* The answer to what was read from a request is made of lines too.
LEMMA AnswerLined ==
  ASSUME NEW r \in Requests, NEW m, After(m, Blocks(r), Len(r))
  PROVE  /\ Lined(Reply(m)) /\ TailOf(m) \in Tails /\ Len(m.list) \in Nat
         /\ \E off : Made(SipResponse(m, <<"2", "0", "0">>), Reply(m), TailOf(m), off)
<1>1. Lined(Blocks(r)) /\ Len(Blocks(r)) = Len(r) /\ Len(r) \in Nat BY RequestLined
<1>2. Table(m) /\ Listed(m, Blocks(r), Len(r)) /\ Len(r) \in 0 .. Len(Blocks(r)) BY <1>1 DEF After
<1> QED BY <1>1, <1>2, ReplyLined, ReplyMade

LEMMA IInvInit == SipInit => IInv
<1> SUFFICES ASSUME SipInit PROVE IInv OBVIOUS
<1>1. lines \in Requests BY DEF SipInit
<1>2. PICK r \in Requests : r = lines BY <1>1
<1> DEFINE b == Blocks(r)
<1>3. Lined(b) /\ b \in Seq(Texts) /\ b # << >> BY RequestLined DEF Lined
<1>4. text = FlattenSeq(b) \o Crlf BY <1>2 DEF SipInit, Blocks
<1>5. PICK off : Made(text, b, Crlf, off)
  <2> HIDE DEF b
  <2> QED BY <1>3, <1>4, TailLength, Joining
<1>6. Reads(b, off, 0, Crlf, text, 0, "IDLE", << >>)
  <2> HIDE DEF b
  <2> QED BY <1>3, <1>5, ReadsFirst DEF Tails
<1>7. After(NoMessage, b, 0) BY AfterNone
<1>8. Reading(b, Crlf)
  <2> HIDE DEF b
  <2>1. Reads(b, off, 0, Crlf, text, pos, s, line) /\ After(msg, b, 0) BY <1>6, <1>7 DEF SipInit
  <2> QED BY <2>1 DEF Reading
<1>9. Table(NoMessage) BY <1>7 DEF After
<1> QED BY <1>1, <1>2, <1>8, <1>9 DEF SipInit, IInv

\* A symbol is read of a text that holds the lines of b.
LEMMA RecvReads ==
  ASSUME NEW b, Lined(b), NEW tl \in Tails, Reading(b, tl), Recv
  PROVE  Reading(b, tl)' /\ Table(msg')
<1>1. PICK off, k : Reads(b, off, k, tl, text, pos, s, line) /\ After(msg, b, k) BY DEF Reading
<1>2. PICK c : c = text[pos + 1] OBVIOUS
<1>3. PICK st2 : st2 = crlf(s, c) OBVIOUS
<1>4. /\ pos < Len(text) /\ pos' = pos + 1 /\ text' = text /\ s' = st2 /\ st2 # "LF2"
      /\ line' = IF st2 = "LF1" THEN << >> ELSE Append(line, c)
      /\ msg' = IF st2 = "LF1" THEN parseHeader(msg, Append(line, c)) ELSE msg
  BY <1>2, <1>3 DEF Recv
<1>5. \/ NextLine(b, off, k, tl, text, pos, line, c, st2)
      \/ SameLine(b, off, k, tl, text, pos, line, c, st2)
  BY <1>1, <1>2, <1>3, <1>4, ReadsNext DEF Ends
<1>6. CASE NextLine(b, off, k, tl, text, pos, line, c, st2)
  <2>1. /\ st2 = "LF1" /\ k < Len(b) /\ Append(line, c) = b[k + 1]
        /\ Reads(b, off, k + 1, tl, text, pos + 1, st2, << >>)
    BY <1>6 DEF NextLine
  <2>2. line' = << >> /\ msg' = parseHeader(msg, b[k + 1]) BY <1>4, <2>1
  <2>3. k \in 0 .. Len(b) - 1
    <3>1. k \in 0 .. Len(b) /\ Len(b) \in Nat BY <1>1 DEF Reads, Lined
    <3> QED BY <2>1, <3>1
  <2>4. After(parseHeader(msg, b[k + 1]), b, k + 1) BY <1>1, <2>3, AfterNext
  <2>5. Reads(b, off, k + 1, tl, text', pos', s', line') /\ After(msg', b, k + 1)
    BY <1>4, <2>1, <2>2, <2>4
  <2> QED BY <2>5 DEF Reading, After
<1>7. CASE SameLine(b, off, k, tl, text, pos, line, c, st2)
  <2>1. st2 # "LF1" /\ Reads(b, off, k, tl, text, pos + 1, st2, Append(line, c)) BY <1>7 DEF SameLine
  <2>2. line' = Append(line, c) /\ msg' = msg BY <1>4, <2>1
  <2>3. Reads(b, off, k, tl, text', pos', s', line') /\ After(msg', b, k) BY <1>1, <1>4, <2>1, <2>2
  <2> QED BY <2>3 DEF Reading, After
<1> QED BY <1>5, <1>6, <1>7

\* A blank line is read at the end of the lines of b, and all have been read.
LEMMA BlankLine ==
  ASSUME NEW b, Lined(b), NEW tl \in Tails, Reading(b, tl),
         pos < Len(text), crlf(s, text[pos + 1]) = "LF2"
  PROVE  tl = Crlf /\ After(msg, b, Len(b))
<1>1. PICK off, k : Reads(b, off, k, tl, text, pos, s, line) /\ After(msg, b, k) BY DEF Reading
<1>2. PICK c : c = text[pos + 1] OBVIOUS
<1>3. PICK st2 : st2 = crlf(s, c) OBVIOUS
<1>4. st2 = "LF2" BY <1>2, <1>3
<1>5. Ends(b, k, tl, st2) BY <1>1, <1>2, <1>3, <1>4, ReadsNext DEF NextLine, SameLine
<1> QED BY <1>1, <1>5 DEF Ends

LEMMA IInvStep == IInv /\ [SipNext]_sipVars => IInv'
<1> SUFFICES ASSUME IInv, [SipNext]_sipVars PROVE IInv' OBVIOUS
<1>1. PICK r \in Requests : r = lines BY DEF IInv
<1>2. PICK b : b = Blocks(r) OBVIOUS
<1>3. Lined(b) /\ Len(b) = Len(r) /\ Crlf \in Tails BY <1>2, RequestLined DEF Tails
<1>4. PICK m : m = request OBVIOUS
<1>5. PICK a : a = Reply(m) OBVIOUS
<1>6. PICK tl : tl = TailOf(m) OBVIOUS
<1>7. phase # "request" => Lined(a) /\ tl \in Tails /\ Len(m.list) \in Nat
  BY <1>1, <1>4, <1>5, <1>6, AnswerLined DEF IInv
<1>8. /\ phase \in {"request", "answer", "done", "closed"} /\ Table(msg) /\ Table(m)
      /\ phase = "request" => Reading(b, Crlf) /\ m = NoMessage
      /\ phase # "request" => After(m, b, Len(r))
      /\ phase = "answer" => Reading(a, tl)
      /\ phase = "done" => Len(m.list) > 1 /\ After(msg, a, Len(a))
      /\ phase = "closed" => Len(m.list) <= 1
  BY <1>1, <1>2, <1>4, <1>5, <1>6 DEF IInv
<1>9. CASE Recv
  <2>1. /\ phase \in {"request", "answer"} /\ UNCHANGED <<lines, request, phase>> BY <1>9 DEF Recv
  <2>2. phase = "request" => Reading(b, Crlf)' /\ Table(msg') BY <1>3, <1>8, <1>9, RecvReads
  <2>3. phase = "answer" => Reading(a, tl)' /\ Table(msg') BY <1>7, <1>8, <1>9, RecvReads
  <2>4. lines' = r /\ request' = m /\ phase' = phase BY <1>1, <1>4, <2>1
  <2>5. phase' = "request" => Reading(Blocks(lines), Crlf)' BY <1>2, <2>2, <2>4 DEF Reading
  <2>6. phase' = "answer" => Reading(Reply(request), TailOf(request))' BY <1>5, <1>6, <2>3, <2>4 DEF Reading
  <2>7. Table(msg') BY <2>1, <2>2, <2>3
  <2> QED BY <1>1, <1>2, <1>8, <2>1, <2>4, <2>5, <2>6, <2>7 DEF IInv
<1>10. CASE Answer
  <2>1. /\ phase = "request" /\ pos < Len(text) /\ crlf(s, text[pos + 1]) = "LF2"
        /\ request' = msg /\ text' = SipResponse(msg, <<"2", "0", "0">>)
        /\ pos' = 0 /\ s' = "IDLE" /\ line' = << >> /\ msg' = NoMessage
        /\ phase' = "answer" /\ lines' = lines
    BY <1>10 DEF Answer
  <2>2. After(msg, b, Len(b)) BY <1>3, <1>8, <2>1, BlankLine
  <2>3. PICK m2 : m2 = msg OBVIOUS
  <2>4. /\ Lined(Reply(m2)) /\ TailOf(m2) \in Tails
        /\ \E off : Made(SipResponse(m2, <<"2", "0", "0">>), Reply(m2), TailOf(m2), off)
    BY <1>2, <1>3, <2>2, <2>3, AnswerLined
  <2>5. PICK off : Made(SipResponse(m2, <<"2", "0", "0">>), Reply(m2), TailOf(m2), off) BY <2>4
  <2>6. Reads(Reply(m2), off, 0, TailOf(m2), SipResponse(m2, <<"2", "0", "0">>), 0, "IDLE", << >>)
    BY <2>4, <2>5, ReadsFirst
  <2>7. After(NoMessage, Reply(m2), 0) BY AfterNone
  <2>8. request' = m2 /\ text' = SipResponse(m2, <<"2", "0", "0">>) BY <2>1, <2>3
  <2>9. Reads(Reply(request'), off, 0, TailOf(request'), text', pos', s', line') /\ After(msg', Reply(request'), 0)
    BY <2>1, <2>6, <2>7, <2>8
  <2>10. Reading(Reply(request), TailOf(request))' BY <2>9 DEF Reading
  <2>11. After(request', Blocks(lines'), Len(lines')) BY <1>1, <1>2, <1>3, <2>1, <2>2
  <2>12. Table(msg') /\ Table(request') BY <1>8, <2>1, <2>7 DEF After
  <2> QED BY <1>1, <2>1, <2>10, <2>11, <2>12 DEF IInv
<1>11. CASE AnswerRead
  <2>1. /\ phase = "answer" /\ pos < Len(text) /\ crlf(s, text[pos + 1]) = "LF2"
        /\ phase' = "done" /\ UNCHANGED <<lines, msg, request>>
    BY <1>11 DEF AnswerRead
  <2>2. tl = Crlf /\ After(msg, a, Len(a)) BY <1>7, <1>8, <2>1, BlankLine
  <2>3. Len(m.list) > 1
    <3>1. ~(Len(m.list) <= 1)
      <4>1. Crlf # << >> BY DEF Crlf
      <4> QED BY <1>6, <2>2, <4>1 DEF TailOf
    <3> QED BY <1>7, <2>1, <3>1
  <2> QED BY <1>1, <1>2, <1>4, <1>5, <1>8, <2>1, <2>2, <2>3 DEF IInv
<1>12. CASE TimesOut
  <2>1. /\ phase \in {"request", "answer"} /\ pos = Len(text) /\ phase' = "closed"
        /\ UNCHANGED <<lines, msg, request>>
    BY <1>12 DEF TimesOut
  <2>2. phase # "request"
    <3> SUFFICES ASSUME phase = "request" PROVE FALSE OBVIOUS
    <3>1. PICK off, k : Reads(b, off, k, Crlf, text, pos, s, line) BY <1>8 DEF Reading
    <3>2. pos < Len(text) /\ pos \in 0 .. Len(text) BY <1>3, <3>1, Within
    <3> QED BY <2>1, <3>2
  <2>3. Len(m.list) <= 1
    <3> SUFFICES ASSUME ~(Len(m.list) <= 1) PROVE FALSE OBVIOUS
    <3>1. tl = Crlf BY <1>6 DEF TailOf
    <3>2. PICK off, k : Reads(a, off, k, tl, text, pos, s, line) BY <1>8, <2>1, <2>2 DEF Reading
    <3>3. pos < Len(text) /\ pos \in 0 .. Len(text) BY <1>7, <2>2, <3>1, <3>2, Within
    <3> QED BY <2>1, <3>3
  <2> QED BY <1>1, <1>2, <1>4, <1>8, <2>1, <2>2, <2>3 DEF IInv
<1>13. CASE UNCHANGED sipVars BY <1>13 DEF sipVars, IInv, Reading
<1> QED BY <1>9, <1>10, <1>11, <1>12, <1>13 DEF SipNext

LEMMA SipIInv == SipSpec => []IInv
<1> QED BY IInvInit, IInvStep, PTL DEF SipSpec

-----------------------------------------------------------------------------
(***************************************************************************)
(* What is read from a plain request.                                      *)
(***************************************************************************)
\* The lines of a plain request are headers, each of its own name.
LEMMA PlainBlocks ==
  ASSUME NEW r \in Requests, AllPlain(r)
  PROVE  /\ Apart(Blocks(r)) /\ OnlyFirst(Blocks(r), "METHOD")
         /\ \A i \in 1 .. Len(r) : /\ parse(Blocks(r)[i]).ok /\ parse(Blocks(r)[i]).name = r[i].name
                                   /\ Tells(parseHeader(NoMessage, Blocks(r)[i]), r[i], i = 1)
<1>1. /\ Len(Blocks(r)) = Len(r) /\ DOMAIN r = 1 .. Len(r)
      /\ \A i \in 1 .. Len(r) : Blocks(r)[i] = r[i].text \o Crlf
  BY RequestLined
<1>2. ASSUME NEW i \in 1 .. Len(r)
      PROVE  /\ parse(Blocks(r)[i]).ok /\ parse(Blocks(r)[i]).name = r[i].name
             /\ (i = 1 <=> parse(Blocks(r)[i]).type = "METHOD")
             /\ Tells(parseHeader(NoMessage, Blocks(r)[i]), r[i], i = 1)
  <2>1. i \in DOMAIN r /\ Blocks(r)[i] = r[i].text \o Crlf BY <1>1
  <2>2. /\ parse(r[i].text \o Crlf).ok /\ parse(r[i].text \o Crlf).name = r[i].name
        /\ (i = 1 <=> parse(r[i].text \o Crlf).type = "METHOD")
        /\ Tells(parseHeader(NoMessage, r[i].text \o Crlf), r[i], i = 1)
    BY <2>1, RequestParsed
  <2> QED BY <2>1, <2>2
<1>3. Apart(Blocks(r))
  <2>1. \A i, j \in 1 .. Len(r) : r[i].name = r[j].name => i = j BY <1>1 DEF AllPlain
  <2> QED BY <1>1, <1>2, <2>1 DEF Apart
<1>4. OnlyFirst(Blocks(r), "METHOD") BY <1>1, <1>2 DEF OnlyFirst
<1> QED BY <1>2, <1>3, <1>4

LEMMA PlainAfter ==
  ASSUME NEW r \in Requests, AllPlain(r), NEW m, NEW k \in 0 .. Len(r), After(m, Blocks(r), k)
  PROVE  /\ Len(m.list) = k
         /\ \A i \in 1 .. k : /\ m.list[i].text = r[i].text \o Crlf /\ r[i].name \in DOMAIN m.map
                              /\ m.map[r[i].name] = parse(r[i].text \o Crlf)
         /\ k > 0 => m.method = r[1].name
<1>1. Len(r) \in Nat /\ \A i \in 1 .. Len(r) : Blocks(r)[i] = r[i].text \o Crlf BY RequestLined
<1>2. /\ Apart(Blocks(r)) /\ OnlyFirst(Blocks(r), "METHOD")
      /\ \A i \in 1 .. Len(r) : parse(Blocks(r)[i]).ok /\ parse(Blocks(r)[i]).name = r[i].name
  BY PlainBlocks
<1>3. \A i \in 1 .. k : i \in 1 .. Len(r) BY <1>1
<1>4. Len(m.list) = k /\ \A i \in 1 .. k : Known(m, i, Blocks(r)[i])
  BY <1>2, <1>3 DEF After, Complete
<1>5. ASSUME NEW i \in 1 .. k
      PROVE  /\ m.list[i].text = r[i].text \o Crlf /\ r[i].name \in DOMAIN m.map
             /\ m.map[r[i].name] = parse(r[i].text \o Crlf)
  <2> DEFINE w == r[i].text \o Crlf
  <2>1. Blocks(r)[i] = w BY <1>1, <1>3
  <2>2. parse(w).name = r[i].name BY <1>2, <1>3, <2>1
  <2> HIDE DEF w
  <2>3. m.list[i] = Entry(w) /\ m.map[parse(w).name] = parse(w) BY <1>4, <2>1 DEF Known
  <2>4. DOMAIN m.map = {m.list[j].name : j \in 1 .. k} BY <1>4 DEF After, Table
  <2> QED BY <2>2, <2>3, <2>4 DEF Entry, w
<1>6. k > 0 => m.method = r[1].name
  <2> SUFFICES ASSUME k > 0 PROVE m.method = r[1].name OBVIOUS
  <2>1. 1 \in 1 .. Len(r) BY <1>1
  <2> QED BY <1>2, <2>1 DEF After
<1> QED BY <1>4, <1>5, <1>6

\* What a message says of a line depends on the header of its name alone.
LEMMA TellsAlike ==
  ASSUME NEW m1, NEW m2, NEW l, NEW first \in BOOLEAN,
         l.name \in DOMAIN m1.map, l.name \in DOMAIN m2.map, m1.map[l.name] = m2.map[l.name],
         Tells(m1, l, first)
  PROVE  Tells(m2, l, first)
<1>1. getCommandLine(m1, l.name) = getCommandLine(m2, l.name) BY DEF getCommandLine
<1>2. getHeader(m1, l.name) = getHeader(m2, l.name) BY DEF getHeader
<1>3. l.name = <<"allow">> => \A w : isAllowed(m1, w) <=> isAllowed(m2, w) BY DEF isAllowed
<1> QED BY <1>1, <1>2, <1>3 DEF Tells

LEMMA TellsWhole ==
  ASSUME NEW r \in Requests, AllPlain(r), NEW m, After(m, Blocks(r), Len(r)), NEW i \in 1 .. Len(r)
  PROVE  Tells(m, r[i], i = 1)
<1> DEFINE w == Blocks(r)[i]
           m1 == parseHeader(NoMessage, w)
<1>1. /\ Lined(Blocks(r)) /\ Len(Blocks(r)) = Len(r) /\ Len(r) \in Nat /\ w = r[i].text \o Crlf
  BY RequestLined
<1>2. w \in Texts BY <1>1 DEF Lined, WholeLine
<1>3. parse(w).ok /\ parse(w).name = r[i].name /\ Tells(m1, r[i], i = 1) BY PlainBlocks
<1>4. r[i].name \in DOMAIN m.map /\ m.map[r[i].name] = parse(w)
  <2>1. Len(r) \in 0 .. Len(r) BY <1>1
  <2> QED BY <1>1, <2>1, PlainAfter
<1> HIDE DEF w
<1>5. r[i].name \in DOMAIN m1.map /\ m1.map[r[i].name] = parse(w)
  <2>1. NoMessage.list \in Seq(Entries) /\ DOMAIN NoMessage.map = {} BY DEF NoMessage
  <2>2. PICK m0 : m0 = NoMessage OBVIOUS
  <2>3. m0.list \in Seq(Entries) /\ DOMAIN m0.map = {} /\ parse(w).ok BY <1>3, <2>1, <2>2
  <2>4. Added(m0, w, parseHeader(m0, w)) BY <1>2, <2>3, HeaderAdded
  <2>5. m1 = parseHeader(m0, w) BY <2>2
  <2> HIDE DEF m1
  <2> QED BY <1>3, <2>3, <2>4, <2>5 DEF Added
<1> HIDE DEF m1
<1> QED BY <1>3, <1>4, <1>5, TellsAlike

-----------------------------------------------------------------------------
(***************************************************************************)
(* What is read from an answer.                                            *)
(***************************************************************************)
LEMMA AnswerBlocks ==
  ASSUME NEW r \in Requests, \A i, j \in DOMAIN r : r[i].name = r[j].name => i = j,
         NEW m, After(m, Blocks(r), Len(r)), Len(m.list) > 1
  PROVE  /\ Apart(Reply(m)) /\ OnlyFirst(Reply(m), "RESPONSE")
         /\ Len(Reply(m)) = Len(m.list) /\ Len(m.list) \in Nat /\ Reply(m)[1] = Status
         /\ \A i \in 2 .. Len(m.list) : /\ m.list[i] = Entry(Reply(m)[i])
                                        /\ m.map[m.list[i].name] = parse(Reply(m)[i])
<1> DEFINE b == Blocks(r)
           n == Len(m.list)
           q == Reply(m)
<1>1. /\ Lined(b) /\ Len(b) = Len(r) /\ Len(r) \in Nat
      /\ DOMAIN r = 1 .. Len(r) /\ \A i \in 1 .. Len(r) : b[i] = r[i].text \o Crlf
  BY RequestLined
<1>2. ASSUME NEW j \in 1 .. Len(r), parse(b[j]).ok
      PROVE  parse(b[j]).name = r[j].name /\ (j > 1 => r[j].name \notin FirstWords)
  <2>1. j \in DOMAIN r /\ b[j] = r[j].text \o Crlf BY <1>1
  <2>2. parse(r[j].text \o Crlf).ok => parse(r[j].text \o Crlf).name = r[j].name
    BY <2>1, RequestParsed
  <2>3. j > 1 => r[j].name \notin FirstWords BY <2>1, RequestParsed
  <2> QED BY <1>2, <2>1, <2>2, <2>3
<1>3. Apart(b) BY <1>1, <1>2 DEF Apart
<1>4. Table(m) /\ Listed(m, b, Len(r)) /\ InOrder(m, b, Len(r)) BY <1>3 DEF After
<1>5. /\ n \in Nat /\ Len(q) = n /\ q[1] = Status
      /\ \A i \in 2 .. n : q[i] = m.list[i].text
  <2>1. Len(r) \in 0 .. Len(b) BY <1>1
  <2>2. /\ n \in Nat /\ Len(q) = IF n = 0 THEN 1 ELSE n
        /\ q[1] = Status /\ \A i \in 2 .. n : q[i] = m.list[i].text
    <3> HIDE DEF b
    <3> QED BY <1>1, <1>4, <2>1, ReplyLined
  <2> QED BY <2>2
<1> HIDE DEF q
<1>6. ASSUME NEW i \in 2 .. n
      PROVE  /\ m.list[i] = Entry(q[i]) /\ parse(q[i]).ok /\ m.map[m.list[i].name] = parse(q[i])
             /\ parse(q[i]).name = m.list[i].name /\ parse(q[i]).name \notin FirstWords
  <2>1. i \in 1 .. n BY <1>5
  <2>2. PICK j \in 1 .. Len(r) : i <= j /\ Known(m, i, b[j]) BY <1>4, <2>1 DEF InOrder
  <2>3. m.list[i] = Entry(b[j]) /\ parse(b[j]).ok /\ m.map[parse(b[j]).name] = parse(b[j]) BY <2>2 DEF Known
  <2>4. b[j] = q[i] BY <1>5, <2>3 DEF Entry
  <2>5. j > 1 BY <1>1, <1>5, <2>2
  <2>6. parse(b[j]).name \notin FirstWords BY <1>2, <2>3, <2>5
  <2>7. m.list[i].name = parse(q[i]).name BY <2>3, <2>4 DEF Entry
  <2> QED BY <2>3, <2>4, <2>6, <2>7
<1>7. /\ parse(q[1]).ok /\ parse(q[1]).name = <<"sip">> /\ parse(q[1]).type = "RESPONSE"
  BY <1>5, StatusWhole
<1>8. \A i \in 1 .. n : i = 1 \/ i \in 2 .. n BY <1>5
<1>9. ASSUME NEW i \in 2 .. n PROVE parse(q[i]).type # "RESPONSE" /\ parse(q[i]).name # <<"sip">>
  <2>1. <<"sip">> \in FirstWords /\ <<"sips">> \in FirstWords BY DEF FirstWords
  <2>2. parse(q[i]).ok /\ parse(q[i]).name \notin FirstWords BY <1>6
  <2>3. parse(q[i]).type = "RESPONSE" => parse(q[i]).name \in {<<"sip">>, <<"sips">>} BY <2>2, ParseType
  <2> QED BY <2>1, <2>2, <2>3, Zenon
<1>10. Apart(q)
  <2> SUFFICES ASSUME NEW i \in 1 .. n, NEW j \in 1 .. n, parse(q[i]).name = parse(q[j]).name PROVE i = j
    BY <1>5 DEF Apart
  <2>1. CASE i = 1 BY <1>7, <1>8, <1>9, <2>1
  <2>2. CASE j = 1 BY <1>7, <1>8, <1>9, <2>2
  <2>3. CASE i \in 2 .. n /\ j \in 2 .. n
    <3>1. m.list[i].name = m.list[j].name BY <1>6, <2>3
    <3> QED BY <1>4, <3>1 DEF Table
  <2> QED BY <1>8, <2>1, <2>2, <2>3
<1>11. OnlyFirst(q, "RESPONSE")
  <2> SUFFICES ASSUME NEW i \in 1 .. n PROVE parse(q[i]).ok /\ (i = 1 <=> parse(q[i]).type = "RESPONSE")
    BY <1>5 DEF OnlyFirst
  <2>1. CASE i = 1 BY <1>7, <2>1
  <2>2. CASE i \in 2 .. n
    <3>1. i # 1 BY <2>2
    <3> QED BY <1>6, <1>9, <2>2, <3>1
  <2> QED BY <1>8, <2>1, <2>2
<1> QED BY <1>5, <1>6, <1>10, <1>11 DEF q

-----------------------------------------------------------------------------
(***************************************************************************)
(* The list and the map.                                                   *)
(***************************************************************************)
LEMMA TableAgrees ==
  ASSUME NEW m, Table(m)
  PROVE  /\ {m.list[i].name : i \in DOMAIN m.list} = DOMAIN m.map
         /\ Len(m.list) = Cardinality(DOMAIN m.map)
<1> DEFINE n == Len(m.list)
           S == DOMAIN m.map
           f == [i \in 1 .. n |-> m.list[i].name]
<1>1. n \in Nat /\ DOMAIN m.list = 1 .. n BY LenProperties DEF Table
<1>2. S = {m.list[i].name : i \in 1 .. n} BY DEF Table
<1>3. f \in Bijection(1 .. n, S)
  <2>1. f \in [1 .. n -> S] BY <1>2
  <2>2. \A i, j \in 1 .. n : f[i] = f[j] => i = j BY DEF Table
  <2>3. \A x \in S : \E i \in 1 .. n : f[i] = x BY <1>2
  <2> HIDE DEF f, S, n
  <2> QED BY <2>1, <2>2, <2>3 DEF Bijection, Injection, Surjection, IsInjective
<1>4. Cardinality(S) = n
  <2>1. ExistsBijection(1 .. n, S) BY <1>3, Zenon DEF ExistsBijection
  <2> HIDE DEF S, n
  <2> QED BY <1>1, <2>1, FS_CountingElements
<1> QED BY <1>1, <1>2, <1>4

-----------------------------------------------------------------------------
(***************************************************************************)
(* The properties.                                                         *)
(***************************************************************************)
LEMMA LineByLineHolds == IInv => LineByLine
<1> SUFFICES ASSUME IInv, PlainRequest PROVE LineByLine BY DEF LineByLine
<1>1. PICK r \in Requests : r = lines BY DEF IInv
<1>2. AllPlain(r) BY <1>1 DEF PlainRequest
<1>3. /\ Lined(Blocks(r)) /\ Len(Blocks(r)) = Len(r) /\ Len(r) \in Nat
      /\ \A i \in 1 .. Len(r) : Blocks(r)[i] = r[i].text \o Crlf
  BY RequestLined
<1>4. CASE phase = "request"
  <2>1. PICK off, k : Reads(Blocks(r), off, k, Crlf, text, pos, s, line) /\ After(msg, Blocks(r), k)
    BY <1>1, <1>4 DEF IInv, Reading
  <2>2. k \in 0 .. Len(r) /\ line \in Texts BY <1>3, <2>1 DEF Reads
  <2>3. Len(msg.list) = k /\ \A i \in 1 .. k : msg.list[i].text = r[i].text \o Crlf
    BY <1>2, <2>1, <2>2, PlainAfter
  <2>4. Len(line) \in Nat /\ line = [j \in 1 .. Len(line) |-> line[j]] BY <2>2, LenProperties DEF Texts
  <2>5. ASSUME NEW u, u \in Texts, Len(line) <= Len(u), \A j \in 1 .. Len(line) : line[j] = u[j]
        PROVE  IsPrefix(line, u)
    <3>1. Len(u) \in Nat BY <2>5, LenProperties DEF Texts
    <3>2. SubSeq(line, 1, Len(line)) = SubSeq(u, 1, Len(line)) BY <2>2, <2>4, <2>5, <3>1 DEF Texts
    <3> QED BY <2>5, <3>2 DEF IsPrefix
  <2>6. ASSUME k < Len(r) PROVE IsPrefix(line, r[k + 1].text \o Crlf)
    <3>1. k + 1 \in 1 .. Len(r) /\ k < Len(Blocks(r)) BY <1>3, <2>2, <2>6
    <3> DEFINE w == Blocks(r)[k + 1]
    <3>2. w = r[k + 1].text \o Crlf /\ w \in Texts /\ Len(w) \in Nat
      BY <1>3, <3>1, LenProperties DEF Lined, WholeLine, Texts
    <3>3. Len(line) < Len(w) /\ \A j \in 1 .. Len(line) : line[j] = w[j] BY <2>1, <3>1 DEF Reads
    <3> HIDE DEF w
    <3>4. Len(line) <= Len(w) BY <2>4, <3>2, <3>3
    <3> QED BY <2>5, <3>2, <3>3, <3>4
  <2>7. ASSUME k = Len(r) PROVE IsPrefix(line, Crlf)
    <3>1. Len(line) <= Len(Crlf) /\ \A j \in 1 .. Len(line) : line[j] = Crlf[j]
      BY <1>3, <2>1, <2>7 DEF Reads
    <3> QED BY <2>5, <3>1, TailLength
  <2> QED BY <1>1, <1>4, <2>3, <2>6, <2>7 DEF LineByLine
<1>5. CASE phase # "request"
  <2>1. After(request, Blocks(r), Len(r)) BY <1>1, <1>5 DEF IInv
  <2>2. Len(request.list) = Len(r)
    <3>1. Len(r) \in 0 .. Len(r) BY <1>3
    <3> QED BY <1>2, <2>1, <3>1, PlainAfter
  <2>3. phase # "closed" \/ Len(lines) <= 1 BY <1>1, <2>2 DEF IInv
  <2> QED BY <1>5, <2>3 DEF LineByLine
<1> QED BY <1>4, <1>5

LEMMA RequestReadHolds == IInv => RequestRead
<1> SUFFICES ASSUME IInv, PlainRequest, phase # "request"
             PROVE  /\ request.method = lines[1].name
                    /\ \A i \in DOMAIN lines : Tells(request, lines[i], i = 1)
  BY DEF RequestRead
<1>1. PICK r \in Requests : r = lines BY DEF IInv
<1>2. AllPlain(r) /\ After(request, Blocks(r), Len(r)) BY <1>1 DEF PlainRequest, IInv
<1>3. Len(r) \in Nat /\ Len(r) > 0 /\ DOMAIN r = 1 .. Len(r) BY RequestLined
<1>4. PICK m : m = request OBVIOUS
<1>5. m.method = r[1].name
  <2>1. Len(r) \in 0 .. Len(r) BY <1>3
  <2> QED BY <1>2, <1>3, <1>4, <2>1, PlainAfter
<1>6. \A i \in 1 .. Len(r) : Tells(m, r[i], i = 1) BY <1>2, <1>4, TellsWhole
<1> QED BY <1>1, <1>3, <1>4, <1>5, <1>6

LEMMA EchoFaithfulHolds == IInv => EchoFaithful
<1> SUFFICES ASSUME IInv PROVE EchoFaithful OBVIOUS
<1>1. phase = "closed" => Len(request.list) <= 1 BY DEF IInv
<1>2. ASSUME phase = "done", \A i, j \in DOMAIN lines : lines[i].name = lines[j].name => i = j
      PROVE  /\ msg.code = 200
             /\ [i \in 2 .. Len(msg.list) |-> msg.list[i]] =
                  [i \in 2 .. Len(request.list) |-> request.list[i]]
             /\ \A i \in 2 .. Len(request.list) :
                  msg.map[request.list[i].name] = request.map[request.list[i].name]
  <2>1. PICK r \in Requests : r = lines BY DEF IInv
  <2>2. PICK m : m = request OBVIOUS
  <2>3. PICK q : q = Reply(m) OBVIOUS
  <2>4. PICK g : g = msg OBVIOUS
  <2>5. After(m, Blocks(r), Len(r)) /\ Len(m.list) > 1 /\ After(g, q, Len(q))
    BY <1>2, <2>1, <2>2, <2>3, <2>4 DEF IInv
  <2>6. /\ Apart(q) /\ OnlyFirst(q, "RESPONSE")
        /\ Len(q) = Len(m.list) /\ Len(m.list) \in Nat /\ q[1] = Status
        /\ \A i \in 2 .. Len(m.list) : m.list[i] = Entry(q[i]) /\ m.map[m.list[i].name] = parse(q[i])
    BY <1>2, <2>1, <2>3, <2>5, AnswerBlocks
  <2>7. g.code = 200 BY <2>5, <2>6, StatusWhole DEF After
  <2>8. Len(g.list) = Len(q) /\ \A i \in 1 .. Len(q) : Known(g, i, q[i])
    BY <2>5, <2>6 DEF After, Complete, OnlyFirst
  <2>9. ASSUME NEW i \in 2 .. Len(m.list)
        PROVE  g.list[i] = m.list[i] /\ g.map[m.list[i].name] = m.map[m.list[i].name]
    <3>1. i \in 1 .. Len(q) BY <2>6
    <3>2. g.list[i] = Entry(q[i]) /\ g.map[parse(q[i]).name] = parse(q[i]) BY <2>8, <3>1 DEF Known
    <3>3. m.list[i] = Entry(q[i]) BY <2>6
    <3>4. m.list[i].name = parse(q[i]).name BY <3>3 DEF Entry
    <3> QED BY <2>6, <3>2, <3>3, <3>4
  <2>10. [i \in 2 .. Len(g.list) |-> g.list[i]] = [i \in 2 .. Len(m.list) |-> m.list[i]]
    <3>1. Len(g.list) = Len(m.list) BY <2>6, <2>8
    <3> QED BY <2>9, <3>1
  <2> QED BY <2>2, <2>4, <2>7, <2>9, <2>10
<1> QED BY <1>1, <1>2 DEF EchoFaithful

(***************************************************************************)
(* Whatever a request repeats, the list of a message and its map are of    *)
(* the same headers, each there once (SipParsedMessage::parseHeader).      *)
(***************************************************************************)
THEOREM ListsAgree == SipSpec => []HeadersAgree
<1>1. IInv => HeadersAgree
  <2>1. PICK m1, m2 : m1 = msg /\ m2 = request OBVIOUS
  <2>2. ASSUME IInv PROVE Table(m1) /\ Table(m2) BY <2>1, <2>2 DEF IInv
  <2> QED BY <2>1, <2>2, TableAgrees DEF HeadersAgree
<1> QED BY <1>1, SipIInv, PTL

(***************************************************************************)
(* For requests of any number of lines whose lines are read right alone:   *)
(* while a plain request is read the headers so far are its first lines,   *)
(* whole and in order, and it is taken for complete at its blank line and  *)
(* not before (SipSocket::recv, SipParsedMessage::parseHeader).            *)
(***************************************************************************)
THEOREM LinesInOrder == SipSpec => []LineByLine
<1> QED BY SipIInv, LineByLineHolds, PTL

(***************************************************************************)
(* For the same requests, the server takes from a plain request what each  *)
(* line alone says: no line hides or changes what another says             *)
(* (SipParsedMessage::parseHeader and its readers in SipServerTask).       *)
(***************************************************************************)
THEOREM RequestTaken == SipSpec => []RequestRead
<1> QED BY SipIInv, RequestReadHolds, PTL

(***************************************************************************)
(* For the same requests, the answer to a request with headers comes back  *)
(* whole, with the same headers and values; only one with a single header  *)
(* or none times out (SipResponse::toString, SipSocket::recv).             *)
(***************************************************************************)
THEOREM AnswerEchoes == SipSpec => []EchoFaithful
<1> QED BY SipIInv, EchoFaithfulHolds, PTL

=============================================================================
