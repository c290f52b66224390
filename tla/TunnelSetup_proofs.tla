------------------------- MODULE TunnelSetup_proofs -------------------------
(***************************************************************************)
(* Proofs about a start: that its failures are contained, for every        *)
(* configuration, command line and set of interfaces the kernel knew       *)
(* (ConfigAssumption types them, and assumes nothing of what they say).    *)
(*                                                                         *)
(* Order: a text of any length gives typed tokens, and typed tokens a      *)
(* configuration whose values are texts, so that the bearers of a tunnel   *)
(* are a list; then each step of the creation of the tunnels adds at most  *)
(* one member to the bearers lost and the interfaces left bare, and only   *)
(* when it counts a failure.  At the end, that the tables of the gateway's *)
(* devices, addresses and paths agree with the kernel's interfaces.        *)
(***************************************************************************)
EXTENDS TunnelSetup, SequenceTheorems, FiniteSetTheorems, WellFoundedInduction, TLAPS

\* The symbols of a text. To the provers a literal is a value like any other,
\* so those the code writes into a token are named.
Symbol == STRING \cup {"\n", "\r", "\t", "^H", "^G", "\\", "u", "0", ".", "global", "gre"}
Texts == Seq(Symbol)

\* What TextTokenizer makes of a text, and GatewayConfig of its tokens.
Token == [type : WordTypes \cup Blanks \cup {"NEWLINE", "OPERATOR", "SUBEXP", "STRING_LITERAL", "UNDEFINED"},
          val : Texts]
Row == [ns : Texts, name : Texts, value : Texts]

\* Before the tunnels are created.
Early == {"start", "build", "syntax error", "compile", "configure"}

\* What has been read so far is typed.
Parsed ==
  /\ tl \in Seq(Token)
  /\ namespace \in Texts
  /\ rows \in Seq(Row)
  /\ \A k \in DOMAIN data : data[k] \in Texts

\* A sequence, whatever its members.
Listed(b) == Len(b) \in Nat /\ DOMAIN b = 1 .. Len(b)

\* An interface of that kind, with or without an address and a route.
IsInterface(k, kind) ==
  k = Interface(kind, k.addr, k.route, k.from) /\ k.addr \in BOOLEAN /\ k.route \in BOOLEAN

\* One that is not a device of the gateway.
IsForeign(k) == IsInterface(k, "gre") \/ IsInterface(k, "other")

\* No tunnel has been created: the kernel has the interfaces it had.
Untouched ==
  /\ created = {} /\ cur = << >> /\ next = 0 /\ fails \in Nat
  /\ devs = {} /\ DOMAIN rpeer2dev = {} /\ paths = << >>
  /\ \A t \in DOMAIN kernel : IsForeign(kernel[t])

\* The tunnel in creation is not among those created; at bearer 0 it is tried
\* as a tunnel of the kernel, which only a tunnel of one bearer is.
Progress ==
  /\ fails \in Nat /\ next \in Nat
  /\ cur = << >> => next <= 1
  /\ cur # << >> => /\ cur \in DOMAIN made.tunnels \ created
                    /\ next = 0 => Len(Tunnel(cur).bearers) = 1

\* The tun devices are those of tunnels that have a bearer behind them.
Devices ==
  /\ devs \subseteq DOMAIN kernel
  /\ \A t \in DOMAIN kernel : IF t \in devs THEN IsInterface(kernel[t], "tun") ELSE IsForeign(kernel[t])
  /\ \A t \in devs : t \in created \/ (t = cur /\ next > 1)

\* The bearers that createTunnel has come past.
Done == {b \in AllBearers : b[1] \in created \/ (b[1] = cur /\ b[2] < next)}

\* Each path is that of a bearer done, and each address known belongs to one.
Paths ==
  /\ Listed(paths) /\ paths = [i \in 1 .. Len(paths) |-> paths[i]]
  /\ \A i \in DOMAIN paths :
       /\ paths[i].dev \in devs
       /\ <<paths[i].dev, paths[i].n>> \in Done
       /\ paths[i].bearer = BearerAt(<<paths[i].dev, paths[i].n>>)
  /\ \A a \in DOMAIN rpeer2dev : \E i \in DOMAIN paths : IpAddress(paths[i].bearer.remote) = a

\* The bearers done that have no path and nothing that kept them from it, and
\* the paths whose interface lacks the route it could have had.
Lost == {b \in Done : ~Served(b) /\ ~Hindered(b)}
Bare == {i \in DOMAIN paths : Configurable(i)}

\* What was lost is no more than what failed.
Costs ==
  /\ IsFiniteSet(Lost) /\ IsFiniteSet(Bare)
  /\ Cardinality(Lost) + Cardinality(Bare) <= fails

AllListed == \A t \in DOMAIN made.tunnels : Listed(Tunnel(t).bearers)

Setup == AllListed /\ Progress /\ Devices /\ Paths /\ Costs

\* Why the process may have been aborted.
Explained == \E b \in AllBearers : IsTcp(BearerAt(b)) /\ (fails > 0 \/ Hindered(b))

\* The inductive invariant. FailuresContained looks only at the end of the
\* creation and at all bearers; IInv says it of the bearers done so far, and
\* carries what a step needs in order to know that it loses only its own.
IInv ==
  /\ Parsed
  /\ pc \in Early => Untouched
  /\ pc \in {"tunnels", "bind", "listen", "serving"} => Setup
  /\ pc \in {"bind", "listen", "serving"} => created = DOMAIN made.tunnels
  /\ pc = "aborted" => Explained

-----------------------------------------------------------------------------
\* A set of natural numbers with a member has a least one.
LEMMA Least ==
  ASSUME NEW S \in SUBSET Nat, S # {}
  PROVE  \E n \in S : \A k \in S : n <= k
<1>1. PICK n \in S : \A k \in S : ~(<<k, n>> \in OpToRel(<, Nat))
  BY NatLessThanWellFounded, WFMin, Zenon
<1>2. \A k \in S : ~(k < n) BY <1>1 DEF OpToRel
<1> QED BY <1>2

\* What a step from each number of 0 .. n to the next keeps, holds of them all.
LEMMA Steps ==
  ASSUME NEW n \in Nat, NEW S, 0 \in S, \A k \in 1 .. n : k - 1 \in S => k \in S
  PROVE  0 .. n \subseteq S
<1> DEFINE Bad == {k \in 0 .. n : k \notin S}
<1> SUFFICES ASSUME Bad # {} PROVE FALSE OBVIOUS
<1>1. PICK k \in Bad : \A l \in Bad : k <= l
  <2>1. Bad \in SUBSET Nat OBVIOUS
  <2> HIDE DEF Bad
  <2> QED BY <2>1, Least
<1>2. k \in 1 .. n /\ k \notin S BY <1>1
<1>3. k - 1 \in 0 .. n /\ ~(k <= k - 1) BY <1>2
<1>4. k - 1 \in S BY <1>1, <1>3
<1> QED BY <1>2, <1>4

\* A function defined by recursion over 0 .. n is defined, and stays in S.
Moves(n, S) == [S \X (1 .. n) -> S]
Recursive(f, n, S, base, F) ==
  /\ f \in [0 .. n -> S]
  /\ f[0] = base
  /\ \A i \in 1 .. n : f[i] = F[<<f[i - 1], i>>]

LEMMA Recursion ==
  ASSUME NEW n \in Nat, NEW S, NEW base \in S, NEW F \in Moves(n, S)
  PROVE  \E f : Recursive(f, n, S, base, F)
<1> USE DEF Moves
<1> DEFINE Upto(f, k) == /\ f \in [0 .. k -> S] /\ f[0] = base
                         /\ \A i \in 1 .. k : f[i] = F[<<f[i - 1], i>>]
           Reached == {k \in 0 .. n : \E f : Upto(f, k)}
<1>1. 0 \in Reached
  <2> DEFINE f == [i \in 0 .. 0 |-> base]
  <2>1. Upto(f, 0) OBVIOUS
  <2> HIDE DEF Upto, f
  <2>2. 0 \in 0 .. n OBVIOUS
  <2> QED BY <2>1, <2>2
<1>2. ASSUME NEW k \in 1 .. n, k - 1 \in Reached PROVE k \in Reached
  <2>1. PICK f : Upto(f, k - 1) BY <1>2
  <2> DEFINE h == [i \in 0 .. k |-> IF i = k THEN F[<<f[k - 1], k>>] ELSE f[i]]
  <2>2. \A i \in 0 .. k : i # k => i \in 0 .. k - 1 OBVIOUS
  <2>3. k - 1 \in 0 .. k - 1 /\ 0 \in 0 .. k - 1 OBVIOUS
  <2>4. F[<<f[k - 1], k>>] \in S BY <2>1, <2>3
  <2>5. h \in [0 .. k -> S] BY <2>1, <2>2, <2>4
  <2>6. h[0] = base BY <2>1, <2>3
  <2>7. ASSUME NEW i \in 1 .. k PROVE h[i] = F[<<h[i - 1], i>>]
    <3>1. i - 1 \in 0 .. k /\ i - 1 # k /\ i \in 0 .. k OBVIOUS
    <3>2. h[i - 1] = f[i - 1] BY <3>1
    <3>3. CASE i = k BY <3>1, <3>2, <3>3
    <3>4. CASE i # k
      <4>1. i \in 1 .. k - 1 BY <3>4
      <4>2. f[i] = F[<<f[i - 1], i>>] BY <2>1, <4>1
      <4> QED BY <3>1, <3>2, <3>4, <4>2
    <3> QED BY <3>3, <3>4
  <2> HIDE DEF h
  <2>8. Upto(h, k) BY <2>5, <2>6, <2>7
  <2> HIDE DEF Upto
  <2> QED BY <2>8
<1>3. n \in Reached
  <2> HIDE DEF Reached
  <2>1. 0 .. n \subseteq Reached BY <1>1, <1>2, Steps
  <2> QED BY <2>1
<1> QED BY <1>3 DEF Recursive

-----------------------------------------------------------------------------
(***************************************************************************)
(* The tokens of a text.                                                   *)
(***************************************************************************)
\* The states of the tokenizer (the types of NoString and At0).
Scanned == [begun : BOOLEAN, ended : BOOLEAN, esc : BOOLEAN, data : Texts]
Scanning == [toks : Seq(Token), word : Texts, str : Scanned, note : Texts]

LEMMA SymbolText == ASSUME NEW c \in Symbol PROVE <<c>> \in Texts
BY DEF Texts

LEMMA WordIsToken == ASSUME NEW w \in Texts PROVE Word(w) \in Token
BY DEF Word, Tok, Token, WordTypes

LEMMA TypedToken ==
  ASSUME NEW w \in Texts,
         NEW y \in {"BLANK", "LINE_COMMENT", "NEWLINE", "OPERATOR", "SUBEXP", "STRING_LITERAL", "UNDEFINED", "REAL"}
  PROVE  Tok(y, w) \in Token
BY DEF Tok, Token, WordTypes, Blanks

LEMMA EscapedText == ASSUME NEW c \in Symbol PROVE Escaped(c) \in Texts
<1>1. {"\n", "\r", "\t", "^H", "^G", Escape, "u"} \subseteq Symbol BY DEF Symbol, Escape
<1>2. Escaped(c) \in {<<"\n">>, <<"\r">>, <<"\t">>, <<"^H">>, <<"^G">>, <<Escape, "u">>, <<c>>}
  BY DEF Escaped
<1> HIDE DEF Symbol
<1>3. <<Escape, "u">> \in Seq(Symbol) BY <1>1
<1>4. \A x \in Symbol : <<x>> \in Seq(Symbol) OBVIOUS
<1> QED BY <1>1, <1>2, <1>3, <1>4 DEF Texts

LEMMA AcceptTyped ==
  ASSUME NEW q \in Scanned, NEW c \in Symbol
  PROVE  accept(q, c) \in Scanned
<1>1. Escaped(c) \in Texts BY EscapedText
<1>2. q.data \o Escaped(c) \in Texts BY <1>1 DEF Scanned, Texts
<1>3. Append(q.data, c) \in Texts BY DEF Scanned, Texts
<1> HIDE DEF Symbol
<1> QED BY <1>2, <1>3 DEF accept, Scanned

LEMMA NoStringTyped == NoString \in Scanned
BY DEF NoString, Scanned, Texts

LEMMA At0Typed == ASSUME NEW toks \in Seq(Token) PROVE At0(toks) \in Scanning
BY NoStringTyped DEF At0, Scanning, Texts

LEMMA WithRealTyped ==
  ASSUME NEW toks \in Seq(Token), NEW t \in Token
  PROVE  WithReal(toks, t) \in Seq(Token)
<1> DEFINE n == Len(toks)
<1>1. n \in Nat /\ Append(toks, t) \in Seq(Token) BY LenProperties
<1>2. ASSUME n > 1 PROVE Append(SubSeq(toks, 1, n - 2), Tok("REAL", toks[n - 1].val \o <<".">> \o t.val)) \in Seq(Token)
  <2>1. SubSeq(toks, 1, n - 2) \in Seq(Token) BY <1>1, <1>2
  <2>2. toks[n - 1].val \in Texts /\ t.val \in Texts /\ <<".">> \in Texts
    <3>1. toks[n - 1] \in Token BY <1>1, <1>2
    <3>2. "." \in Symbol BY DEF Symbol
    <3> QED BY <3>1, <3>2, SymbolText DEF Token
  <2>3. toks[n - 1].val \o <<".">> \o t.val \in Texts BY <2>2 DEF Texts
  <2>4. Tok("REAL", toks[n - 1].val \o <<".">> \o t.val) \in Token BY <2>3, TypedToken
  <2> QED BY <2>1, <2>4
<1>3. ASSUME n > 0 PROVE Append(SubSeq(toks, 1, n - 1), Tok("REAL", <<"0", ".">> \o t.val)) \in Seq(Token)
  <2>1. SubSeq(toks, 1, n - 1) \in Seq(Token) BY <1>1, <1>3
  <2>2. <<"0", ".">> \in Texts /\ t.val \in Texts BY DEF Token, Texts, Symbol
  <2>3. <<"0", ".">> \o t.val \in Texts BY <2>2 DEF Texts
  <2>4. Tok("REAL", <<"0", ".">> \o t.val) \in Token BY <2>3, TypedToken
  <2> QED BY <2>1, <2>4
<1> HIDE DEF Token
<1> QED BY <1>1, <1>2, <1>3 DEF WithReal

LEMMA WithOpTyped ==
  ASSUME NEW d, NEW toks \in Seq(Token), NEW c \in Symbol
  PROVE  WithOp(d, toks, c) \in Seq(Token)
<1> DEFINE n == Len(toks)
<1>1. n \in Nat BY LenProperties
<1>2. Tok("SUBEXP", <<c>>) \in Token /\ Op(c) \in Token BY SymbolText, TypedToken DEF Op
<1>3. ASSUME n > 0 PROVE [toks EXCEPT ![n].val = Append(@, c)] \in Seq(Token)
  <2>1. toks[n] \in Token BY <1>1, <1>3
  <2>2. Append(toks[n].val, c) \in Texts BY <2>1 DEF Token, Texts
  <2>3. [toks[n] EXCEPT !.val = Append(@, c)] \in Token BY <2>1, <2>2 DEF Token
  <2>4. [toks EXCEPT ![n] = [toks[n] EXCEPT !.val = Append(@, c)]] \in Seq(Token)
    <3>1. n \in 1 .. Len(toks) BY <1>1, <1>3
    <3> HIDE DEF n
    <3> QED BY <2>3, <3>1, ExceptSeq
  <2> QED BY <2>4
<1> QED BY <1>1, <1>2, <1>3 DEF WithOp

LEMMA FirstTyped ==
  ASSUME NEW d, NEW toks \in Seq(Token), NEW c \in Symbol
  PROVE  First(d, toks, c) \in Scanning
<1>1. At0(toks) \in Scanning BY At0Typed
<1>2. <<c>> \in Texts BY SymbolText
<1>3. accept(NoString, c) \in Scanned BY NoStringTyped, AcceptTyped
<1>4. Append(toks, Tok("BLANK", <<c>>)) \in Seq(Token) BY <1>2, TypedToken
<1>5. Append(toks, Tok("NEWLINE", <<c>>)) \in Seq(Token) BY <1>2, TypedToken
<1>6. WithOp(d, toks, c) \in Seq(Token) BY WithOpTyped
<1>7. /\ At0(Append(toks, Tok("BLANK", <<c>>))) \in Scanning
      /\ At0(Append(toks, Tok("NEWLINE", <<c>>))) \in Scanning
      /\ At0(WithOp(d, toks, c)) \in Scanning
  BY <1>4, <1>5, <1>6, At0Typed
<1>8. /\ [At0(toks) EXCEPT !.str = accept(NoString, c)] \in Scanning
      /\ [At0(toks) EXCEPT !.note = <<c>>] \in Scanning
      /\ [At0(toks) EXCEPT !.word = <<c>>] \in Scanning
  BY <1>1, <1>2, <1>3 DEF Scanning
<1> QED BY <1>7, <1>8 DEF First

LEMMA EndedTyped == ASSUME NEW st \in Scanning PROVE Ended(st) \in Seq(Token)
<1>1. st.toks \in Seq(Token) /\ st.word \in Texts BY DEF Scanning
<1>2. Word(st.word) \in Token BY <1>1, WordIsToken
<1>3. WithReal(st.toks, Word(st.word)) \in Seq(Token) BY <1>1, <1>2, WithRealTyped
<1> QED BY <1>1, <1>3 DEF Ended

LEMMA StepTyped ==
  ASSUME NEW d, NEW st \in Scanning, NEW c \in Symbol
  PROVE  Step(d, st, c) \in Scanning
<1> DEFINE str == accept(st.str, c)
<1>1. st.toks \in Seq(Token) /\ st.word \in Texts /\ st.str \in Scanned /\ st.note \in Texts BY DEF Scanning
<1>2. str \in Scanned BY <1>1, AcceptTyped
<1>3. Append(st.note, c) \in Texts /\ Append(st.word, c) \in Texts BY <1>1 DEF Texts
<1>4. First(d, Append(st.toks, Tok("LINE_COMMENT", st.note)), c) \in Scanning
  <2>1. Tok("LINE_COMMENT", st.note) \in Token BY <1>1, TypedToken
  <2>2. Append(st.toks, Tok("LINE_COMMENT", st.note)) \in Seq(Token) BY <1>1, <2>1
  <2> QED BY <2>2, FirstTyped
<1>5. First(d, Append(st.toks, Tok("STRING_LITERAL", str.data)), c) \in Scanning
  <2>1. str.data \in Texts BY <1>2 DEF Scanned
  <2> HIDE DEF str
  <2>2. Tok("STRING_LITERAL", str.data) \in Token BY <2>1, TypedToken
  <2>3. Append(st.toks, Tok("STRING_LITERAL", str.data)) \in Seq(Token) BY <1>1, <2>2
  <2> QED BY <2>3, FirstTyped
<1>6. First(d, st.toks, c) \in Scanning /\ First(d, Ended(st), c) \in Scanning
  BY <1>1, EndedTyped, FirstTyped
<1>7. /\ [st EXCEPT !.note = Append(@, c)] \in Scanning
      /\ [st EXCEPT !.str = str] \in Scanning
      /\ [st EXCEPT !.word = Append(@, c), !.str = str] \in Scanning
  <2> HIDE DEF str
  <2> QED BY <1>1, <1>2, <1>3 DEF Scanning
<1> QED BY <1>4, <1>5, <1>6, <1>7 DEF Step

LEMMA FinishTyped == ASSUME NEW st \in Scanning PROVE Finish(st) \in Seq(Token)
<1>1. st.toks \in Seq(Token) /\ st.note \in Texts /\ st.str.data \in Texts BY DEF Scanning, Scanned
<1>2. Append(st.toks, Tok("LINE_COMMENT", st.note)) \in Seq(Token) BY <1>1, TypedToken
<1>3. Append(st.toks, Tok(IF st.str.ended THEN "STRING_LITERAL" ELSE "UNDEFINED", st.str.data)) \in Seq(Token)
  BY <1>1, TypedToken
<1> QED BY <1>2, <1>3, EndedTyped DEF Finish

LEMMA TokensTyped ==
  ASSUME NEW d, NEW txt \in Texts
  PROVE  getTokenList(d, txt) \in Seq(Token)
<1> DEFINE n == Len(txt)
           F == [p \in Scanning \X (1 .. n) |-> Step(d, p[1], txt[p[2]])]
           Is(f) == f = [i \in 0 .. n |-> IF i = 0 THEN At0(<< >>) ELSE Step(d, f[i - 1], txt[i])]
<1>1. n \in Nat /\ \A i \in 1 .. n : txt[i] \in Symbol BY LenProperties DEF Texts
<1>2. At0(<< >>) \in Scanning
  <2>1. << >> \in Seq(Token) OBVIOUS
  <2> QED BY <2>1, At0Typed
<1>3. \A st \in Scanning, i \in 1 .. n : Step(d, st, txt[i]) \in Scanning BY <1>1, StepTyped
<1>4. \E f : Is(f)
  <2>1. F \in Moves(n, Scanning) BY <1>3 DEF Moves
  <2>2. PICK f : Recursive(f, n, Scanning, At0(<< >>), F)
    <3> HIDE DEF F, n
    <3> QED BY <1>1, <1>2, <2>1, Recursion
  <2>3. \A i \in 1 .. n : f[i - 1] \in Scanning BY <1>1, <2>2 DEF Recursive
  <2>4. \A i \in 1 .. n : f[i] = Step(d, f[i - 1], txt[i]) BY <2>2, <2>3 DEF Recursive
  <2> DEFINE h == [i \in 0 .. n |-> IF i = 0 THEN At0(<< >>) ELSE Step(d, f[i - 1], txt[i])]
  <2>5. \A i \in 0 .. n : f[i] = h[i] BY <1>1, <2>2, <2>4 DEF Recursive
  <2>6. f = h BY <2>2, <2>5 DEF Recursive
  <2>7. Is(f) BY <2>6
  <2> QED BY <2>7
<1> DEFINE f == CHOOSE f : Is(f)
<1>5. Is(f) BY <1>4
<1>6. getTokenList(d, txt) = Finish(f[n]) BY DEF getTokenList
<1> HIDE DEF f
<1> DEFINE Good == {k \in 0 .. n : f[k] \in Scanning}
<1>7. 0 \in Good BY <1>1, <1>2, <1>5
<1>8. ASSUME NEW k \in 1 .. n, k - 1 \in Good PROVE k \in Good
  <2>1. f[k] = Step(d, f[k - 1], txt[k]) BY <1>1, <1>5
  <2> QED BY <1>1, <1>3, <1>8, <2>1
<1>9. n \in Good
  <2> HIDE DEF Good
  <2>1. 0 .. n \subseteq Good BY <1>1, <1>7, <1>8, Steps
  <2> QED BY <1>1, <2>1
<1> QED BY <1>6, <1>9, FinishTyped

-----------------------------------------------------------------------------
(***************************************************************************)
(* Sequences of tokens, and what is taken from the configuration.          *)
(***************************************************************************)
\* What removeBlanks cuts at: the first and the last of some positions.
LEMMA Bounds ==
  ASSUME NEW n \in Nat, NEW S \in SUBSET (1 .. n), S # {}
  PROVE  Min(S) \in S /\ Max(S) \in S
<1>1. \E i \in S : \A k \in S : i <= k
  <2>1. S \in SUBSET Nat OBVIOUS
  <2> QED BY <2>1, Least
<1>2. \E i \in S : \A k \in S : i >= k
  <2> DEFINE R == {n - i : i \in S}
  <2>1. R \in SUBSET Nat /\ R # {}
    <3>1. \A i \in S : n - i \in Nat OBVIOUS
    <3> QED BY <3>1
  <2>2. PICK r \in R : \A k \in R : r <= k
    <3> HIDE DEF R
    <3> QED BY <2>1, Least
  <2>3. PICK i \in S : r = n - i BY <2>2
  <2>4. \A k \in S : n - i <= n - k BY <2>2, <2>3
  <2>5. \A k \in S : i >= k BY <2>4
  <2> QED BY <2>5
<1> QED BY <1>1, <1>2 DEF Min, Max

\* removeBlanks, which cuts a list of tokens at both ends.
LEMMA BlanksRemoved ==
  ASSUME NEW toks \in Seq(Token), NEW types, "BLANK" \in types
  PROVE  removeBlanks(toks, types) \in Seq(Token)
<1> DEFINE keep == {i \in DOMAIN toks : toks[i].type \notin types}
           solid == {i \in DOMAIN toks : toks[i].type # "BLANK"}
           n == Len(toks)
<1>1. n \in Nat /\ DOMAIN toks = 1 .. n /\ \A i \in 1 .. n : toks[i] \in Token BY LenProperties
<1>2. CASE keep = {} BY <1>2 DEF removeBlanks
<1>3. CASE keep # {}
  <2>1. keep \in SUBSET (1 .. n) /\ solid \in SUBSET (1 .. n) /\ solid # {} BY <1>1, <1>3
  <2> HIDE DEF keep, solid, n
  <2>2. Min(keep) \in 1 .. n /\ Max(solid) \in 1 .. n BY <1>1, <1>3, <2>1, Bounds
  <2>3. SubSeq(toks, Min(keep), Max(solid)) \in Seq(Token)
    <3> DEFINE a == Min(keep) b == Max(solid)
    <3>1. a \in Int /\ b \in Int /\ \A i \in a .. b : toks[i] \in Token BY <1>1, <2>2
    <3> HIDE DEF a, b
    <3>2. SubSeq(toks, a, b) \in Seq(Token) BY <3>1, SubSeqProperties
    <3> QED BY <3>2 DEF a, b
  <2> QED BY <1>3, <2>3 DEF removeBlanks, keep, solid
<1> QED BY <1>2, <1>3

LEMMA AfterTyped ==
  ASSUME NEW toks \in Seq(Token), toks # << >>
  PROVE  After(toks) \in Seq(Token) /\ Tail(toks) \in Seq(Token) /\ Head(toks) \in Token
<1>1. Tail(toks) \in Seq(Token) /\ Head(toks) \in Token BY HeadTailProperties
<1>2. "BLANK" \in Blanks BY DEF Blanks
<1> QED BY <1>1, <1>2, BlanksRemoved DEF After

LEMMA Flattened ==
  ASSUME NEW S, NEW ss \in Seq(Seq(S))
  PROVE  FlattenSeq(ss) \in Seq(S)
<1> DEFINE n == Len(ss)
           F == [p \in Seq(S) \X (1 .. n) |-> p[1] \o ss[p[2]]]
           Is(f) == f = [i \in 1 .. n |-> IF i = 1 THEN ss[i] ELSE f[i - 1] \o ss[i]]
<1>1. n \in Nat /\ \A i \in 1 .. n : ss[i] \in Seq(S) BY LenProperties
<1>2. CASE n = 0
  <2>1. ss = << >> BY <1>2, EmptySeq
  <2> QED BY <1>2, <2>1 DEF FlattenSeq
<1>3. CASE n # 0
  <2>1. << >> \in Seq(S) /\ \A t \in Seq(S), i \in 1 .. n : t \o ss[i] \in Seq(S) BY <1>1
  <2>2. \E f : Is(f)
    <3>1. F \in Moves(n, Seq(S)) BY <2>1 DEF Moves
    <3>2. PICK f : Recursive(f, n, Seq(S), << >>, F)
      <4> HIDE DEF F, n
      <4> QED BY <1>1, <2>1, <3>1, Recursion
    <3>3. \A i \in 1 .. n : f[i - 1] \in Seq(S)
      <4> DEFINE Q == Seq(S)
      <4>1. f \in [0 .. n -> Q] BY <3>2 DEF Recursive
      <4> HIDE DEF Q
      <4>2. \A i \in 1 .. n : i - 1 \in 0 .. n BY <1>1
      <4>3. \A i \in 1 .. n : f[i - 1] \in Q BY <4>1, <4>2
      <4> QED BY <4>3 DEF Q
    <3>4. \A i \in 1 .. n : f[i] = f[i - 1] \o ss[i] BY <3>2, <3>3 DEF Recursive
    <3>5. f[0] = << >> BY <3>2 DEF Recursive
    <3> DEFINE g == [i \in 1 .. n |-> f[i]]
               h == [i \in 1 .. n |-> IF i = 1 THEN ss[i] ELSE g[i - 1] \o ss[i]]
    <3>6. ASSUME NEW i \in 1 .. n PROVE g[i] = h[i]
      <4>1. CASE i = 1
        <5>1. f[1] = f[1 - 1] \o ss[1] BY <3>4, <4>1
        <5>2. f[1 - 1] = << >> BY <3>5
        <5>3. ss[1] \in Seq(S) BY <1>1, <4>1
        <5>4. << >> \o ss[1] = ss[1] BY <5>3, ConcatEmptySeq
        <5> QED BY <4>1, <5>1, <5>2, <5>4
      <4>2. CASE i # 1
        <5>1. i - 1 \in 1 .. n BY <4>2
        <5>2. g[i - 1] = f[i - 1] BY <5>1
        <5>3. f[i] = f[i - 1] \o ss[i] BY <3>4
        <5> QED BY <4>2, <5>2, <5>3
      <4> QED BY <4>1, <4>2
    <3>7. g = h BY <3>6
    <3>8. Is(g) BY <3>7
    <3> QED BY <3>8
  <2> DEFINE f == CHOOSE f : Is(f)
  <2>3. Is(f) BY <2>2
  <2>4. FlattenSeq(ss) = f[n] BY <1>3 DEF FlattenSeq
  <2> HIDE DEF f
  <2> DEFINE Good == {k \in 0 .. n : k = 0 \/ f[k] \in Seq(S)}
  <2>5. 0 \in Good BY <1>1
  <2>6. ASSUME NEW k \in 1 .. n, k - 1 \in Good PROVE k \in Good
    <3>1. f[k] = IF k = 1 THEN ss[k] ELSE f[k - 1] \o ss[k] BY <2>3
    <3>2. CASE k = 1 BY <1>1, <3>1, <3>2
    <3>3. CASE k # 1
      <4>1. k - 1 # 0 BY <3>3
      <4>2. f[k - 1] \in Seq(S) BY <2>6, <4>1
      <4>3. f[k] = f[k - 1] \o ss[k] BY <3>1, <3>3
      <4>4. f[k - 1] \o ss[k] \in Seq(S) BY <2>1, <4>2
      <4> DEFINE Q == Seq(S)
      <4>5. f[k] \in Q BY <4>3, <4>4
      <4> HIDE DEF Q
      <4> QED BY <1>1, <4>5 DEF Q
    <3> QED BY <3>2, <3>3
  <2>7. n \in Good
    <3> HIDE DEF Good
    <3>1. 0 .. n \subseteq Good BY <1>1, <2>5, <2>6, Steps
    <3> QED BY <1>1, <3>1
  <2> QED BY <1>3, <2>4, <2>7
<1> QED BY <1>2, <1>3

\* The words of a list in the configuration are texts.
LEMMA ListTyped ==
  ASSUME NEW d, \A k \in DOMAIN d : d[k] \in Texts, NEW ns, NEW name
  PROVE  getAttrList(d, ns, name) \in Seq(Texts)
<1> DEFINE toks == getTokenList(ListTnkzr, Get(d, ns, name, << >>))
           n == Len(toks)
           Next1(w, i) == IF toks[i].type = "IDENTIFIER" THEN Append(w, toks[i].val) ELSE w
           F == [p \in Seq(Texts) \X (1 .. n) |-> Next1(p[1], p[2])]
           Is(f) == f = [i \in 0 .. n |-> IF i = 0 THEN << >> ELSE Next1(f[i - 1], i)]
<1>1. toks \in Seq(Token)
  <2>1. Get(d, ns, name, << >>) \in Texts BY DEF Get, Texts
  <2> QED BY <2>1, TokensTyped
<1>2. getAttrList(d, ns, name) = (CHOOSE f : Is(f))[n] BY DEF getAttrList, Identifiers
<1> HIDE DEF toks, Next1
<1>3. n \in Nat /\ \A i \in 1 .. n : toks[i] \in Token BY <1>1, LenProperties
<1>4. \A i \in 1 .. n : toks[i].val \in Texts BY <1>3 DEF Token
<1>5. << >> \in Seq(Texts) /\ \A w \in Seq(Texts), i \in 1 .. n : Next1(w, i) \in Seq(Texts)
  <2> HIDE DEF Texts, Token
  <2> QED BY <1>4 DEF Next1
<1>6. \E f : Is(f)
  <2>1. F \in Moves(n, Seq(Texts)) BY <1>5 DEF Moves
  <2>2. PICK f : Recursive(f, n, Seq(Texts), << >>, F)
    <3> HIDE DEF F, n
    <3> QED BY <1>3, <1>5, <2>1, Recursion
  <2>3. \A i \in 1 .. n : f[i - 1] \in Seq(Texts) BY <1>3, <2>2 DEF Recursive
  <2>4. \A i \in 1 .. n : f[i] = Next1(f[i - 1], i) BY <2>2, <2>3 DEF Recursive
  <2> DEFINE h == [i \in 0 .. n |-> IF i = 0 THEN << >> ELSE Next1(f[i - 1], i)]
  <2>5. \A i \in 0 .. n : f[i] = h[i] BY <1>3, <2>2, <2>4 DEF Recursive
  <2>6. f = h BY <2>2, <2>5 DEF Recursive
  <2>7. Is(f) BY <2>6
  <2> QED BY <2>7
<1> DEFINE f == CHOOSE f : Is(f)
<1>7. Is(f) BY <1>6
<1> HIDE DEF f
<1> DEFINE Good == {k \in 0 .. n : f[k] \in Seq(Texts)}
<1>8. 0 \in Good BY <1>3, <1>5, <1>7
<1>9. ASSUME NEW k \in 1 .. n, k - 1 \in Good PROVE k \in Good
  <2>1. f[k] = Next1(f[k - 1], k) BY <1>3, <1>7
  <2> QED BY <1>3, <1>5, <1>9, <2>1
<1>10. n \in Good
  <2> HIDE DEF Good
  <2>1. 0 .. n \subseteq Good BY <1>3, <1>8, <1>9, Steps
  <2> QED BY <1>3, <2>1
<1> QED BY <1>2, <1>10 DEF f

\* An entry keeps what holds of all entries, if it holds of the new one.
LEMMA Entered ==
  ASSUME NEW f, NEW at, NEW v, NEW S
  PROVE  /\ at \in DOMAIN Enter(f, at, v)
         /\ (\A k \in DOMAIN f : f[k] \in S) /\ v \in S =>
              \A k \in DOMAIN Enter(f, at, v) : Enter(f, at, v)[k] \in S
BY DEF Enter

LEMMA Wider ==
  ASSUME NEW S, NEW T, S \subseteq T, NEW w \in Seq(S)
  PROVE  w \in Seq(T)
<1>1. Len(w) \in Nat /\ w \in [1 .. Len(w) -> S] BY LenProperties, ElementOfSeq
<1>2. w \in [1 .. Len(w) -> T] BY <1>1
<1>3. w \in UNION {[1 .. n -> T] : n \in Nat} BY <1>1, <1>2
<1> QED BY <1>3, SeqDef

\* parseCfg lists the bearers of a tunnel as often as its name is listed.
LEMMA BearersListed ==
  ASSUME NEW d, \A k \in DOMAIN d : d[k] \in Texts, NEW t \in DOMAIN parseCfg(d)
  PROVE  Listed(parseCfg(d)[t].bearers)
<1> DEFINE list == getAttrList(d, <<"tunnels">>, <<"list">>)
           own == getAttr(d, t, <<"type">>)
           type == IF own = << >> THEN <<"gre">> ELSE own
           port == getNum(d, t, <<"port">>, 28774)
           names == getAttrList(d, t, <<"bearers">>)
           bearers == [i \in DOMAIN names |-> Bearer(d, names[i], type, port)]
           times == Cardinality({j \in DOMAIN list : list[j] = t})
           all == [i \in 1 .. times |-> bearers]
           S == {bearers[i] : i \in DOMAIN names}
<1>1. parseCfg(d)[t].bearers = FlattenSeq(all) BY DEF parseCfg
<1>2. list \in Seq(Texts) /\ names \in Seq(Texts) BY ListTyped
<1> HIDE DEF list, names, type, port
<1>3. times \in Nat
  <2>1. IsFiniteSet(DOMAIN list) BY <1>2, LenProperties, FS_Interval
  <2>2. {j \in DOMAIN list : list[j] = t} \subseteq DOMAIN list OBVIOUS
  <2> QED BY <2>1, <2>2, FS_Subset, FS_CardinalityType
<1>4. DOMAIN names = 1 .. Len(names) /\ Len(names) \in Nat BY <1>2, LenProperties
<1>5. bearers \in Seq(S) BY <1>4
<1> HIDE DEF bearers, times, S
<1>6. all \in Seq(Seq(S)) BY <1>3, <1>5
<1> HIDE DEF all
<1>7. FlattenSeq(all) \in Seq(S) BY <1>6, Flattened
<1> QED BY <1>1, <1>7, LenProperties DEF Listed

-----------------------------------------------------------------------------
(***************************************************************************)
(* The configuration is read.                                              *)
(***************************************************************************)
LEMMA ParsedInit == GatewayInit => Parsed
<1> SUFFICES ASSUME GatewayInit PROVE Parsed OBVIOUS
<1>1. doc \in Seq(FileLine) BY ConfigAssumption DEF GatewayInit
<1>2. Text(doc) \in Texts
  <2> DEFINE ts == [i \in DOMAIN doc |-> doc[i].text]
  <2>1. DOMAIN doc = 1 .. Len(doc) /\ Len(doc) \in Nat /\ \A i \in DOMAIN doc : doc[i] \in FileLine
    BY <1>1, LenProperties
  <2>2. \A i \in DOMAIN doc : doc[i].text \in Seq(STRING) BY <2>1 DEF FileLine
  <2>3. STRING \subseteq Symbol BY DEF Symbol
  <2> HIDE DEF Symbol
  <2>4. \A w \in Seq(STRING) : w \in Seq(Symbol) BY <2>3, Wider
  <2>5. ts \in Seq(Seq(Symbol)) BY <2>1, <2>2, <2>4
  <2> HIDE DEF ts
  <2>6. FlattenSeq(ts) \in Seq(Symbol) BY <2>5, Flattened
  <2> QED BY <2>6 DEF Text, Texts, ts
<1>3. tl = removeBlanks(getTokenList(ConfigTnkzr, Text(doc)), Blanks) BY DEF GatewayInit
<1>4. tl \in Seq(Token)
  <2>1. "BLANK" \in Blanks BY DEF Blanks
  <2>2. getTokenList(ConfigTnkzr, Text(doc)) \in Seq(Token) BY <1>2, TokensTyped
  <2> QED BY <1>3, <2>1, <2>2, BlanksRemoved
<1>5. namespace \in Texts
  <2>1. "global" \in Symbol BY DEF Symbol
  <2>2. namespace = <<"global">> BY DEF GatewayInit
  <2> QED BY <2>1, <2>2, SymbolText
<1>6. rows \in Seq(Row) /\ \A k \in DOMAIN data : data[k] \in Texts
  <2>1. rows = << >> /\ data = << >> BY DEF GatewayInit
  <2>2. DOMAIN data = {} BY <2>1
  <2> QED BY <2>1, <2>2
<1> QED BY <1>4, <1>5, <1>6 DEF Parsed

LEMMA ValueTyped ==
  ASSUME NEW toks \in Seq(Token), IsAssignment(toks)
  PROVE  /\ Head(toks).val \in Texts
         /\ Head(Value(toks)).val \in Texts
         /\ removeBlanks(Tail(Value(toks)), Blanks \cup {"NEWLINE"}) \in Seq(Token)
<1>1. toks # << >> /\ After(toks) # << >> /\ Value(toks) # << >>
  BY DEF IsAssignment, HeadIsName, HeadIs
<1>2. After(toks) \in Seq(Token) /\ Head(toks) \in Token BY <1>1, AfterTyped
<1>3. Value(toks) \in Seq(Token) BY <1>1, <1>2, AfterTyped DEF Value
<1>4. Head(Value(toks)) \in Token /\ Tail(Value(toks)) \in Seq(Token) BY <1>1, <1>3, AfterTyped
<1>5. "BLANK" \in Blanks \cup {"NEWLINE"} BY DEF Blanks
<1> QED BY <1>2, <1>4, <1>5, BlanksRemoved DEF Token

LEMMA SectionTyped ==
  ASSUME NEW toks \in Seq(Token), HeadIs(toks, Op("["))
  PROVE  /\ HeadIs(After(toks), Op("]")) =>
              removeBlanks(Tail(After(toks)), Blanks \cup {"NEWLINE"}) \in Seq(Token)
         /\ IsSection(toks) =>
              After(After(After(toks))) \in Seq(Token) /\ Head(After(toks)).val \in Texts
<1>1. toks # << >> BY DEF HeadIs
<1>2. After(toks) \in Seq(Token) BY <1>1, AfterTyped
<1>3. ASSUME After(toks) # << >>
      PROVE  /\ Tail(After(toks)) \in Seq(Token) /\ Head(After(toks)) \in Token
             /\ After(After(toks)) \in Seq(Token)
  BY <1>2, <1>3, AfterTyped
<1>4. "BLANK" \in Blanks \cup {"NEWLINE"} BY DEF Blanks
<1>5. ASSUME After(toks) # << >>, After(After(toks)) # << >>
      PROVE  After(After(After(toks))) \in Seq(Token)
  BY <1>3, <1>5, AfterTyped
<1> QED BY <1>3, <1>4, <1>5, BlanksRemoved DEF HeadIs, HeadIsName, IsSection, Token

\* A row's value, or the one it refers to, in the environment or elsewhere.
LEMMA CompiledTyped ==
  ASSUME NEW row \in Row, NEW d, \A k \in DOMAIN d : d[k] \in Texts
  PROVE  \A k \in DOMAIN Compiled(row, d) : Compiled(row, d)[k] \in Texts
<1> DEFINE toks == getTokenList(ValueTnkzr, row.value)
           at == <<row.ns, row.name>>
           ns == IF Len(toks) = 2 THEN row.ns ELSE toks[2].val
           var == Last(toks).val
           key == <<ns, var>>
           entered == IF key \in DOMAIN d THEN d ELSE Enter(d, key, << >>)
           Held(f) == \A k \in DOMAIN f : f[k] \in Texts
<1>1. Compiled(row, d) \in {Enter(d, at, row.value), Enter(d, at, Env[var]), d,
                            Enter(entered, at, entered[key])}
  BY DEF Compiled
<1>2. row.value \in Texts BY DEF Row
<1>4. Compiled(row, d) = Enter(d, at, Env[var]) => Compiled(row, d) \in {Enter(d, at, row.value), d,
          Enter(entered, at, entered[key])} \/ var \in DOMAIN Env
  BY DEF Compiled
<1>5. \A v \in DOMAIN Env : Env[v] \in Texts
  <2>1. STRING \subseteq Symbol BY DEF Symbol
  <2> HIDE DEF Symbol
  <2>2. \A w \in Seq(STRING) : w \in Seq(Symbol) BY <2>1, Wider
  <2> QED BY <2>2, ConfigAssumption DEF Texts
<1>6. << >> \in Texts BY DEF Texts
<1> HIDE DEF toks, at, var, key
<1>7. ASSUME NEW f, Held(f), NEW k, NEW v \in Texts PROVE Held(Enter(f, k, v)) BY <1>7, Entered
<1>8. Held(entered) BY <1>6, <1>7
<1>9. key \in DOMAIN entered BY Entered DEF entered
<1>10. entered[key] \in Texts BY <1>8, <1>9
<1> HIDE DEF entered
<1>11. Held(Enter(entered, at, entered[key])) BY <1>7, <1>8, <1>10
<1>12. Held(Enter(d, at, row.value)) BY <1>2, <1>7
<1>13. var \in DOMAIN Env => Held(Enter(d, at, Env[var])) BY <1>5, <1>7
<1>14. Held(Compiled(row, d)) BY <1>1, <1>4, <1>11, <1>12, <1>13
<1> QED BY <1>14

LEMMA ParsedKept == Parsed /\ GatewayNext => Parsed'
<1> SUFFICES ASSUME Parsed, GatewayNext PROVE Parsed' OBVIOUS
<1> USE DEF read
<1>1. CASE UNCHANGED read BY <1>1 DEF Parsed
<1>2. CASE SkipToken
  <2>1. tl # << >> /\ tl' = Tail(tl) /\ UNCHANGED <<namespace, rows, data>> BY <1>2 DEF SkipToken
  <2>2. Tail(tl) \in Seq(Token) BY <2>1, HeadTailProperties DEF Parsed
  <2> QED BY <2>1, <2>2 DEF Parsed
<1>3. CASE SelectNameSpace
  <2>1. tl \in Seq(Token) /\ HeadIs(tl, Op("[")) BY <1>3 DEF Parsed, SelectNameSpace, NoSection, IsSection
  <2>2. tl' \in Seq(Token) /\ namespace' \in Texts
    <3>1. << >> \in Texts BY DEF Texts
    <3>2. CASE NoSection(tl) /\ tl' = removeBlanks(Tail(After(tl)), Blanks \cup {"NEWLINE"}) /\ namespace' = << >>
      BY <2>1, <3>1, <3>2, SectionTyped DEF NoSection
    <3>3. CASE IsSection(tl) /\ tl' = After(After(After(tl))) /\ namespace' = Head(After(tl)).val
      BY <2>1, <3>3, SectionTyped
    <3> QED BY <1>3, <3>2, <3>3 DEF SelectNameSpace
  <2>3. UNCHANGED <<rows, data>> BY <1>3 DEF SelectNameSpace
  <2> QED BY <2>2, <2>3 DEF Parsed
<1>4. CASE Add
  <2>1. tl \in Seq(Token) /\ IsAssignment(tl) BY <1>4 DEF Parsed, Add
  <2> DEFINE name == Head(tl).val v == Head(Value(tl)).val
  <2>2. name \in Texts /\ v \in Texts /\ removeBlanks(Tail(Value(tl)), Blanks \cup {"NEWLINE"}) \in Seq(Token)
    BY <2>1, ValueTyped
  <2>3. /\ tl' = removeBlanks(Tail(Value(tl)), Blanks \cup {"NEWLINE"})
        /\ rows' = Append(rows, [ns |-> namespace, name |-> name, value |-> v])
        /\ data' = Enter(data, <<namespace, name>>, v)
        /\ namespace' = namespace
    BY <1>4 DEF Add, add
  <2> HIDE DEF name, v
  <2>4. [ns |-> namespace, name |-> name, value |-> v] \in Row BY <2>2 DEF Parsed, Row
  <2>5. rows' \in Seq(Row)
    <3> HIDE DEF Row
    <3>1. rows \in Seq(Row) BY DEF Parsed
    <3> QED BY <2>3, <2>4, <3>1
  <2>6. \A k \in DOMAIN data' : data'[k] \in Texts BY <2>2, <2>3, Entered DEF Parsed
  <2> QED BY <2>2, <2>3, <2>5, <2>6 DEF Parsed
<1>5. CASE CompileRow
  <2>1. Head(rows) \in Row /\ Tail(rows) \in Seq(Row) BY <1>5, HeadTailProperties DEF Parsed, CompileRow
  <2>2. data' = Compiled(Head(rows), data) /\ rows' = Tail(rows) /\ UNCHANGED <<tl, namespace>>
    BY <1>5 DEF CompileRow
  <2>3. \A k \in DOMAIN data' : data'[k] \in Texts BY <2>1, <2>2, CompiledTyped DEF Parsed
  <2> QED BY <2>1, <2>2, <2>3 DEF Parsed
<1> QED BY <1>1, <1>2, <1>3, <1>4, <1>5
    DEF GatewayNext, Start, SyntaxError, Built, CompileEnds, Configure, Bind, BindFails, Listen

-----------------------------------------------------------------------------
(***************************************************************************)
(* What a step does to what is counted.                                    *)
(***************************************************************************)
\* SameTunnels, PathsGrow: no step changes the configuration made, or takes a
\* path away. Stays, RouteStays: what serves or hinders a bearer goes on to.
SameTunnels == made' = made /\ root' = root
PathsGrow == \A i \in DOMAIN paths : i \in DOMAIN paths' /\ paths'[i] = paths[i]
Stays(t) == (InTheWay(t) => InTheWay(t)') /\ (KernelServes(t) => KernelServes(t)')
RouteStays(t) == kernel[t].route => kernel'[t].route
SameIf(t) == /\ t \in DOMAIN kernel' <=> t \in DOMAIN kernel
             /\ t \in DOMAIN kernel => kernel'[t] = kernel[t]

\* A step loses at most one bearer or one route, and only if it counts one
\* failure.
Charge ==
  \/ Lost' \subseteq Lost /\ Bare' \subseteq Bare /\ fails' \in {fails, fails + 1}
  \/ fails' = fails + 1 /\ Bare' \subseteq Bare /\ \E x : Lost' \subseteq Lost \cup {x}
  \/ fails' = fails + 1 /\ Lost' \subseteq Lost /\ \E x : Bare' \subseteq Bare \cup {x}

\* Cardinalities, for Charge.
LEMMA OneMore ==
  ASSUME NEW S, IsFiniteSet(S), NEW x, NEW T, T \subseteq S \cup {x}
  PROVE  IsFiniteSet(T) /\ Cardinality(T) \in Nat /\ Cardinality(T) <= Cardinality(S) + 1
<1>1. IsFiniteSet(S \cup {x}) /\ Cardinality(S \cup {x}) \in Nat BY FS_AddElement, FS_CardinalityType
<1>2. Cardinality(S) \in Nat BY FS_CardinalityType
<1>3. Cardinality(S \cup {x}) <= Cardinality(S) + 1
  <2>1. CASE x \in S
    <3>1. S \cup {x} = S BY <2>1
    <3> QED BY <1>2, <3>1
  <2>2. CASE x \notin S
    <3>1. Cardinality(S \cup {x}) = Cardinality(S) + 1 BY <2>2, FS_AddElement
    <3> QED BY <1>2, <3>1
  <2> QED BY <2>1, <2>2
<1>4. IsFiniteSet(T) /\ Cardinality(T) <= Cardinality(S \cup {x}) BY <1>1, FS_Subset
<1>5. Cardinality(T) \in Nat BY <1>4, FS_CardinalityType
<1> QED BY <1>1, <1>2, <1>3, <1>4, <1>5

LEMMA NoMore ==
  ASSUME NEW S, IsFiniteSet(S), NEW T, T \subseteq S
  PROVE  IsFiniteSet(T) /\ Cardinality(T) \in Nat /\ Cardinality(T) <= Cardinality(S)
BY FS_Subset, FS_CardinalityType

LEMMA CountAdds ==
  ASSUME NEW S, IsFiniteSet(S), NEW T, IsFiniteSet(T), NEW S1, NEW T1, NEW f \in Nat, NEW f1,
         Cardinality(S) + Cardinality(T) <= f,
         \/ S1 \subseteq S /\ T1 \subseteq T /\ f1 \in {f, f + 1}
         \/ f1 = f + 1 /\ T1 \subseteq T /\ \E x : S1 \subseteq S \cup {x}
         \/ f1 = f + 1 /\ S1 \subseteq S /\ \E x : T1 \subseteq T \cup {x}
  PROVE  /\ IsFiniteSet(S1) /\ IsFiniteSet(T1)
         /\ Cardinality(S1) + Cardinality(T1) <= f1
<1>1. Cardinality(S) \in Nat /\ Cardinality(T) \in Nat BY FS_CardinalityType
<1>2. CASE S1 \subseteq S /\ T1 \subseteq T /\ f1 \in {f, f + 1}
  <2>1. /\ IsFiniteSet(S1) /\ Cardinality(S1) \in Nat /\ Cardinality(S1) <= Cardinality(S)
        /\ IsFiniteSet(T1) /\ Cardinality(T1) \in Nat /\ Cardinality(T1) <= Cardinality(T)
    BY <1>2, NoMore
  <2> QED BY <1>1, <1>2, <2>1
<1>3. CASE f1 = f + 1 /\ T1 \subseteq T /\ \E x : S1 \subseteq S \cup {x}
  <2>1. /\ IsFiniteSet(S1) /\ Cardinality(S1) \in Nat /\ Cardinality(S1) <= Cardinality(S) + 1
        /\ IsFiniteSet(T1) /\ Cardinality(T1) \in Nat /\ Cardinality(T1) <= Cardinality(T)
    BY <1>3, NoMore, OneMore
  <2> QED BY <1>1, <1>3, <2>1
<1>4. CASE f1 = f + 1 /\ S1 \subseteq S /\ \E x : T1 \subseteq T \cup {x}
  <2>1. /\ IsFiniteSet(S1) /\ Cardinality(S1) \in Nat /\ Cardinality(S1) <= Cardinality(S)
        /\ IsFiniteSet(T1) /\ Cardinality(T1) \in Nat /\ Cardinality(T1) <= Cardinality(T) + 1
    BY <1>4, NoMore, OneMore
  <2> QED BY <1>1, <1>4, <2>1
<1> QED BY <1>2, <1>3, <1>4

\* A step that charges what it loses keeps Costs.
LEMMA CostsCharged ==
  ASSUME Costs, fails \in Nat, Charge
  PROVE  Costs' /\ fails' \in Nat
<1>1. fails' \in Nat BY DEF Charge
<1>2. /\ IsFiniteSet(Lost') /\ IsFiniteSet(Bare')
      /\ Cardinality(Lost') + Cardinality(Bare') <= fails'
  <2> DEFINE S == Lost T == Bare S1 == Lost' T1 == Bare' f == fails f1 == fails'
  <2>1. /\ IsFiniteSet(S) /\ IsFiniteSet(T) /\ f \in Nat /\ Cardinality(S) + Cardinality(T) <= f
        /\ \/ S1 \subseteq S /\ T1 \subseteq T /\ f1 \in {f, f + 1}
           \/ f1 = f + 1 /\ T1 \subseteq T /\ \E x : S1 \subseteq S \cup {x}
           \/ f1 = f + 1 /\ S1 \subseteq S /\ \E x : T1 \subseteq T \cup {x}
    BY DEF Costs, Charge
  <2> HIDE DEF S, T, S1, T1, f, f1
  <2>2. /\ IsFiniteSet(S1) /\ IsFiniteSet(T1) /\ Cardinality(S1) + Cardinality(T1) <= f1
    BY <2>1, CountAdds
  <2> QED BY <2>2 DEF S1, T1, f1
<1> QED BY <1>1, <1>2 DEF Costs

LEMMA BearersAre ==
  ASSUME AllListed
  PROVE  /\ \A b \in AllBearers : /\ b = <<b[1], b[2]>> /\ b[1] \in DOMAIN made.tunnels
                                  /\ b[2] \in 1 .. Len(Tunnel(b[1]).bearers)
                                  /\ Len(Tunnel(b[1]).bearers) \in Nat
         /\ \A t \in DOMAIN made.tunnels : \A i \in DOMAIN Tunnel(t).bearers : <<t, i>> \in AllBearers
BY DEF AllListed, Listed, AllBearers

LEMMA BearersSame ==
  ASSUME SameTunnels
  PROVE  /\ AllBearers' = AllBearers /\ AllListed' = AllListed
         /\ \A b : BearerAt(b)' = BearerAt(b)
         /\ \A t : Tunnel(t)' = Tunnel(t) /\ CanConfigure(t)' = CanConfigure(t) /\ CanRoute(t)' = CanRoute(t)
BY DEF SameTunnels, AllBearers, AllListed, BearerAt, Tunnel, CanConfigure, CanRoute

\* A bearer served stays served, and one hindered stays hindered.
LEMMA Monotone ==
  ASSUME SameTunnels, PathsGrow, NEW b, Stays(b[1])
  PROVE  (Served(b) => Served(b)') /\ (Hindered(b) => Hindered(b)')
<1>1. Served(b) => Served(b)'
  <2>1. ASSUME NEW i \in DOMAIN paths, paths[i].dev = b[1], paths[i].n = b[2]
        PROVE  \E j \in DOMAIN paths' : paths'[j].dev = b[1] /\ paths'[j].n = b[2]
    BY <2>1 DEF PathsGrow
  <2> QED BY <2>1 DEF Stays, Served
<1>2. Hindered(b) => Hindered(b)'
  <2>1. AllBearers' = AllBearers /\ \A c : BearerAt(c)' = BearerAt(c) BY BearersSame
  <2> QED BY <2>1 DEF Stays, Hindered, SameTunnels
<1> QED BY <1>1, <1>2

\* What a step may add to Lost: X, if every other bearer was done before, or
\* is served or hindered now.
LEMMA LostWithin ==
  ASSUME SameTunnels, PathsGrow, NEW X,
         \A b \in Done' : (b \in Done /\ Stays(b[1])) \/ Served(b)' \/ Hindered(b)' \/ b \in X
  PROVE  Lost' \subseteq Lost \cup X
<1> SUFFICES ASSUME NEW b \in Lost', b \notin X PROVE b \in Lost OBVIOUS
<1>1. b \in Done' /\ ~Served(b)' /\ ~Hindered(b)' BY DEF Lost
<1>2. b \in Done /\ Stays(b[1]) BY <1>1
<1> QED BY <1>1, <1>2, Monotone DEF Lost

\* Likewise Y to Bare, if every other path was there and keeps its route.
LEMMA BareWithin ==
  ASSUME SameTunnels, NEW Y,
         \A i \in DOMAIN paths' :
           \/ i \in Y \/ kernel'[paths'[i].dev].route
           \/ ~CanConfigure(paths'[i].dev) \/ ~CanRoute(paths'[i].dev)
           \/ /\ i \in DOMAIN paths /\ paths'[i].dev = paths[i].dev
              /\ RouteStays(paths[i].dev)
  PROVE  Bare' \subseteq Bare \cup Y
<1> SUFFICES ASSUME NEW i \in Bare', i \notin Y PROVE i \in Bare OBVIOUS
<1>1. /\ i \in DOMAIN paths' /\ CanConfigure(paths'[i].dev) /\ CanRoute(paths'[i].dev)
      /\ ~kernel'[paths'[i].dev].route
  BY BearersSame DEF Bare, Configurable
<1>2. /\ i \in DOMAIN paths /\ paths'[i].dev = paths[i].dev
      /\ RouteStays(paths[i].dev)
  BY <1>1
<1> QED BY <1>1, <1>2 DEF Bare, Configurable, RouteStays

LEMMA SameStays == ASSUME NEW t, SameIf(t) PROVE Stays(t)
BY DEF SameIf, Stays, InTheWay, KernelServes

-----------------------------------------------------------------------------
(***************************************************************************)
(* The creation of the tunnels.                                            *)
(***************************************************************************)
LEMMA PathsStay ==
  ASSUME Paths, SameTunnels, Done \subseteq Done', devs \subseteq devs',
         paths' = paths, rpeer2dev' = rpeer2dev
  PROVE  Paths' /\ PathsGrow
<1>1. \A b : BearerAt(b)' = BearerAt(b) BY BearersSame
<1> QED BY <1>1 DEF Paths, PathsGrow, Listed

LEMMA KeptByCreateEmpty ==
  ASSUME Setup, NEW t, CreateEmpty(t)
  PROVE  Setup'
<1>1. /\ cur = << >> /\ t \in DOMAIN made.tunnels \ created /\ Tunnel(t).bearers = << >>
      /\ created' = created \cup {t} /\ SameTunnels
      /\ UNCHANGED <<cur, next, kernel, devs, rpeer2dev, paths, fails>>
  BY DEF CreateEmpty, SameTunnels, gatewayVars, inputs
<1>2. AllListed' BY <1>1, BearersSame DEF Setup
<1>3. Progress' BY <1>1 DEF Setup, Progress
<1>4. Devices' BY <1>1 DEF Setup, Devices
<1>5. Done' = Done
  <2>1. \A b \in AllBearers : b[1] # t
    <3>1. DOMAIN Tunnel(t).bearers = {} BY <1>1
    <3> QED BY <3>1 DEF AllBearers
  <2> QED BY <1>1, <2>1, BearersSame DEF Done
<1>6. Paths' /\ PathsGrow BY <1>1, <1>5, PathsStay DEF Setup
<1>7. Costs'
  <2>1. \A i : SameIf(i) BY <1>1 DEF SameIf
  <2>2. Lost' \subseteq Lost \cup {} BY <1>1, <1>5, <1>6, <2>1, SameStays, LostWithin
  <2>3. Bare' \subseteq Bare \cup {} BY <1>1, BareWithin DEF RouteStays
  <2>4. Charge BY <1>1, <2>2, <2>3 DEF Charge
  <2> QED BY <2>4, CostsCharged DEF Setup, Progress
<1> QED BY <1>2, <1>3, <1>4, <1>6, <1>7 DEF Setup

LEMMA KeptByCreate ==
  ASSUME Setup, NEW t, Create(t)
  PROVE  Setup'
<1>1. /\ cur = << >> /\ t \in DOMAIN made.tunnels \ created
      /\ cur' = t /\ SameTunnels
      /\ next' = IF Len(Tunnel(t).bearers) = 1 /\ Tunnel(t).bearers[1].protocol = <<"gre">>
                 THEN 0 ELSE 1
      /\ kernel' = [i \in DOMAIN kernel \ {t} |-> kernel[i]] \/ kernel' = kernel
      /\ UNCHANGED <<created, devs, rpeer2dev, paths>>
  BY DEF Create, SameTunnels, gatewayVars, inputs
<1>2. fails' \in {fails, fails + 1} BY DEF Create, Succeeds, Fails
<1>3. AllListed' BY <1>1, BearersSame DEF Setup
<1>4. \A i \in devs : i \in created /\ i # t BY <1>1 DEF Setup, Devices, Progress
<1>5. Progress'
  <2>1. fails' \in Nat BY <1>2 DEF Setup, Progress
  <2>2. next' = 0 => Len(Tunnel(t).bearers) = 1 BY <1>1
  <2>3. Len(Tunnel(t).bearers)' = Len(Tunnel(t).bearers) BY <1>1, BearersSame
  <2> QED BY <1>1, <2>1, <2>2, <2>3 DEF Progress, SameTunnels, Tunnel
<1>6. \A i : i # t => SameIf(i) BY <1>1 DEF SameIf
<1>7. Devices'
  <2>1. \A i \in DOMAIN kernel' : i \in DOMAIN kernel /\ kernel'[i] = kernel[i] BY <1>1
  <2>2. devs \subseteq DOMAIN kernel' BY <1>1, <1>4 DEF Setup, Devices
  <2> QED BY <1>1, <1>4, <2>1, <2>2 DEF Setup, Devices
<1>8. Done' = Done /\ \A b \in Done : b[1] # t
  <2>1. \A b \in AllBearers : b[2] \in Nat /\ b[2] >= 1 BY BearersAre DEF Setup
  <2>2. next <= 1 /\ next \in Nat /\ next' \in {0, 1} BY <1>1 DEF Setup, Progress
  <2>3. \A b \in AllBearers : ~(b[2] < next) /\ ~(b[2] < next') BY <2>1, <2>2
  <2> QED BY <1>1, <2>3, BearersSame DEF Done
<1>9. Paths' /\ PathsGrow BY <1>1, <1>8, PathsStay DEF Setup
<1>10. Costs'
  <2>1. Lost' \subseteq Lost \cup {} BY <1>1, <1>6, <1>8, <1>9, SameStays, LostWithin
  <2>2. Bare' \subseteq Bare \cup {}
    <3>1. \A i \in DOMAIN paths : paths[i].dev \in devs BY DEF Setup, Paths
    <3>2. \A i \in DOMAIN paths : kernel'[paths[i].dev] = kernel[paths[i].dev]
      BY <1>1, <1>4, <3>1 DEF Setup, Devices
    <3> QED BY <1>1, <3>2, BareWithin DEF RouteStays
  <2>3. Charge BY <1>2, <2>1, <2>2 DEF Charge
  <2> QED BY <2>3, CostsCharged DEF Setup, Progress
<1> QED BY <1>3, <1>5, <1>7, <1>9, <1>10 DEF Setup

\* What the steps of a tunnel's creation leave alone.
LEMMA InCreation ==
  ASSUME Setup, NEW t, Creating(t)
  PROVE  /\ cur = t /\ t # << >> /\ t \in DOMAIN made.tunnels \ created
         /\ Listed(Tunnel(t).bearers)
         /\ \A b \in Done : b[1] \in created \/ (b[1] = t /\ b[2] < next)
BY DEF Setup, AllListed, Creating, Progress, Done

LEMMA KeptByCreateEnds ==
  ASSUME Setup, NEW t, CreateEnds(t)
  PROVE  Setup'
<1>1. /\ Creating(t) /\ next > Len(Tunnel(t).bearers) /\ SameTunnels
      /\ created' = created \cup {t} /\ cur' = << >> /\ next' = 0
      /\ UNCHANGED <<kernel, devs, rpeer2dev, paths, fails>>
  BY DEF CreateEnds, TunnelDone, SameTunnels, gatewayVars, inputs
<1>2. AllListed' BY <1>1, BearersSame DEF Setup
<1>3. Progress' BY <1>1 DEF Setup, Progress
<1>4. Devices' BY <1>1, InCreation DEF Setup, Devices
<1>5. Done' = Done
  <2>1. next \in Nat /\ Len(Tunnel(t).bearers) \in Nat BY <1>1, InCreation DEF Setup, Progress, Listed
  <2>2. \A b \in AllBearers : b[2] \in Nat /\ b[2] >= 1 /\ (b[1] = t => b[2] <= Len(Tunnel(t).bearers))
    BY BearersAre DEF Setup
  <2>3. \A b \in AllBearers : ~(b[2] < next') /\ (b[1] = t => b[2] < next) BY <1>1, <2>1, <2>2
  <2>4. cur = t BY <1>1 DEF Creating
  <2> QED BY <1>1, <2>3, <2>4, BearersSame DEF Done
<1>6. Paths' /\ PathsGrow BY <1>1, <1>5, PathsStay DEF Setup
<1>7. Costs'
  <2>1. \A i : SameIf(i) BY <1>1 DEF SameIf
  <2>2. Lost' \subseteq Lost \cup {} BY <1>1, <1>5, <1>6, <2>1, SameStays, LostWithin
  <2>3. Bare' \subseteq Bare \cup {} BY <1>1, BareWithin DEF RouteStays
  <2>4. Charge BY <1>1, <2>2, <2>3 DEF Charge
  <2> QED BY <2>4, CostsCharged DEF Setup, Progress
<1> QED BY <1>2, <1>3, <1>4, <1>6, <1>7 DEF Setup

LEMMA KeptByKernelTunnel ==
  ASSUME Setup, NEW t, KernelTunnel(t)
  PROVE  Setup'
<1>1. /\ Creating(t) /\ next = 0 /\ SameTunnels
      /\ UNCHANGED <<devs, rpeer2dev, paths>>
  BY DEF KernelTunnel, SameTunnels, gatewayVars, inputs
<1>2. fails' \in {fails, fails + 1} BY DEF KernelTunnel, Fails, Succeeds
<1>3. \/ kernel' = kernel
      \/ \E from : \E addr \in BOOLEAN, route \in BOOLEAN : kernel' = Enter(kernel, t, Interface("gre", addr, route, from))
  BY DEF KernelTunnel, HasAddr
<1>4. \/ next' = 1 /\ UNCHANGED <<cur, created>>
      \/ /\ created' = created \cup {t} /\ cur' = << >> /\ next' = 0
         /\ \E from : from # << >> /\ kernel' = Enter(kernel, t, Interface("gre", TRUE, TRUE, from))
  BY DEF KernelTunnel, TunnelDone
<1>5. /\ cur = t /\ t # << >> /\ t \in DOMAIN made.tunnels \ created
      /\ Len(Tunnel(t).bearers) = 1 /\ DOMAIN Tunnel(t).bearers = 1 .. 1
      /\ \A b \in Done : b[1] # t
      /\ t \notin devs /\ \A i \in devs : i \in created
  <2>1. /\ cur = t /\ t # << >> /\ t \in DOMAIN made.tunnels \ created /\ Listed(Tunnel(t).bearers)
        /\ \A b \in Done : b[1] \in created \/ (b[1] = t /\ b[2] < next)
    BY <1>1, InCreation
  <2>2. \A b \in Done : ~(b[2] < next)
    <3>1. \A b \in AllBearers : b[2] \in Nat BY BearersAre DEF Setup
    <3> QED BY <1>1, <3>1 DEF Done
  <2>3. \A i \in devs : i \in created BY <1>1 DEF Setup, Devices
  <2> QED BY <1>1, <2>1, <2>2, <2>3 DEF Setup, Progress, Listed
<1>6. AllListed' BY <1>1, BearersSame DEF Setup
<1>7. Progress'
  <2>1. fails' \in Nat BY <1>2 DEF Setup, Progress
  <2>2. made' = made BY <1>1 DEF SameTunnels
  <2>3. CASE next' = 1 /\ UNCHANGED <<cur, created>> BY <1>5, <2>1, <2>2, <2>3 DEF Progress
  <2>4. CASE cur' = << >> /\ next' = 0 BY <2>1, <2>4 DEF Progress
  <2> QED BY <1>4, <2>3, <2>4
<1>8. \A i : i # t => SameIf(i) BY <1>3 DEF SameIf, Enter
<1>9. Devices'
  <2>1. \A i \in DOMAIN kernel : i \in DOMAIN kernel' /\ (i # t => kernel'[i] = kernel[i])
    BY <1>3 DEF Enter
  <2>2. \A i \in DOMAIN kernel' : i = t \/ (i \in DOMAIN kernel /\ kernel'[i] = kernel[i])
    BY <1>3 DEF Enter
  <2>3. t \in DOMAIN kernel' => IsForeign(kernel'[t])
    <3>1. CASE kernel' = kernel BY <1>5, <3>1 DEF Setup, Devices
    <3>2. CASE kernel' # kernel
      <4>1. PICK from : \E addr \in BOOLEAN, route \in BOOLEAN : kernel' = Enter(kernel, t, Interface("gre", addr, route, from))
        BY <1>3, <3>2
      <4>2. PICK addr \in BOOLEAN, route \in BOOLEAN : kernel' = Enter(kernel, t, Interface("gre", addr, route, from))
        BY <4>1
      <4>3. kernel'[t] = Interface("gre", addr, route, from) BY <4>2 DEF Enter
      <4> QED BY <4>3 DEF IsForeign, IsInterface, Interface
    <3> QED BY <3>1, <3>2
  <2>4. \A i \in DOMAIN kernel' : IF i \in devs THEN IsInterface(kernel'[i], "tun") ELSE IsForeign(kernel'[i])
    BY <1>5, <2>2, <2>3 DEF Setup, Devices
  <2>5. created \subseteq created' BY <1>4
  <2> QED BY <1>1, <1>5, <2>1, <2>4, <2>5 DEF Setup, Devices
<1>10. CASE next' = 1 /\ UNCHANGED <<cur, created>>
  <2>1. Done' = Done
    <3>1. \A b \in AllBearers : b[2] \in Nat /\ b[2] >= 1 BY BearersAre DEF Setup
    <3>2. \A b \in AllBearers : ~(b[2] < next) /\ ~(b[2] < next') BY <1>1, <1>10, <3>1
    <3> QED BY <1>1, <1>10, <3>2, BearersSame DEF Done
  <2>2. Paths' /\ PathsGrow BY <1>1, <2>1, PathsStay DEF Setup
  <2>3. Lost' \subseteq Lost \cup {} BY <1>1, <1>5, <1>8, <2>1, <2>2, SameStays, LostWithin
  <2>4. Bare' \subseteq Bare \cup {}
    <3>1. \A i \in DOMAIN paths : paths[i].dev \in devs BY DEF Setup, Paths
    <3>2. \A i \in DOMAIN paths : kernel'[paths[i].dev] = kernel[paths[i].dev]
      BY <1>5, <1>8, <3>1 DEF Setup, Devices, SameIf
    <3> QED BY <1>1, <3>2, BareWithin DEF RouteStays
  <2>5. Charge BY <1>2, <2>3, <2>4 DEF Charge
  <2>6. Costs' BY <2>5, CostsCharged DEF Setup, Progress
  <2> QED BY <1>6, <1>7, <1>9, <2>2, <2>6 DEF Setup
<1>11. CASE /\ created' = created \cup {t} /\ cur' = << >> /\ next' = 0
            /\ \E from : from # << >> /\ kernel' = Enter(kernel, t, Interface("gre", TRUE, TRUE, from))
  <2>1. Done' = Done \cup {<<t, 1>>}
    <3>1. \A b \in AllBearers : b[2] \in Nat /\ b[2] >= 1 /\ b = <<b[1], b[2]>> /\ (b[1] = t => b[2] = 1)
      <4>1. \A b \in AllBearers : b = <<b[1], b[2]>> /\ b[2] \in 1 .. Len(Tunnel(b[1]).bearers)
                                 /\ Len(Tunnel(b[1]).bearers) \in Nat
        BY BearersAre DEF Setup
      <4>2. \A b \in AllBearers : b[1] = t => b[2] \in 1 .. 1 BY <1>5, <4>1
      <4> QED BY <4>1, <4>2
    <3>2. \A b \in AllBearers : ~(b[2] < next) /\ ~(b[2] < next') BY <1>1, <1>11, <3>1
    <3>3. <<t, 1>> \in AllBearers BY <1>5, BearersAre DEF Setup
    <3>4. AllBearers' = AllBearers BY <1>1, BearersSame
    <3>5. \A b \in AllBearers : b[1] = t => b = <<t, 1>> BY <3>1
    <3>6. Done' = {b \in AllBearers : b[1] \in created \/ b[1] = t} BY <1>11, <3>2, <3>4 DEF Done
    <3>7. Done = {b \in AllBearers : b[1] \in created} BY <3>2 DEF Done
    <3> QED BY <3>3, <3>5, <3>6, <3>7
  <2>2. Paths' /\ PathsGrow BY <1>1, <2>1, PathsStay DEF Setup
  <2>3. Served(<<t, 1>>)'
    <3>1. PICK from : from # << >> /\ kernel' = Enter(kernel, t, Interface("gre", TRUE, TRUE, from)) BY <1>11
    <3>2. t \in DOMAIN kernel' /\ kernel'[t] = Interface("gre", TRUE, TRUE, from) BY <3>1 DEF Enter
    <3>3. KernelServes(t)' BY <3>1, <3>2 DEF KernelServes, InTheWay, Interface
    <3> QED BY <3>3 DEF Served
  <2>4. Lost' \subseteq Lost \cup {} BY <1>1, <1>5, <1>8, <2>1, <2>2, <2>3, SameStays, LostWithin
  <2>5. Bare' \subseteq Bare \cup {}
    <3>1. \A i \in DOMAIN paths : paths[i].dev \in devs BY DEF Setup, Paths
    <3>2. \A i \in DOMAIN paths : kernel'[paths[i].dev] = kernel[paths[i].dev]
      BY <1>5, <1>8, <3>1 DEF Setup, Devices, SameIf
    <3> QED BY <1>1, <3>2, BareWithin DEF RouteStays
  <2>6. Charge BY <1>2, <2>4, <2>5 DEF Charge
  <2>7. Costs' BY <2>6, CostsCharged DEF Setup, Progress
  <2> QED BY <1>6, <1>7, <1>9, <2>2, <2>7 DEF Setup
<1> QED BY <1>4, <1>10, <1>11

-----------------------------------------------------------------------------
(***************************************************************************)
(* addBearer.                                                              *)
(***************************************************************************)
LEMMA NextIs ==
  ASSUME Setup, NEW t, AtBearer(t)
  PROVE  /\ cur = t /\ t # << >> /\ t \in DOMAIN made.tunnels \ created
         /\ next \in Nat /\ next >= 1
         /\ <<t, next>> \in AllBearers \ Done
         /\ NextBearer(t) = BearerAt(<<t, next>>)
<1>1. /\ cur = t /\ t # << >> /\ t \in DOMAIN made.tunnels \ created /\ Listed(Tunnel(t).bearers)
  BY InCreation DEF AtBearer
<1>2. next \in DOMAIN Tunnel(t).bearers BY DEF AtBearer
<1>3. <<t, next>> \in AllBearers BY <1>1, <1>2, BearersAre DEF Setup
<1>4. next \in Nat /\ next >= 1 BY <1>1, <1>2 DEF Listed
<1> QED BY <1>1, <1>3, <1>4 DEF Done, NextBearer, BearerAt

LEMMA NextDone ==
  ASSUME Setup, NEW t, AtBearer(t), SameTunnels, fails' \in {fails, fails + 1},
         created' = created, cur' = cur, next' = next + 1
  PROVE  AllListed' /\ Progress' /\ Done' = Done \cup {<<t, next>>} /\ next' > 1
<1>1. /\ cur = t /\ t # << >> /\ t \in DOMAIN made.tunnels \ created
      /\ next \in Nat /\ next >= 1 /\ <<t, next>> \in AllBearers \ Done
  BY NextIs
<1>2. AllListed' BY BearersSame DEF Setup
<1>3. Progress'
  <2>1. fails' \in Nat BY DEF Setup, Progress
  <2> QED BY <1>1, <2>1 DEF Progress, SameTunnels
<1>4. Done' = Done \cup {<<t, next>>}
  <2>1. \A b \in AllBearers : b[2] \in Nat /\ b = <<b[1], b[2]>> BY BearersAre DEF Setup
  <2>2. \A b \in AllBearers : b[2] < next' <=> b[2] < next \/ b[2] = next BY <1>1, <2>1
  <2>3. \A b \in AllBearers : b[1] = t /\ b[2] = next <=> b = <<t, next>> BY <2>1
  <2> QED BY <1>1, <2>2, <2>3, BearersSame DEF Done
<1> QED BY <1>1, <1>2, <1>3, <1>4

LEMMA HinderedByPath ==
  ASSUME Setup, NEW t, AtBearer(t), NEW i \in DOMAIN paths,
         \/ IpAddress(paths[i].bearer.remote) = IpAddress(NextBearer(t).remote)
         \/ Overlap(paths[i].bearer, NextBearer(t)) /\ ~Client(NextBearer(t))
  PROVE  Hindered(<<t, next>>)
<1> DEFINE c == <<paths[i].dev, paths[i].n>>
<1>1. c \in Done /\ paths[i].bearer = BearerAt(c) BY DEF Setup, Paths
<1>2. c \in AllBearers \ {<<t, next>>} BY <1>1, NextIs DEF Done
<1>3. NextBearer(t) = BearerAt(<<t, next>>) BY NextIs
<1> HIDE DEF c
<1> QED BY <1>1, <1>2, <1>3 DEF Hindered

LEMMA NotMade ==
  ASSUME Setup, NEW t, AtBearer(t), ~(IsTcp(NextBearer(t)) /\ Client(NextBearer(t))),
         ~CanMake(NextBearer(t)) \/ MayBeRefused(NextBearer(t))
  PROVE  Hindered(<<t, next>>)
<1> DEFINE b == NextBearer(t)
<1>1. b = BearerAt(<<t, next>>) BY NextIs
<1>2. ASSUME NEW clients, InUse(b, clients) PROVE Hindered(<<t, next>>)
  <2>1. PICK i \in DOMAIN paths : Overlap(paths[i].bearer, b) BY <1>2 DEF InUse
  <2>2. IsTcp(b) BY <2>1 DEF Overlap
  <2> QED BY <2>1, <2>2, HinderedByPath
<1>3. CASE ~CanMake(b) /\ ~InUse(b, FALSE)
  <2>1. ~root BY <1>3 DEF CanMake, makeTcpConnection, Listens, makeUdpSocket, UdpBind, makeGreSocket, RawSocket
  <2> QED BY <2>1 DEF Hindered
<1>4. CASE ~Resolves(b.local) BY <1>1, <1>4 DEF Hindered
<1> QED BY <1>2, <1>3, <1>4 DEF MayBeRefused

\* The interface of the tunnel, as addIf leaves it.
LEMMA AddIf ==
  ASSUME Setup, NEW t, AtBearer(t), addIf(t), SameTunnels, fails' \in {fails, fails + 1},
         created' = created, cur' = cur, next' = next + 1,
         NEW k, IsInterface(k, "tun"), t \in devs /\ kernel[t].route => k.route,
         kernel' = Enter(kernel, t, k)
  PROVE  /\ Devices'
         /\ devs \subseteq devs' /\ t \in devs' /\ kernel'[t] = k
         /\ \A i : Stays(i)
         /\ \A i \in devs : RouteStays(i)
<1>1. t \in devs \/ t \notin DOMAIN kernel BY DEF addIf, CanOpen
<1>2. devs' = devs \cup {t} BY DEF addIf
<1>3. /\ DOMAIN kernel' = DOMAIN kernel \cup {t} /\ kernel'[t] = k
      /\ \A i \in DOMAIN kernel : i # t => kernel'[i] = kernel[i]
  BY DEF Enter
<1>4. cur = t /\ next' > 1 BY NextIs, NextDone
<1>5. Devices'
  <2>1. devs' \subseteq DOMAIN kernel' BY <1>2, <1>3 DEF Setup, Devices
  <2>2. \A i \in DOMAIN kernel' : IF i \in devs' THEN IsInterface(kernel'[i], "tun") ELSE IsForeign(kernel'[i])
    <3> SUFFICES ASSUME NEW i \in DOMAIN kernel'
                 PROVE  IF i \in devs' THEN IsInterface(kernel'[i], "tun") ELSE IsForeign(kernel'[i])
      OBVIOUS
    <3>1. CASE i = t BY <1>2, <1>3, <3>1
    <3>2. CASE i # t BY <1>2, <1>3, <3>2 DEF Setup, Devices
    <3> QED BY <3>1, <3>2
  <2>3. \A i \in devs' : i \in created' \/ (i = cur' /\ next' > 1) BY <1>2, <1>4 DEF Setup, Devices
  <2> QED BY <2>1, <2>2, <2>3 DEF Devices
<1>6. \A i : i # t => SameIf(i) BY <1>3 DEF SameIf
<1>7. ~InTheWay(t) BY <1>1 DEF Setup, Devices, InTheWay, IsForeign, IsInterface, Interface
<1>8. Stays(t) BY <1>7 DEF Stays, KernelServes
<1>9. ASSUME NEW i PROVE Stays(i)
  <2>1. CASE i = t BY <1>8, <2>1
  <2>2. CASE i # t BY <1>6, <2>2, SameStays
  <2> QED BY <2>1, <2>2
<1>10. \A i \in devs : RouteStays(i) BY <1>3 DEF Setup, Devices, RouteStays
<1> QED BY <1>2, <1>3, <1>5, <1>9, <1>10

\* A step to the next bearer that gives this one no path.
LEMMA NextLost ==
  ASSUME Setup, NEW t, AtBearer(t), SameTunnels, \A i : Stays(i), devs \subseteq devs',
         created' = created, cur' = cur, next' = next + 1,
         paths' = paths, rpeer2dev' = rpeer2dev,
         \A i \in devs : RouteStays(i),
         fails' = fails + 1 \/ (fails' = fails /\ Hindered(<<t, next>>))
  PROVE  /\ Paths' /\ Costs'
         /\ IsTcp(NextBearer(t)) => Explained'
<1>1. Done' = Done \cup {<<t, next>>} BY NextDone
<1>2. Paths' /\ PathsGrow BY <1>1, PathsStay DEF Setup
<1>3. Bare' \subseteq Bare \cup {} BY BareWithin DEF Setup, Paths
<1>4. PICK b : b = <<t, next>> OBVIOUS
<1>5. Lost' \subseteq Lost \cup {b}
  <2>1. \A c \in Done' : (c \in Done /\ Stays(c[1])) \/ c \in {b} BY <1>1, <1>4
  <2> QED BY <1>2, <2>1, LostWithin
<1>6. Hindered(b) => Hindered(b)' BY <1>2, Monotone
<1>7. Hindered(b) => Lost' \subseteq Lost \cup {}
  <2> SUFFICES ASSUME Hindered(b) PROVE Lost' \subseteq Lost \cup {} OBVIOUS
  <2>1. \A c \in Done' : (c \in Done /\ Stays(c[1])) \/ Hindered(c)' BY <1>1, <1>4, <1>6
  <2> QED BY <1>2, <2>1, LostWithin
<1>8. Charge BY <1>3, <1>4, <1>5, <1>7 DEF Charge
<1>9. Costs' BY <1>8, CostsCharged DEF Setup, Progress
<1>10. ASSUME IsTcp(NextBearer(t)) PROVE Explained'
  <2>1. b \in AllBearers' /\ BearerAt(b)' = BearerAt(b) /\ BearerAt(b) = NextBearer(t)
    BY <1>4, NextIs, BearersSame
  <2>2. fails' > 0 \/ Hindered(b)'
    <3>1. fails \in Nat BY DEF Setup, Progress
    <3> QED BY <1>4, <1>6, <3>1
  <2> QED BY <1>10, <2>1, <2>2 DEF Explained, IsTcp
<1> QED BY <1>2, <1>9, <1>10

LEMMA KeptByNoTransport ==
  ASSUME Setup, NEW t, AddBearerNoTransport(t)
  PROVE  Setup'
<1>1. /\ AtBearer(t) /\ ~(IsTcp(NextBearer(t)) /\ Client(NextBearer(t)))
      /\ next' = next + 1 /\ SameTunnels
      /\ UNCHANGED <<created, cur, kernel, devs, rpeer2dev, paths>>
  BY DEF AddBearerNoTransport, SameTunnels, gatewayVars, inputs
<1>2. fails' = fails + 1 \/ (fails' = fails /\ Hindered(<<t, next>>))
  BY <1>1, NotMade DEF AddBearerNoTransport, Fails
<1>3. AllListed' /\ Progress' /\ next' > 1 BY <1>1, <1>2, NextDone
<1>4. Devices' BY <1>1, <1>3 DEF Setup, Devices
<1>5. \A i : Stays(i) /\ RouteStays(i) BY <1>1, SameStays DEF SameIf, RouteStays
<1>6. Paths' /\ Costs' BY <1>1, <1>2, <1>5, NextLost
<1> QED BY <1>3, <1>4, <1>6 DEF Setup

LEMMA KeptByNoIf ==
  ASSUME Setup, NEW t, AddBearerNoIf(t)
  PROVE  Setup' /\ pc' \in {pc, "aborted"} /\ (pc' = "aborted" => pc = "aborted" \/ Explained')
<1>1. /\ AtBearer(t) /\ t \notin devs /\ SameTunnels
      /\ next' = next + 1 /\ pc' = IF IsTcp(NextBearer(t)) THEN "aborted" ELSE pc
      /\ UNCHANGED <<created, cur, kernel, devs, rpeer2dev, paths>>
  BY DEF AddBearerNoIf, DropPath, SameTunnels, inputs
<1>2. fails' = fails + 1 \/ (fails' = fails /\ Hindered(<<t, next>>))
  <2>1. CASE CanOpen(t) BY <2>1 DEF AddBearerNoIf, Fails
  <2>2. CASE ~CanOpen(t)
    <3>1. fails' = fails BY <2>2 DEF AddBearerNoIf, Fails
    <3>2. ~root \/ InTheWay(t)
      BY <1>1, <2>2 DEF CanOpen, InTheWay, Setup, Devices, IsForeign, IsInterface, Interface
    <3> QED BY <3>1, <3>2 DEF Hindered
  <2> QED BY <2>1, <2>2
<1>3. AllListed' /\ Progress' /\ next' > 1 BY <1>1, <1>2, NextDone
<1>4. Devices' BY <1>1, <1>3 DEF Setup, Devices
<1>5. \A i : Stays(i) /\ RouteStays(i) BY <1>1, SameStays DEF SameIf, RouteStays
<1>6. Paths' /\ Costs' /\ (IsTcp(NextBearer(t)) => Explained') BY <1>1, <1>2, <1>5, NextLost
<1> QED BY <1>1, <1>3, <1>4, <1>6 DEF Setup

LEMMA DeviceIs ==
  ASSUME Setup, NEW t
  PROVE  IsInterface(Device(t), "tun") /\ (t \in devs => Device(t) = kernel[t])
BY DEF Setup, Devices, Device, IsInterface, Interface

LEMMA KeptByRefused ==
  ASSUME Setup, NEW t, AddBearerRefused(t)
  PROVE  Setup' /\ pc' \in {pc, "aborted"} /\ (pc' = "aborted" => pc = "aborted" \/ Explained')
<1>1. /\ AtBearer(t) /\ addIf(t) /\ SameTunnels
      /\ IpAddress(NextBearer(t).remote) \in DOMAIN rpeer2dev
      /\ kernel' = Enter(kernel, t, Device(t))
      /\ next' = next + 1 /\ pc' = IF IsTcp(NextBearer(t)) THEN "aborted" ELSE pc
      /\ UNCHANGED <<created, cur, rpeer2dev, paths, fails>>
  BY DEF AddBearerRefused, DropPath, SameTunnels, inputs
<1>2. Hindered(<<t, next>>)
  <2>1. PICK i \in DOMAIN paths : IpAddress(paths[i].bearer.remote) = IpAddress(NextBearer(t).remote)
    BY <1>1 DEF Setup, Paths
  <2> QED BY <1>1, <2>1, HinderedByPath
<1>3. AllListed' /\ Progress' BY <1>1, NextDone
<1>4. PICK k : k = Device(t) OBVIOUS
<1>5. IsInterface(k, "tun") /\ (t \in devs /\ kernel[t].route => k.route) BY <1>4, DeviceIs
<1>6. /\ Devices' /\ devs \subseteq devs' /\ \A i : Stays(i)
      /\ \A i \in devs : RouteStays(i)
  BY <1>1, <1>4, <1>5, AddIf
<1>7. Paths' /\ Costs' /\ (IsTcp(NextBearer(t)) => Explained') BY <1>1, <1>2, <1>6, NextLost
<1> QED BY <1>1, <1>3, <1>6, <1>7 DEF Setup

LEMMA KeptByAddBearer ==
  ASSUME Setup, NEW t, AddBearer(t)
  PROVE  Setup'
<1>1. PICK b, n, d : b = NextBearer(t) /\ n = next /\ d = Device(t) OBVIOUS
<1> DEFINE path == [dev |-> t, n |-> n, bearer |-> b]
           Configured(addr, route) == kernel' = Enter(kernel, t, Interface("tun", d.addr \/ addr, d.route \/ route, d.from))
<1>2. /\ AtBearer(t) /\ addIf(t) /\ SameTunnels
      /\ IpAddress(b.remote) \notin DOMAIN rpeer2dev
      /\ rpeer2dev' = Enter(rpeer2dev, IpAddress(b.remote), t)
      /\ paths' = Append(paths, path)
      /\ next' = next + 1 /\ UNCHANGED <<created, cur>>
  BY <1>1 DEF AddBearer, SameTunnels, gatewayVars, inputs
<1>3. \/ fails' = fails + 1 /\ Configured(FALSE, FALSE)
      \/ fails' = fails + 1 /\ Configured(HasAddr(t), FALSE)
      \/ fails' = fails /\ Configured(HasAddr(t), TRUE)
      \/ fails' = fails /\ Configured(FALSE, FALSE) /\ ~CanConfigure(t)
      \/ fails' = fails /\ Configured(HasAddr(t), FALSE) /\ ~CanRoute(t)
  BY <1>1 DEF AddBearer, Fails, Succeeds
<1>4. fails' \in {fails, fails + 1} BY <1>3
<1>5. /\ cur = t /\ t \in DOMAIN made.tunnels \ created
      /\ <<t, n>> \in AllBearers \ Done /\ b = BearerAt(<<t, n>>)
  BY <1>1, <1>2, NextIs
<1>6. AllListed' /\ Progress' /\ Done' = Done \cup {<<t, n>>} BY <1>1, <1>2, <1>4, NextDone
<1>7. IsInterface(d, "tun") /\ (t \in devs => d = kernel[t]) BY <1>1, DeviceIs
<1>8. PICK k : /\ IsInterface(k, "tun") /\ (d.route => k.route) /\ kernel' = Enter(kernel, t, k)
               /\ fails' = fails + 1 \/ k.route \/ ~CanConfigure(t) \/ ~CanRoute(t)
  <2>1. \A addr \in BOOLEAN, route \in BOOLEAN :
          LET k == Interface("tun", d.addr \/ addr, d.route \/ route, d.from) IN
          IsInterface(k, "tun") /\ (d.route => k.route) /\ (route => k.route)
    <3> SUFFICES ASSUME NEW addr \in BOOLEAN, NEW route \in BOOLEAN, NEW k,
                        k = Interface("tun", d.addr \/ addr, d.route \/ route, d.from)
                 PROVE  IsInterface(k, "tun") /\ (d.route => k.route) /\ (route => k.route)
      OBVIOUS
    <3>1. k.addr = (d.addr \/ addr) /\ k.route = (d.route \/ route) /\ k.from = d.from BY DEF Interface
    <3>2. k.addr \in BOOLEAN /\ k.route \in BOOLEAN BY <3>1
    <3>3. k = Interface("tun", k.addr, k.route, k.from) BY <3>1 DEF Interface
    <3> QED BY <3>1, <3>2, <3>3 DEF IsInterface
  <2>2. HasAddr(t) \in BOOLEAN BY DEF HasAddr
  <2> QED BY <1>3, <2>1, <2>2
<1>9. /\ Devices' /\ devs \subseteq devs' /\ t \in devs' /\ kernel'[t] = k
      /\ \A i : Stays(i)
      /\ \A i \in devs : RouteStays(i)
  BY <1>2, <1>4, <1>7, <1>8, AddIf
<1> DEFINE N == Len(paths)
<1>10. /\ N \in Nat /\ DOMAIN paths = 1 .. N /\ Len(paths') = N + 1 /\ DOMAIN paths' = 1 .. N + 1
       /\ paths'[N + 1] = path /\ \A i \in 1 .. N : paths'[i] = paths[i]
       /\ paths' = [i \in 1 .. N + 1 |-> paths'[i]]
  <2>1. paths \in Seq({paths[i] : i \in DOMAIN paths} \cup {path})
    <3>1. N \in Nat /\ DOMAIN paths = 1 .. N /\ paths = [i \in 1 .. N |-> paths[i]] BY DEF Setup, Paths, Listed
    <3> DEFINE R == {paths[i] : i \in DOMAIN paths} \cup {path}
    <3>2. \A i \in 1 .. N : paths[i] \in R BY <3>1
    <3> HIDE DEF R, N
    <3>3. [i \in 1 .. N |-> paths[i]] \in Seq(R) BY <3>1, <3>2
    <3> QED BY <3>1, <3>3 DEF R
  <2> DEFINE S == {paths[i] : i \in DOMAIN paths} \cup {path}
  <2>2. path \in S OBVIOUS
  <2> HIDE DEF S, path
  <2>3. paths \in Seq(S) BY <2>1 DEF S
  <2>4. /\ paths' \in Seq(S) /\ Len(paths') = N + 1 /\ paths'[N + 1] = path
        /\ \A i \in 1 .. N : paths'[i] = paths[i]
    BY <1>2, <2>2, <2>3, AppendProperties
  <2>5. N \in Nat /\ DOMAIN paths = 1 .. N BY <2>3, LenProperties
  <2>6. DOMAIN paths' = 1 .. N + 1 BY <2>4, LenProperties
  <2>7. paths' = [i \in 1 .. N + 1 |-> paths'[i]] BY <2>4, <2>6
  <2> QED BY <2>4, <2>5, <2>6, <2>7
<1> HIDE DEF N
<1>11. PathsGrow BY <1>10 DEF PathsGrow
<1>12. Paths'
  <2>1. Listed(paths') /\ paths' = [i \in 1 .. Len(paths') |-> paths'[i]] BY <1>10 DEF Listed
  <2>2. ASSUME NEW i \in DOMAIN paths'
        PROVE  /\ paths'[i].dev \in devs' /\ <<paths'[i].dev, paths'[i].n>> \in Done'
               /\ paths'[i].bearer = BearerAt(<<paths'[i].dev, paths'[i].n>>)
    <3>1. CASE i \in DOMAIN paths
      <4>1. paths'[i] = paths[i] BY <1>10, <3>1
      <4> QED BY <1>6, <1>9, <3>1, <4>1 DEF Setup, Paths
    <3>2. CASE i \notin DOMAIN paths
      <4>1. paths'[i] = path BY <1>10, <3>2
      <4> QED BY <1>5, <1>6, <1>9, <4>1
    <3> QED BY <3>1, <3>2
  <2>3. \A c : BearerAt(c)' = BearerAt(c) BY <1>2, BearersSame
  <2>4. ASSUME NEW a \in DOMAIN rpeer2dev' PROVE \E i \in DOMAIN paths' : IpAddress(paths'[i].bearer.remote) = a
    <3>1. CASE a \in DOMAIN rpeer2dev
      <4>1. PICK i \in DOMAIN paths : IpAddress(paths[i].bearer.remote) = a BY <3>1 DEF Setup, Paths
      <4>2. i \in DOMAIN paths' /\ paths'[i] = paths[i] BY <1>11 DEF PathsGrow
      <4> QED BY <4>1, <4>2
    <3>2. CASE a \notin DOMAIN rpeer2dev
      <4>1. a = IpAddress(b.remote) BY <1>2, <3>2 DEF Enter
      <4>2. N + 1 \in DOMAIN paths' /\ paths'[N + 1].bearer = b BY <1>10
      <4> QED BY <4>1, <4>2
    <3> QED BY <3>1, <3>2
  <2> QED BY <2>1, <2>2, <2>3, <2>4 DEF Paths, Listed, IpAddress
<1>13. Lost' \subseteq Lost \cup {}
  <2>1. PICK c : c = <<t, n>> OBVIOUS
  <2>2. N + 1 \in DOMAIN paths' /\ paths'[N + 1].dev = c[1] /\ paths'[N + 1].n = c[2] BY <1>10, <2>1
  <2>3. Served(c)' BY <2>2 DEF Served
  <2>4. \A e \in Done' : (e \in Done /\ Stays(e[1])) \/ Served(e)' BY <1>6, <1>9, <2>1, <2>3
  <2> QED BY <1>2, <1>11, <2>4, LostWithin
<1>14. \A i \in DOMAIN paths' :
         \/ i = N + 1
         \/ /\ i \in DOMAIN paths /\ paths'[i].dev = paths[i].dev
            /\ RouteStays(paths[i].dev)
  <2>1. \A i \in DOMAIN paths' : i = N + 1 \/ i \in DOMAIN paths BY <1>10
  <2>2. \A i \in DOMAIN paths : paths[i].dev \in devs BY DEF Setup, Paths
  <2>3. \A i \in DOMAIN paths : paths'[i].dev = paths[i].dev BY <1>11 DEF PathsGrow
  <2>4. \A i \in DOMAIN paths : RouteStays(paths[i].dev) BY <1>9, <2>2
  <2> SUFFICES ASSUME NEW i \in DOMAIN paths', i # N + 1
               PROVE  i \in DOMAIN paths /\ paths'[i].dev = paths[i].dev /\ RouteStays(paths[i].dev)
    OBVIOUS
  <2>5. i \in DOMAIN paths BY <2>1
  <2> QED BY <2>3, <2>4, <2>5
<1>15. Bare' \subseteq Bare \cup {N + 1}
  <2>1. \A i \in DOMAIN paths' :
          \/ i \in {N + 1}
          \/ /\ i \in DOMAIN paths /\ paths'[i].dev = paths[i].dev
             /\ RouteStays(paths[i].dev)
    BY <1>14
  <2> QED BY <1>2, <2>1, BareWithin
<1>16. fails' # fails + 1 => Bare' \subseteq Bare \cup {}
  <2> SUFFICES ASSUME fails' # fails + 1 PROVE Bare' \subseteq Bare \cup {} OBVIOUS
  <2>1. k.route \/ ~CanConfigure(t) \/ ~CanRoute(t) BY <1>8
  <2>2. paths'[N + 1].dev = t /\ kernel'[t] = k BY <1>9, <1>10
  <2>3. kernel'[paths'[N + 1].dev].route \/ ~CanConfigure(paths'[N + 1].dev) \/ ~CanRoute(paths'[N + 1].dev)
    BY <2>1, <2>2
  <2>4. \A i \in DOMAIN paths' : \/ kernel'[paths'[i].dev].route
                                 \/ ~CanConfigure(paths'[i].dev) \/ ~CanRoute(paths'[i].dev)
                                 \/ /\ i \in DOMAIN paths /\ paths'[i].dev = paths[i].dev
                                    /\ RouteStays(paths[i].dev)
    BY <1>14, <2>3
  <2> QED BY <1>2, <2>4, BareWithin
<1>17. Charge
  <2>1. Lost' \subseteq Lost BY <1>13
  <2>2. CASE fails' = fails + 1 BY <1>15, <2>1, <2>2 DEF Charge
  <2>3. CASE fails' # fails + 1 BY <1>4, <1>16, <2>1, <2>3 DEF Charge
  <2> QED BY <2>2, <2>3
<1>18. Costs' BY <1>17, CostsCharged DEF Setup, Progress
<1> QED BY <1>6, <1>9, <1>12, <1>18 DEF Setup

-----------------------------------------------------------------------------
(***************************************************************************)
(* The start.                                                              *)
(***************************************************************************)
LEMMA SetupUnmoved ==
  ASSUME UNCHANGED <<made, root, setupVars>>
  PROVE  /\ Setup => Setup'
         /\ Untouched => Untouched'
         /\ Explained => Explained'
<1>1. SameTunnels /\ fails' = fails /\ created' = created /\ kernel' = kernel
      /\ UNCHANGED <<cur, next, devs, rpeer2dev, paths>>
  BY DEF SameTunnels, setupVars
<1>2. ASSUME Setup PROVE Setup'
  <2>1. AllListed' /\ Progress' /\ Devices' BY <1>1, <1>2, BearersSame DEF Setup, Progress, Devices, SameTunnels, Tunnel
  <2>2. Done' = Done BY <1>1, BearersSame DEF Done
  <2>3. Paths' /\ PathsGrow BY <1>1, <1>2, <2>2, PathsStay DEF Setup
  <2>4. \A i : SameIf(i) BY <1>1 DEF SameIf
  <2>5. Lost' \subseteq Lost \cup {} BY <1>1, <2>2, <2>3, <2>4, SameStays, LostWithin
  <2>6. Bare' \subseteq Bare \cup {} BY <1>1, BareWithin DEF RouteStays
  <2>7. Charge BY <1>1, <2>5, <2>6 DEF Charge
  <2>8. Costs' BY <1>2, <2>7, CostsCharged DEF Setup, Progress
  <2> QED BY <2>1, <2>3, <2>8 DEF Setup
<1>3. Untouched => Untouched' BY <1>1 DEF Untouched
<1>4. ASSUME Explained PROVE Explained'
  <2>1. PICK b \in AllBearers : IsTcp(BearerAt(b)) /\ (fails > 0 \/ Hindered(b)) BY <1>4 DEF Explained
  <2>2. Hindered(b) => Hindered(b)' BY <1>1, Monotone, SameStays DEF PathsGrow, SameIf
  <2>3. b \in AllBearers' /\ BearerAt(b)' = BearerAt(b) BY <1>1, BearersSame
  <2> QED BY <1>1, <2>1, <2>2, <2>3 DEF Explained, IsTcp
<1> QED BY <1>2, <1>3, <1>4

LEMMA ConfigureBegins ==
  ASSUME Parsed, Untouched, Configure, UNCHANGED setupVars
  PROVE  Setup'
<1>1. made'.tunnels = parseCfg(data) /\ data' = data BY DEF Configure, read
<1>2. /\ created' = {} /\ cur' = << >> /\ next' = 0 /\ fails' \in Nat /\ devs' = {}
      /\ DOMAIN rpeer2dev' = {} /\ paths' = << >> /\ DOMAIN paths' = {}
      /\ \A t \in DOMAIN kernel' : IsForeign(kernel'[t])
  BY DEF Untouched, setupVars
<1>3. AllListed' BY <1>1, BearersListed DEF AllListed, Parsed, Tunnel
<1>4. Progress' BY <1>2 DEF Progress
<1>5. Devices' BY <1>2 DEF Devices
<1>6. Done' = {}
  <2>1. \A b \in AllBearers' : b[2] \in 1 .. Len(Tunnel(b[1])'.bearers) /\ Len(Tunnel(b[1])'.bearers) \in Nat
    BY <1>3 DEF AllListed, Listed, AllBearers
  <2>2. \A b \in AllBearers' : ~(b[2] < next') BY <1>2, <2>1
  <2> QED BY <1>2, <2>2 DEF Done
<1>7. Paths'
  <2>1. Len(paths') = 0 BY <1>2
  <2>2. paths' = [i \in 1 .. Len(paths') |-> paths'[i]] BY <1>2, <2>1
  <2> QED BY <1>2, <2>1, <2>2 DEF Paths, Listed
<1>8. Costs'
  <2>1. Lost' = {} /\ Bare' = {} BY <1>2, <1>6 DEF Lost, Bare
  <2>2. IsFiniteSet({}) /\ Cardinality({}) = 0 BY FS_EmptySet
  <2> QED BY <1>2, <2>1, <2>2 DEF Costs
<1> QED BY <1>3, <1>4, <1>5, <1>7, <1>8 DEF Setup

\* The steps before and after the creation of the tunnels.
LEMMA BeforeAndAfter ==
  ASSUME GatewayNext, ~Configure
  PROVE  /\ made' = made /\ root' = root
         /\ \/ pc' \in Early \cup {"ended"} /\ pc \in Early
            \/ pc' \in {"bind", "listen", "serving", "unwinding"} /\ pc \in {"bind", "listen"}
<1>1. made' = made /\ root' = root
  BY DEF GatewayNext, Start, SkipToken, SelectNameSpace, Add, SyntaxError, Built,
     CompileRow, CompileEnds, Bind, BindFails, Listen, inputs
<1>2. \/ pc' \in Early \cup {"ended"} /\ pc \in Early
      \/ pc' \in {"bind", "listen", "serving", "unwinding"} /\ pc \in {"bind", "listen"}
  BY DEF GatewayNext, Start, SkipToken, SelectNameSpace, Add, SyntaxError, Built,
     CompileRow, CompileEnds, Bind, BindFails, Listen, Early
<1> QED BY <1>1, <1>2

LEMMA CreateTunnelKeeps ==
  ASSUME Setup, NEW t, CreateTunnel(t)
  PROVE  /\ Setup' /\ pc' \in {pc, "aborted"}
         /\ pc' = "aborted" => pc = "aborted" \/ Explained'
<1>1. CASE CreateEmpty(t) BY <1>1, KeptByCreateEmpty DEF CreateEmpty, gatewayVars
<1>2. CASE Create(t) BY <1>2, KeptByCreate DEF Create, gatewayVars
<1>3. CASE KernelTunnel(t) BY <1>3, KeptByKernelTunnel DEF KernelTunnel, gatewayVars
<1>4. CASE CreateEnds(t) BY <1>4, KeptByCreateEnds DEF CreateEnds, gatewayVars
<1>5. CASE AddBearerNoTransport(t) BY <1>5, KeptByNoTransport DEF AddBearerNoTransport, gatewayVars
<1>6. CASE AddBearerNoIf(t) BY <1>6, KeptByNoIf
<1>7. CASE AddBearerRefused(t) BY <1>7, KeptByRefused
<1>8. CASE AddBearer(t) BY <1>8, KeptByAddBearer DEF AddBearer, gatewayVars
<1> QED BY <1>1, <1>2, <1>3, <1>4, <1>5, <1>6, <1>7, <1>8 DEF CreateTunnel

\* The gateway starts with its file in tokens and no tunnel of its own.
THEOREM InitIInv == StartInit => IInv
<1> SUFFICES ASSUME StartInit PROVE IInv OBVIOUS
<1>1. Parsed BY ParsedInit DEF StartInit
<1>2. pc = "start" BY DEF StartInit, GatewayInit
<1>3. Untouched
  <2>1. kernel \in Leftovers BY DEF StartInit, SetupInit
  <2>2. \A t \in DOMAIN kernel : IsForeign(kernel[t])
    BY <2>1, SetupAssumption, Zenon DEF IsForeign, IsInterface
  <2>3. DOMAIN rpeer2dev = {} BY DEF StartInit, SetupInit
  <2> QED BY <2>2, <2>3 DEF StartInit, SetupInit, Untouched
<1> QED BY <1>1, <1>2, <1>3 DEF IInv

\* Every step of the parser and of createTunnel (TunnelBuilder.cc) keeps the
\* invariant: a bearer that finds no transport, no interface or its address
\* taken is the only one lost, and a configuration that fails leaves only that
\* interface bare.
THEOREM NextIInv == IInv /\ [StartNext]_startVars => IInv'
<1> SUFFICES ASSUME IInv, [StartNext]_startVars PROVE IInv' OBVIOUS
<1>1. CASE UNCHANGED startVars
  <2>1. UNCHANGED <<pc, created, made, root, setupVars, tl, namespace, rows, data>>
    BY <1>1 DEF startVars, gatewayVars, setupVars, inputs, read
  <2>2. Parsed' BY <2>1 DEF IInv, Parsed
  <2> QED BY <2>1, <2>2, SetupUnmoved DEF IInv
<1>2. CASE GatewayNext /\ UNCHANGED setupVars
  <2>1. Parsed' BY <1>2, ParsedKept DEF IInv
  <2>2. created' = created BY <1>2 DEF setupVars
  <2>3. CASE Configure
    <3>1. pc \in Early /\ pc' = "tunnels" BY <2>3 DEF Configure, Early
    <3>2. Setup' BY <1>2, <2>3, <3>1, ConfigureBegins DEF IInv
    <3> QED BY <2>1, <3>1, <3>2 DEF IInv, Early
  <2>4. CASE ~Configure
    <3>1. made' = made /\ root' = root BY <1>2, <2>4, BeforeAndAfter
    <3>2. \/ pc' \in Early \cup {"ended"} /\ pc \in Early
          \/ pc' \in {"bind", "listen", "serving", "unwinding"} /\ pc \in {"bind", "listen"}
      BY <1>2, <2>4, BeforeAndAfter
    <3>3. (Setup => Setup') /\ (Untouched => Untouched') BY <1>2, <3>1, SetupUnmoved
    <3> QED BY <2>1, <2>2, <3>1, <3>2, <3>3 DEF IInv, Early
  <2> QED BY <2>3, <2>4
<1>3. CASE pc = "tunnels" /\ \E t \in DOMAIN made.tunnels : CreateTunnel(t)
  <2>1. PICK t : CreateTunnel(t) BY <1>3
  <2>2. /\ Setup' /\ pc' \in {pc, "aborted"}
        /\ pc' = "aborted" => pc = "aborted" \/ Explained'
    BY <1>3, <2>1, CreateTunnelKeeps DEF IInv
  <2>3. UNCHANGED read
    BY <2>1 DEF CreateTunnel, CreateEmpty, Create, KernelTunnel, CreateEnds, AddBearerNoTransport,
       AddBearerNoIf, AddBearerRefused, AddBearer, DropPath, gatewayVars
  <2>4. Parsed' BY <2>3 DEF IInv, Parsed, read
  <2> QED BY <1>3, <2>2, <2>4 DEF IInv, Early
<1>4. CASE TunnelsDone
  <2>1. /\ pc = "tunnels" /\ created = DOMAIN made.tunnels /\ pc' \in {"unwinding", "bind"}
        /\ UNCHANGED <<made, root, setupVars, read>> /\ created' = created
    BY <1>4 DEF TunnelsDone, inputs, setupVars
  <2>2. Parsed' BY <2>1 DEF IInv, Parsed, read
  <2>3. Setup' BY <2>1, SetupUnmoved DEF IInv
  <2> QED BY <2>1, <2>2, <2>3 DEF IInv, Early
<1>5. CASE Unwind
  <2>1. pc' = "ended" /\ UNCHANGED read BY <1>5 DEF Unwind
  <2>2. Parsed' BY <2>1 DEF IInv, Parsed, read
  <2> QED BY <2>1, <2>2 DEF IInv, Early
<1> QED BY <1>1, <1>2, <1>3, <1>4, <1>5 DEF StartNext

\* Once all tunnels are created every bearer is done, so that what IInv says
\* of the bearers done is said of all.
THEOREM IInvContains == IInv => FailuresContained
<1> SUFFICES ASSUME IInv PROVE FailuresContained OBVIOUS
<1>1. ASSUME pc \in {"bind", "listen", "serving"}
      PROVE  Cardinality({b \in AllBearers : ~Served(b) /\ ~Hindered(b)})
               + Cardinality({i \in DOMAIN paths : Configurable(i)}) <= fails
  <2>1. Setup /\ created = DOMAIN made.tunnels BY <1>1 DEF IInv
  <2>2. \A b \in AllBearers : b[1] \in created BY <2>1, BearersAre DEF Setup
  <2>3. Done = AllBearers BY <2>2 DEF Done
  <2>4. /\ Lost = {b \in AllBearers : ~Served(b) /\ ~Hindered(b)}
        /\ Bare = {i \in DOMAIN paths : Configurable(i)}
    BY <2>3 DEF Lost, Bare
  <2> QED BY <2>1, <2>4 DEF Setup, Costs
<1>2. pc = "aborted" => \E b \in AllBearers : IsTcp(BearerAt(b)) /\ (fails > 0 \/ Hindered(b))
  BY DEF IInv, Explained
<1> QED BY <1>1, <1>2 DEF FailuresContained

\* In every start, whatever the configuration: each call that fails while
\* the tunnels are created costs one bearer or the route of one interface,
\* and a process ends in the middle of it only over a TCP bearer that is
\* hindered or after a failure (TunnelBuilder::createTunnel, addBearer).
THEOREM FailuresAreContained == StartSpec => []FailuresContained
<1>1. StartInit => IInv BY InitIInv
<1>2. IInv /\ [StartNext]_startVars => IInv' BY NextIInv
<1>3. IInv => FailuresContained BY IInvContains
<1> QED BY <1>1, <1>2, <1>3, PTL DEF StartSpec

-----------------------------------------------------------------------------
(***************************************************************************)
(* The tables of a start.                                                  *)
(***************************************************************************)
\* Where the creation of the tunnels stands.
Stage ==
  /\ next \in Nat /\ allMade \in BOOLEAN /\ fails \in 0 .. MaxFail
  /\ pc \in Early => made = << >>
  /\ pc = "tunnels" => made # << >>
  /\ IF made = << >> THEN created = {} ELSE created \subseteq DOMAIN made.tunnels
  /\ cur # << >> => /\ pc \in {"tunnels", "aborted"} /\ made # << >>
                    /\ cur \in DOMAIN made.tunnels \ created

\* A device of the gateway is that of a tunnel created or in creation, so that
\* "ip tunnel del" for another one does not take it away.
Interfaces ==
  /\ devs \subseteq DOMAIN kernel
  /\ \A t \in DOMAIN kernel : kernel[t].kind \in IF t \in devs THEN {"tun"} ELSE {"gre", "other"}
  /\ \A t \in devs : t # << >> /\ (t \in created \/ t = cur)

\* A sequence and no other function, whatever its members.
IsList(p) == p = [i \in 1 .. Len(p) |-> p[i]] /\ Len(p) \in Nat

\* An address is known for every path, and its device is open.
Peers ==
  /\ \A a \in DOMAIN rpeer2dev : a \in 0 .. NoAddress /\ rpeer2dev[a] \in devs
  /\ IsFiniteSet(DOMAIN rpeer2dev) /\ Len(paths) = Cardinality(DOMAIN rpeer2dev)
  /\ IsList(paths)

TInv == Stage /\ Interfaces /\ Peers

LEMMA SeqIsList == ASSUME NEW S, NEW q \in Seq(S) PROVE IsList(q)
<1> DEFINE n == Len(q)
<1>1. n \in Nat /\ q \in [1 .. n -> S] BY LenProperties, ElementOfSeq
<1> HIDE DEF n
<1>2. q = [i \in 1 .. n |-> q[i]] BY <1>1
<1> QED BY <1>1, <1>2 DEF IsList, n

LEMMA Lengthened ==
  ASSUME NEW p, IsList(p), NEW x
  PROVE  IsList(Append(p, x)) /\ Len(Append(p, x)) = Len(p) + 1
<1> DEFINE n == Len(p)
           S == {p[i] : i \in 1 .. n} \cup {x}
           f == [i \in 1 .. n |-> p[i]]
<1>1. n \in Nat /\ p = f BY DEF IsList
<1>2. x \in S /\ \A i \in 1 .. n : p[i] \in S OBVIOUS
<1> HIDE DEF S, n
<1>3. f \in [1 .. n -> S] BY <1>2
<1>4. f \in Seq(S)
  <2>1. f \in UNION {[1 .. k -> S] : k \in Nat} BY <1>1, <1>3
  <2> QED BY <2>1, SeqDef
<1> HIDE DEF f
<1>5. p \in Seq(S) BY <1>1, <1>4
<1>6. Append(p, x) \in Seq(S) /\ Len(Append(p, x)) = Len(p) + 1 BY <1>2, <1>5, AppendProperties
<1> QED BY <1>6, SeqIsList

LEMMA AddressRange == ASSUME NEW a PROVE IpAddress(a) \in 0 .. NoAddress
BY SetupAssumption DEF IpAddress

LEMMA FailsInRange ==
  ASSUME fails \in 0 .. MaxFail, NEW can, Fails(can) \/ Succeeds(can)
  PROVE  fails' \in 0 .. MaxFail
BY SetupAssumption DEF Fails, Succeeds

\* The tables that a step leaves alone, while no tunnel leaves the creation.
LEMMA TablesStay ==
  ASSUME Interfaces, Peers, UNCHANGED <<kernel, devs, rpeer2dev, paths>>,
         created \subseteq created', cur' = cur \/ cur \in created' \/ cur = << >>
  PROVE  Interfaces' /\ Peers'
<1>1. Interfaces' BY DEF Interfaces
<1>2. Peers' BY DEF Peers, IsList
<1> QED BY <1>1, <1>2

LEMMA StageOfCreation ==
  ASSUME Stage, pc = "tunnels", NEW t, Creating(t), made' = made, pc' \in {"tunnels", "aborted"},
         next' \in Nat, fails' \in 0 .. MaxFail, allMade' = allMade,
         \/ created' = created /\ cur' = cur
         \/ created' = created \cup {t} /\ cur' = << >>
  PROVE  Stage'
<1>1. cur = t /\ t # << >> /\ made # << >> /\ t \in DOMAIN made.tunnels \ created
  BY DEF Stage, Creating
<1>2. created' \subseteq DOMAIN made'.tunnels BY <1>1 DEF Stage
<1>3. cur' # << >> => cur' \in DOMAIN made'.tunnels \ created' BY <1>1
<1>4. pc' \notin Early BY DEF Early
<1> QED BY <1>1, <1>2, <1>3, <1>4 DEF Stage

LEMMA TypesCreateTunnel ==
  ASSUME TInv, pc = "tunnels", NEW t, CreateTunnel(t)
  PROVE  TInv'
<1> USE DEF TInv
<1>1. CASE CreateEmpty(t)
  <2>1. Stage' BY <1>1 DEF CreateEmpty, Stage, Early, gatewayVars, inputs
  <2>2. Interfaces' /\ Peers' BY <1>1, TablesStay DEF CreateEmpty
  <2> QED BY <2>1, <2>2
<1>2. CASE Create(t)
  <2>1. fails' \in 0 .. MaxFail BY <1>2, FailsInRange DEF Create, Stage
  <2>2. Stage' BY <1>2, <2>1 DEF Create, Stage, Early, gatewayVars, inputs
  <2>3. kernel' = [i \in DOMAIN kernel \ {t} |-> kernel[i]] \/ kernel' = kernel BY <1>2 DEF Create
  <2>4. /\ cur = << >> /\ t \notin created
        /\ UNCHANGED <<created, devs, rpeer2dev, paths>>
    BY <1>2 DEF Create
  <2>5. t \notin devs BY <2>4 DEF Interfaces
  <2>6. Interfaces' BY <2>3, <2>4, <2>5 DEF Interfaces
  <2>7. Peers' BY <2>4 DEF Peers, IsList
  <2> QED BY <2>2, <2>6, <2>7
<1>3. CASE KernelTunnel(t)
  <2>1. Creating(t) /\ UNCHANGED <<gatewayVars, devs, rpeer2dev, paths, allMade>> BY <1>3 DEF KernelTunnel
  <2>2. /\ fails' \in 0 .. MaxFail /\ next' \in Nat
        /\ \/ created' = created /\ cur' = cur
           \/ created' = created \cup {t} /\ cur' = << >>
    <3>1. fails' \in 0 .. MaxFail BY <1>3, FailsInRange DEF KernelTunnel, Stage
    <3>2. \/ next' = 1 /\ created' = created /\ cur' = cur
          \/ next' = 0 /\ created' = created \cup {t} /\ cur' = << >>
      BY <1>3 DEF KernelTunnel, TunnelDone
    <3> QED BY <3>1, <3>2
  <2>3. Stage' BY <2>1, <2>2, StageOfCreation DEF gatewayVars
  <2>4. \/ kernel' = kernel
        \/ /\ t \notin DOMAIN kernel
           /\ \E addr, route, from : kernel' = Enter(kernel, t, Interface("gre", addr, route, from))
    BY <1>3 DEF KernelTunnel, CanAdd
  <2>5. cur = t BY <2>1 DEF Creating
  <2>6. Interfaces'
    <3>1. CASE kernel' = kernel BY <2>1, <2>2, <2>5, <3>1 DEF Interfaces
    <3>2. CASE /\ t \notin DOMAIN kernel
               /\ \E addr, route, from : kernel' = Enter(kernel, t, Interface("gre", addr, route, from))
      <4>1. /\ DOMAIN kernel' = DOMAIN kernel \cup {t} /\ kernel'[t].kind = "gre"
            /\ \A i \in DOMAIN kernel : kernel'[i] = kernel[i]
        BY <3>2 DEF Enter, Interface
      <4> QED BY <2>1, <2>2, <2>5, <3>2, <4>1 DEF Interfaces
    <3> QED BY <2>4, <3>1, <3>2
  <2>7. Peers' BY <2>1 DEF Peers, IsList
  <2> QED BY <2>3, <2>6, <2>7
<1>4. CASE CreateEnds(t)
  <2>1. /\ Creating(t) /\ created' = created \cup {t} /\ cur' = << >> /\ next' = 0
        /\ UNCHANGED <<gatewayVars, kernel, devs, rpeer2dev, paths, allMade, fails>>
    BY <1>4 DEF CreateEnds, TunnelDone
  <2>2. Stage' BY <2>1, StageOfCreation DEF Stage, gatewayVars
  <2>3. Interfaces' /\ Peers' BY <2>1, TablesStay DEF Creating
  <2> QED BY <2>2, <2>3
<1>5. CASE AddBearerNoTransport(t)
  <2>1. /\ Creating(t) /\ next' = next + 1
        /\ UNCHANGED <<gatewayVars, created, cur, kernel, devs, rpeer2dev, paths, allMade>>
    BY <1>5 DEF AddBearerNoTransport, AtBearer
  <2>2. fails' \in 0 .. MaxFail BY <1>5, FailsInRange DEF AddBearerNoTransport, Stage
  <2>3. Stage' BY <2>1, <2>2, StageOfCreation DEF Stage, gatewayVars
  <2>4. Interfaces' /\ Peers' BY <2>1, TablesStay
  <2> QED BY <2>3, <2>4
<1>6. CASE AddBearerNoIf(t)
  <2>1. /\ Creating(t) /\ next' = next + 1 /\ made' = made /\ pc' \in {pc, "aborted"}
        /\ UNCHANGED <<created, cur, kernel, devs, rpeer2dev, paths, allMade>>
    BY <1>6 DEF AddBearerNoIf, AtBearer, DropPath
  <2>2. fails' \in 0 .. MaxFail BY <1>6, FailsInRange DEF AddBearerNoIf, Stage
  <2>3. Stage' BY <2>1, <2>2, StageOfCreation DEF Stage
  <2>4. Interfaces' /\ Peers' BY <2>1, TablesStay
  <2> QED BY <2>3, <2>4
<1>7. CASE AddBearerRefused(t)
  <2>1. /\ Creating(t) /\ next' = next + 1 /\ made' = made /\ pc' \in {pc, "aborted"}
        /\ kernel' = Enter(kernel, t, Device(t))
        /\ UNCHANGED <<created, cur, rpeer2dev, paths, allMade, fails>>
    BY <1>7 DEF AddBearerRefused, AtBearer, DropPath
  <2>2. Stage' BY <2>1, StageOfCreation DEF Stage
  <2>3. devs' = devs \cup {t} BY <1>7 DEF AddBearerRefused, addIf
  <2>4. Device(t).kind = "tun" BY DEF Device, Interfaces, Interface
  <2>5. /\ DOMAIN kernel' = DOMAIN kernel \cup {t} /\ kernel'[t] = Device(t)
        /\ \A i \in DOMAIN kernel : i # t => kernel'[i] = kernel[i]
    BY <2>1 DEF Enter
  <2>6. Interfaces' BY <2>1, <2>3, <2>4, <2>5 DEF Interfaces, Creating
  <2>7. Peers' BY <2>1, <2>3 DEF Peers, IsList
  <2> QED BY <2>2, <2>6, <2>7
<1>8. CASE AddBearer(t)
  <2>1. PICK a, x : /\ a = IpAddress(NextBearer(t).remote)
                    /\ x = [dev |-> t, n |-> next, bearer |-> NextBearer(t)]
    OBVIOUS
  <2>2. /\ Creating(t) /\ next' = next + 1
        /\ a \notin DOMAIN rpeer2dev /\ rpeer2dev' = Enter(rpeer2dev, a, t)
        /\ paths' = Append(paths, x)
        /\ UNCHANGED <<gatewayVars, created, cur, allMade>>
    BY <1>8, <2>1 DEF AddBearer, AtBearer
  <2>3. /\ fails' \in 0 .. MaxFail
        /\ \E addr, route, from : kernel' = Enter(kernel, t, Interface("tun", addr, route, from))
    BY <1>8, FailsInRange DEF AddBearer, Stage
  <2>4. Stage' BY <2>2, <2>3, StageOfCreation DEF Stage, gatewayVars
  <2>5. devs' = devs \cup {t} BY <1>8 DEF AddBearer, addIf
  <2>6. /\ DOMAIN kernel' = DOMAIN kernel \cup {t} /\ kernel'[t].kind = "tun"
        /\ \A i \in DOMAIN kernel : i # t => kernel'[i] = kernel[i]
    BY <2>3 DEF Enter, Interface
  <2>7. Interfaces' BY <2>2, <2>5, <2>6 DEF Interfaces, Creating
  <2>8. Peers'
    <3>1. a \in 0 .. NoAddress BY <2>1, AddressRange
    <3>2. DOMAIN rpeer2dev' = DOMAIN rpeer2dev \cup {a} /\ rpeer2dev'[a] = t
          /\ \A i \in DOMAIN rpeer2dev : rpeer2dev'[i] = rpeer2dev[i]
      BY <2>2 DEF Enter
    <3>3. /\ IsFiniteSet(DOMAIN rpeer2dev')
          /\ Cardinality(DOMAIN rpeer2dev') = Cardinality(DOMAIN rpeer2dev) + 1
      BY <2>2, <3>2, FS_AddElement DEF Peers
    <3>4. PICK p, q : p = paths /\ q = paths' OBVIOUS
    <3>5. IsList(q) /\ Len(q) = Len(p) + 1
      <4>1. IsList(p) BY <3>4 DEF Peers
      <4>2. q = Append(p, x) BY <2>2, <3>4
      <4> QED BY <4>1, <4>2, Lengthened
    <3>6. Len(paths') = Cardinality(DOMAIN rpeer2dev') BY <3>3, <3>4, <3>5 DEF Peers
    <3>7. \A i \in DOMAIN rpeer2dev' : i \in 0 .. NoAddress /\ rpeer2dev'[i] \in devs'
      BY <2>5, <3>1, <3>2 DEF Peers
    <3> QED BY <3>3, <3>4, <3>5, <3>6, <3>7 DEF Peers, IsList
  <2> QED BY <2>4, <2>7, <2>8
<1> QED BY <1>1, <1>2, <1>3, <1>4, <1>5, <1>6, <1>7, <1>8 DEF CreateTunnel

LEMMA TypesInit == StartInit => TInv
<1> SUFFICES ASSUME StartInit PROVE TInv OBVIOUS
<1>1. Stage BY SetupAssumption DEF StartInit, GatewayInit, SetupInit, Stage
<1>2. Interfaces BY SetupAssumption DEF StartInit, SetupInit, Interfaces
<1>3. Peers
  <2>1. IsFiniteSet({}) /\ Cardinality({}) = 0 BY FS_EmptySet
  <2>2. DOMAIN rpeer2dev = {} /\ paths = << >> BY DEF StartInit, SetupInit
  <2>3. Len(paths) = 0 /\ DOMAIN paths = 1 .. 0 /\ paths = [i \in 1 .. 0 |-> paths[i]] BY <2>2
  <2> QED BY <2>1, <2>2, <2>3 DEF Peers, IsList
<1> QED BY <1>1, <1>2, <1>3 DEF TInv

LEMMA TypesNext == TInv /\ [StartNext]_startVars => TInv'
<1> SUFFICES ASSUME TInv, [StartNext]_startVars PROVE TInv' OBVIOUS
<1> USE DEF TInv
<1>1. ASSUME UNCHANGED setupVars PROVE Interfaces' /\ Peers'
  <2>1. UNCHANGED <<created, cur, kernel, devs, rpeer2dev, paths>> BY <1>1 DEF setupVars
  <2> QED BY <2>1, TablesStay
<1>2. CASE UNCHANGED startVars
  <2>1. UNCHANGED <<pc, made, created, cur, next, allMade, fails, setupVars>>
    BY <1>2 DEF startVars, gatewayVars, setupVars
  <2>2. Stage' BY <2>1 DEF Stage
  <2> QED BY <1>1, <2>1, <2>2
<1>3. CASE GatewayNext /\ UNCHANGED setupVars
  <2>1. UNCHANGED <<created, cur, next, allMade, fails>> BY <1>3 DEF setupVars
  <2>2. CASE Configure
    <3>1. pc \in Early /\ pc' = "tunnels" BY <2>2 DEF Configure, Early
    <3>2. made' # << >>
      <4>1. PICK a, b, c : made' = [tunnels |-> a, range |-> b, server |-> c] BY <2>2 DEF Configure
      <4>2. "tunnels" \in DOMAIN made' BY <4>1
      <4> QED BY <4>2
    <3>3. created = {} /\ cur = << >> BY <3>1 DEF Stage
    <3>4. pc' \notin Early /\ created' = {} /\ cur' = << >> BY <2>1, <3>1, <3>3 DEF Early
    <3>5. Stage' BY <2>1, <3>2, <3>4 DEF Stage
    <3> QED BY <1>1, <1>3, <3>5
  <2>3. CASE ~Configure
    <3>1. made' = made BY <1>3, <2>3, BeforeAndAfter
    <3>2. \/ pc' \in Early \cup {"ended"} /\ pc \in Early
          \/ pc' \in {"bind", "listen", "serving", "unwinding"} /\ pc \in {"bind", "listen"}
      BY <1>3, <2>3, BeforeAndAfter
    <3>3. /\ pc' \in Early => pc \in Early
          /\ pc' # "tunnels" /\ pc \notin {"tunnels", "aborted"}
      BY <3>2 DEF Early
    <3>4. cur = << >> BY <3>3 DEF Stage
    <3>5. Stage' BY <2>1, <3>1, <3>3, <3>4 DEF Stage
    <3> QED BY <1>1, <1>3, <3>5
  <2> QED BY <2>2, <2>3
<1>4. CASE pc = "tunnels" /\ \E t \in DOMAIN made.tunnels : CreateTunnel(t) BY <1>4, TypesCreateTunnel
<1>5. CASE TunnelsDone
  <2>1. /\ pc = "tunnels" /\ created = DOMAIN made.tunnels /\ pc' \in {"unwinding", "bind"}
        /\ UNCHANGED <<made, created, cur, next, allMade, fails, setupVars>>
    BY <1>5 DEF TunnelsDone, setupVars
  <2>2. cur = << >> /\ pc' \notin Early /\ pc' # "tunnels" BY <2>1 DEF Stage, Early
  <2>3. Stage' BY <2>1, <2>2 DEF Stage
  <2> QED BY <1>1, <2>1, <2>3
<1>6. CASE Unwind
  <2>1. /\ pc = "unwinding" /\ pc' = "ended"
        /\ UNCHANGED <<made, created, cur, next, allMade, fails, setupVars>>
    BY <1>6 DEF Unwind, setupVars
  <2>2. cur = << >> /\ pc' \notin Early /\ pc' # "tunnels" BY <2>1 DEF Stage, Early
  <2>3. Stage' BY <2>1, <2>2 DEF Stage
  <2> QED BY <1>1, <2>1, <2>3
<1> QED BY <1>2, <1>3, <1>4, <1>5, <1>6 DEF StartNext

\* In every start, whatever the configuration and whatever fails: the devices
\* that are open are tun interfaces of the kernel and all others GRE, what is
\* created is what is configured, and addBearer's table of addresses has one
\* open device for every path (TunnelMgr.cc, VirtualIfMgr.cc).
THEOREM SetupTypeCorrect == StartSpec => []SetupTypeOK
<1>1. TInv => SetupTypeOK BY DEF TInv, Stage, Interfaces, Peers, SetupTypeOK
<1>2. StartInit => TInv BY TypesInit
<1>3. TInv /\ [StartNext]_startVars => TInv' BY TypesNext
<1> QED BY <1>1, <1>2, <1>3, PTL DEF StartSpec
=============================================================================
