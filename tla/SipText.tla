------------------------------ MODULE SipText ------------------------------
(***************************************************************************)
(* A SIP message on a connection: an agent sends a request, SipSocket.cc   *)
(* reads it a character at a time, SipHeaderParser.cc and                  *)
(* SipParsedMessage.cc take its lines apart, and the agent reads the       *)
(* server's answer, SipResponse.cc, in the same way.                       *)
(*                                                                         *)
(* A request is a sequence of lines: the text of a line without its end,   *)
(* the name of the header, what a reader takes it to say, and whether it   *)
(* is plain, which the properties ask for.  A header's kvm maps keys to    *)
(* values; the description of a response is left out of it.                *)
(***************************************************************************)
EXTENDS TextTokenizer

CONSTANTS
  Requests,  \* sequences of lines
  KeyOrder   \* the words that are keys, in the order of std::map

VARIABLES
  lines,     \* the request
  text,      \* what has been written to the connection
  pos,       \* how much of it has been read
  s,         \* s, the state of crlf
  line,      \* line
  msg,       \* the message being read
  request,   \* the server's message
  phase      \* "request", "answer", "done", "closed"

sipVars == <<lines, text, pos, s, line, msg, request, phase>>

Crlf == <<"\r", "\n">>

-----------------------------------------------------------------------------
(***************************************************************************)
(* SipHeaderParser.  The parsers look at every token with the blanks       *)
(* before it removed, and so at t, which has none.                         *)
(***************************************************************************)
Is(t, i, c) == i \in DOMAIN t /\ t[i] = Op(c)
IsWord(t, i, S) == i \in DOMAIN t /\ t[i].type = "IDENTIFIER" /\ \E w \in S : t[i].val = <<w>>
IsTwo(t, i) == i \in DOMAIN t /\ t[i] = Tok("REAL", <<"2", ".", "0">>)
Sip == {"sip", "sips"}

NoKeys == [k \in {} |-> << >>]
Header(name, kvm) == [ok |-> TRUE, name |-> name, type |-> "OTHERS", code |-> 0, kvm |-> kvm]
Bad == [Header(<< >>, NoKeys) EXCEPT !.ok = FALSE]

\* "; key = value", repeated up to the end or the word eof; the last may lack
\* its value or all.  at is where it ends.
parseKVList(t, i, eof) ==
  LET f[j \in i .. Len(t) + 4] ==
        IF j > Len(t) THEN [ok |-> TRUE, at |-> j, kvm |-> NoKeys]
        ELSE IF t[j].val = eof THEN [ok |-> TRUE, at |-> j, kvm |-> NoKeys]
        ELSE IF ~Is(t, j, ";") THEN [ok |-> FALSE, at |-> j, kvm |-> NoKeys]
        ELSE IF j >= Len(t) - 1
             THEN [ok |-> TRUE, at |-> Len(t) + 1,
                   kvm |-> (IF j = Len(t) THEN << >> ELSE t[j + 1].val) :> << >>]
        ELSE IF Is(t, j + 2, "=") /\ j + 3 <= Len(t)
             THEN [f[j + 4] EXCEPT !.kvm = (t[j + 1].val :> t[j + 3].val) @@ @]
        ELSE [ok |-> FALSE, at |-> j, kvm |-> NoKeys]
  IN f[i]

\* "REGISTER sip:host:port;key=value SIP/2.0"
parseRegisterInvite(t) ==
  LET i == IF Is(t, 5, ":") THEN 7 ELSE 5
      kv == parseKVList(t, i, <<"sip">>)
      proto == IF IsWord(t, i, Sip) THEN i ELSE i + 1
      at == (<<"host">> :> t[4].val) @@ (IF i = 7 THEN <<"port">> :> t[6].val ELSE NoKeys)
      made == [Header(t[1].val, at) EXCEPT !.type = "METHOD"]
  IN IF ~(IsWord(t, 2, Sip) /\ Is(t, 3, ":") /\ i <= Len(t)) THEN Bad
     ELSE IF Is(t, i, ";")
          THEN IF kv.ok /\ (kv.at <= Len(t) => Is(t, kv.at + 1, "/") /\ IsTwo(t, kv.at + 2))
               THEN [made EXCEPT !.kvm = @ @@ kv.kvm] ELSE Bad
     ELSE IF IsWord(t, proto, Sip) /\ Is(t, proto + 1, "/") /\ IsTwo(t, proto + 2)
          THEN made ELSE Bad

\* "CSeq: 1 REGISTER"
parseCSeq(t) ==
  IF Is(t, 2, ":") /\ Len(t) >= 4 THEN Header(t[1].val, t[4].val :> t[3].val) ELSE Bad

\* "Via: SIP/2.0/UDP host:port;key=value"; without a port the token after the
\* host is skipped as if it were one.
parseVia(t) ==
  LET port == Is(t, 9, ":")
      kv == parseKVList(t, IF port THEN 11 ELSE 10, <<"\n">>)
  IN IF /\ Is(t, 2, ":") /\ IsWord(t, 3, Sip) /\ Is(t, 4, "/") /\ IsTwo(t, 5) /\ Is(t, 6, "/")
        /\ Len(t) >= 9 /\ (port => Len(t) >= 10 /\ t[10].type = "INTEGRAL") /\ kv.ok
     THEN Header(<<"via">>, (<<"protcol">> :> t[7].val) @@ (<<"host">> :> t[8].val)
                            @@ (IF port THEN <<"port">> :> t[10].val ELSE NoKeys) @@ kv.kvm)
     ELSE Bad

\* "Authorization: Digest key=value,key=value"
parseAuth(t) ==
  LET group(i) == i + 2 <= Len(t) /\ t[i].type = "IDENTIFIER" /\ Is(t, i + 1, "=")
      last == (Len(t) - 4) \div 4
  IN IF /\ Is(t, 2, ":") /\ IsWord(t, 3, {"digest"}) /\ Len(t) % 4 = 2 /\ Len(t) > 3
        /\ \A n \in 0 .. last : group(4 + 4 * n) /\ (n < last => Is(t, 7 + 4 * n, ","))
     THEN Header(<<"authorization">>,
                 [k \in {t[4 + 4 * n].val : n \in 0 .. last} |->
                    t[6 + 4 * Min({n \in 0 .. last : t[4 + 4 * n].val = k})].val])
     ELSE Bad

\* "Contact: name <sip:user@host:port;key=value>;key=value"
parseFromTo(t) ==
  LET named == 3 \in DOMAIN t /\ t[3].type # "OPERATOR"
      i == IF named THEN 4 ELSE 3                      \* "<"
      port == Is(t, i + 4, ":")
      j == IF port THEN i + 6 ELSE i + 4
      inner == IF Is(t, j, ";") THEN parseKVList(t, j, <<">">>)
               ELSE [ok |-> TRUE, at |-> j, kvm |-> NoKeys]
      outer == parseKVList(t, inner.at + 1, <<"\n">>)
  IN IF /\ Is(t, 2, ":") /\ Is(t, i, "<") /\ IsWord(t, i + 1, Sip) /\ Is(t, i + 2, ":")
        /\ j <= Len(t) /\ inner.ok /\ Is(t, inner.at, ">") /\ outer.ok
     THEN Header(t[1].val, (IF named THEN <<"description">> :> t[3].val ELSE NoKeys)
                           @@ (t[i + 1].val :> t[i + 3].val)
                           @@ (IF port THEN <<"port">> :> t[i + 5].val ELSE NoKeys)
                           @@ inner.kvm @@ outer.kvm)
     ELSE Bad

\* "Allow: INVITE, ACK"
parseCommaSepList(t) ==
  IF Is(t, 2, ":") /\ \A i \in 3 .. Len(t) : i % 2 = 0 => Is(t, i, ",")
  THEN Header(t[1].val, [k \in {t[i].val : i \in {i \in 3 .. Len(t) : i % 2 = 1}} |-> << >>])
  ELSE Bad

\* "SIP/2.0 200 OK"
parseResponseHeader(t) ==
  IF Is(t, 2, "/") /\ IsTwo(t, 3) /\ Len(t) >= 4
  THEN [Header(t[1].val, t[4].val :> << >>) EXCEPT
          !.type = "RESPONSE",
          !.code = IF stoi(t[4].val) = {} THEN 0 ELSE CHOOSE n \in stoi(t[4].val) : TRUE]
  ELSE Bad

\* Any other header: its value, blanks within it included, is the only key.
parseGenAttr(t, toks) ==
  LET solid == {i \in DOMAIN toks : toks[i].type \notin {"BLANK", "NEWLINE"}}
      colon == Min(solid \ {Min(solid)})
      kept == {i \in solid : i > colon}
      value == SelectSeq(SubSeq(toks, Min(kept), Len(toks)),
                         LAMBDA k : k.type # "NEWLINE" /\ k # Tok("BLANK", <<"\r">>))
  IN IF ~Is(t, 2, ":") THEN Bad
     ELSE Header(t[1].val,
                 (IF kept = {} THEN << >> ELSE FlattenSeq([i \in DOMAIN value |-> value[i].val]))
                   :> << >>)

parseItem(toks, t) ==
  LET id == IF t = << >> THEN << >> ELSE t[1].val
  IN CASE t = << >> -> Header(<< >>, NoKeys)
       [] id \in {<<"register">>, <<"invite">>} -> parseRegisterInvite(t)
       [] id = <<"cseq">> -> parseCSeq(t)
       [] id = <<"via">> -> parseVia(t)
       [] id \in {<<"authorization">>, <<"www-authenticate">>} -> parseAuth(t)
       [] id \in {<<"from">>, <<"to">>, <<"contact">>} -> parseFromTo(t)
       [] id \in {<<"allow">>, <<"supported">>} -> parseCommaSepList(t)
       [] id \in {<<"sip">>, <<"sips">>} -> parseResponseHeader(t)
       [] OTHER -> parseGenAttr(t, toks)

parse(text1) ==
  LET toks == getTokenList(SipTnkzr, text1)
  IN parseItem(toks, SelectSeq(toks, LAMBDA k : k.type \notin {"BLANK", "NEWLINE"}))

-----------------------------------------------------------------------------
(***************************************************************************)
(* SipParsedMessage, and what SipServerTask reads from one.                *)
(***************************************************************************)
NoMessage == [list |-> << >>, map |-> << >>, code |-> 0, method |-> << >>]

\* Mutant: a header of any type gives the method its name.
methodOfAny(m, h) == h.name

methodOf(m, h) == IF h.type = "METHOD" THEN h.name ELSE m.method

\* Of two headers with one name the map keeps the first, the list the last.
addHeader(m, text1, h) ==
  LET known == {i \in DOMAIN m.list : m.list[i].name = h.name}
      entry == [name |-> h.name, text |-> text1]
  IN IF ~h.ok THEN m
     ELSE [list |-> IF known = {} THEN Append(m.list, entry)
                    ELSE [m.list EXCEPT ![Min(known)] = entry],
           map |-> [n \in DOMAIN m.map \cup {h.name} |-> IF n \in DOMAIN m.map THEN m.map[n] ELSE h],
           code |-> IF h.type = "RESPONSE" THEN h.code ELSE m.code,
           method |-> methodOf(m, h)]

parseHeader(m, text1) == addHeader(m, text1, parse(text1))

Rank(key) == IF key = << >> THEN 0 ELSE CHOOSE i \in DOMAIN KeyOrder : KeyOrder[i] = Head(key)

\* The value of the least key, or the key itself.
getHeader(m, name) ==
  LET kvm == IF name \in DOMAIN m.map THEN m.map[name].kvm ELSE NoKeys
      least == CHOOSE k \in DOMAIN kvm : \A l \in DOMAIN kvm \ {k} : Rank(k) < Rank(l)
  IN IF kvm = NoKeys THEN << >> ELSE IF kvm[least] = << >> THEN least ELSE kvm[least]

getCommandLine(m, name) ==
  IF name \in DOMAIN m.map /\ <<"host">> \in DOMAIN m.map[name].kvm
  THEN m.map[name].kvm[<<"host">>] ELSE << >>

isAllowed(m, name) ==
  <<"allow">> \in DOMAIN m.map /\ name \in DOMAIN m.map[<<"allow">>].kvm

-----------------------------------------------------------------------------
StatusLine(code) ==
  <<"sip", "/", "2", ".", "0", " ">> \o code \o <<" ", "reason">> \o Crlf

\* Mutant: the request's first line is sent back too.
SipResponseAll(m, code) ==
  StatusLine(code) \o FlattenSeq([i \in DOMAIN m.list |-> m.list[i].text]) \o Crlf

\* The request's lines but the first follow the status line.  Without any
\* there is no blank line either.
SipResponse(m, code) ==
  StatusLine(code) \o
    IF Len(m.list) <= 1 THEN << >>
    ELSE FlattenSeq([i \in 1 .. Len(m.list) - 1 |-> m.list[i + 1].text]) \o Crlf

crlf(state, c) ==
  CASE state = "IDLE" /\ c = "\r" -> "CR1"
    [] state = "CR1" /\ c = "\n" -> "LF1"
    [] state = "LF1" /\ c = "\r" -> "CR2"
    [] state = "CR2" /\ c = "\n" -> "LF2"
    [] OTHER -> "IDLE"

(***************************************************************************)
(* The requests.  A line has no end of line within it, nor the first half  *)
(* of one last.  A line read without an error is a header of the name      *)
(* given with it, and only the first begins with what begins a first line. *)
(* In a plain request every line, read alone, says what it is said to say. *)
(***************************************************************************)
RequestLine == [text : Seq(STRING), name : Seq(STRING), says : Seq(STRING), plain : BOOLEAN]
FirstWords == {<<"register">>, <<"invite">>, <<"sip">>, <<"sips">>}

AllPlain(r) == /\ r # << >> /\ \A i \in DOMAIN r : r[i].plain
               /\ \A i, j \in DOMAIN r : r[i].name = r[j].name => i = j

\* In message m, line l says what it is said to say, as the first or another.
Tells(m, l, first) ==
  IF first THEN getCommandLine(m, l.name) = l.says
  ELSE IF l.name = <<"allow">>
  THEN \A w \in {"invite", "ack"} : isAllowed(m, <<w>>) <=> w \in ToSet(l.says)
  ELSE getHeader(m, l.name) = l.says

ASSUME RequestsAssumption ==
  \A r \in Requests :
    /\ r \in Seq(RequestLine) \ {<< >>}
    /\ \A i \in DOMAIN r :
         LET whole == r[i].text \o Crlf
             h == parse(whole)
         IN /\ r[i].text # << >> /\ Last(r[i].text) # "\r"
            /\ \A j \in DOMAIN r[i].text : r[i].text[j] # "\n"
            /\ h.ok => h.name = r[i].name
            /\ i > 1 => r[i].name \notin FirstWords
            /\ AllPlain(r) => /\ h.ok /\ (i = 1 <=> h.type = "METHOD")
                              /\ Tells(parseHeader(NoMessage, whole), r[i], i = 1)

\* What the parser makes of the first line of an answer.
ASSUME StatusAssumption ==
  LET h == parse(StatusLine(<<"2", "0", "0">>))
  IN h.ok /\ h.name = <<"sip">> /\ h.type = "RESPONSE" /\ h.code = 200

SipInit ==
  /\ lines \in Requests
  /\ text = FlattenSeq([i \in DOMAIN lines |-> lines[i].text \o Crlf]) \o Crlf
  /\ pos = 0 /\ s = "IDLE" /\ line = << >>
  /\ msg = NoMessage /\ request = NoMessage
  /\ phase = "request"

\* Mutant: the line is not cleared, and the next one is added to it.
RecvKeeps ==
  /\ phase \in {"request", "answer"} /\ pos < Len(text)
  /\ LET c == text[pos + 1] IN
     /\ pos' = pos + 1
     /\ s' = crlf(s, c)
     /\ s' # "LF2"
     /\ line' = Append(line, c)
     /\ msg' = IF s' = "LF1" THEN parseHeader(msg, Append(line, c)) ELSE msg
  /\ UNCHANGED <<lines, text, request, phase>>

\* SipSocket::recv: a character that does not end the message.
Recv ==
  /\ phase \in {"request", "answer"} /\ pos < Len(text)
  /\ LET c == text[pos + 1] IN
     /\ pos' = pos + 1
     /\ s' = crlf(s, c)
     /\ s' # "LF2"
     /\ line' = IF s' = "LF1" THEN << >> ELSE Append(line, c)
     /\ msg' = IF s' = "LF1" THEN parseHeader(msg, Append(line, c)) ELSE msg
  /\ UNCHANGED <<lines, text, request, phase>>

\* The blank line: the server answers, and the agent begins to read.
Answer ==
  /\ phase = "request" /\ pos < Len(text)
  /\ crlf(s, text[pos + 1]) = "LF2"
  /\ request' = msg
  /\ text' = SipResponse(msg, <<"2", "0", "0">>)
  /\ pos' = 0 /\ s' = "IDLE" /\ line' = << >> /\ msg' = NoMessage
  /\ phase' = "answer"
  /\ UNCHANGED lines

AnswerRead ==
  /\ phase = "answer" /\ pos < Len(text)
  /\ crlf(s, text[pos + 1]) = "LF2"
  /\ pos' = pos + 1 /\ s' = "LF2"
  /\ phase' = "done"
  /\ UNCHANGED <<lines, text, line, msg, request>>

\* No blank line comes: recv gives up after its time.
TimesOut ==
  /\ phase \in {"request", "answer"} /\ pos = Len(text)
  /\ phase' = "closed"
  /\ UNCHANGED <<lines, text, pos, s, line, msg, request>>

SipNext == Recv \/ Answer \/ AnswerRead \/ TimesOut
SipSpec == SipInit /\ [][SipNext]_sipVars

-----------------------------------------------------------------------------
\* The list and the map of a message are of the same headers, each there once.
HeadersAgree ==
  \A m \in {msg, request} : /\ {m.list[i].name : i \in DOMAIN m.list} = DOMAIN m.map
                            /\ Len(m.list) = Cardinality(DOMAIN m.map)

SipTypeOK ==
  /\ s \in {"IDLE", "CR1", "LF1", "CR2", "LF2"}
  /\ phase \in {"request", "answer", "done", "closed"}
  /\ pos \in 0 .. Len(text)
  /\ \A m \in {msg, request} : m.code \in Int
  /\ HeadersAgree

PlainRequest == AllPlain(lines)

(***************************************************************************)
(* While a plain request is read, the headers so far are its first lines,  *)
(* whole and in order, and the line in progress is a beginning of the next;*)
(* the request is taken for complete at its blank line and not before.     *)
(***************************************************************************)
LineByLine ==
  PlainRequest =>
    LET whole(i) == lines[i].text \o Crlf
        n == Len(msg.list)
    IN IF phase = "request"
       THEN /\ \A i \in 1 .. n : msg.list[i].text = whole(i)
            /\ n < Len(lines) => IsPrefix(line, whole(n + 1))
            /\ n = Len(lines) => IsPrefix(line, Crlf)
       ELSE phase # "closed" \/ Len(lines) <= 1

(***************************************************************************)
(* What the server takes from a plain request is what its lines say: the   *)
(* method, of each header the name a reader sees in it, and of Allow the   *)
(* methods it lists, which tell a server agent from a user agent.          *)
(***************************************************************************)
RequestRead ==
  PlainRequest /\ phase # "request" =>
    /\ request.method = lines[1].name
    /\ \A i \in DOMAIN lines : Tells(request, lines[i], i = 1)

(***************************************************************************)
(* An answer to a request with headers comes back whole: the agent reads   *)
(* the code and the same headers, with the same values.  It does not hold  *)
(* for a request that repeats a header, where map and list differ, nor for *)
(* one of a single line, whose answer has no blank line and times out.     *)
(***************************************************************************)
EchoFaithful ==
  /\ phase = "closed" => Len(request.list) <= 1
  /\ phase = "done" /\ (\A i, j \in DOMAIN lines : lines[i].name = lines[j].name => i = j) =>
       /\ msg.code = 200
       /\ [i \in 2 .. Len(msg.list) |-> msg.list[i]] =
            [i \in 2 .. Len(request.list) |-> request.list[i]]
       /\ \A i \in 2 .. Len(request.list) :
            LET name == request.list[i].name IN msg.map[name] = request.map[name]
=============================================================================
