--------------------------- MODULE GatewayConfig ---------------------------
(***************************************************************************)
(* How a gateway starts: main.cc takes the options, ConfigParser.cc reads  *)
(* the configuration file and Config.cc resolves its references, and       *)
(* LogicalIpAddrMgr.cc, TunnelBuilder.cc and SipServer.cc take from it     *)
(* what they need.  When the tunnels are created (TunnelSetup), the SIP    *)
(* server is bound to its port and listens.                                *)
(*                                                                         *)
(* The file is a sequence of lines, records of their text and what they    *)
(* say.  kind: "section" (name), "plain" (name = val.text, the list         *)
(* val.words), "ref" (name = $ns.var, ns may be << >>), "env" (name =      *)
(* $_env.var), "note", or "other", of which the properties say nothing.    *)
(* Numbers have at most nine digits.                                       *)
(***************************************************************************)
EXTENDS TextTokenizer

CONSTANTS
  Starts,          \* [doc: sequence of lines, args: sequence of words, root: BOOLEAN]
  Env,             \* environment variables: a function from names to values
  BindMaxAttempts  \* bindMaxAttempts

\* A line of a file, as above.
FileLine == [kind : {"section", "plain", "ref", "env", "note", "other"},
             text : Seq(STRING), name : Seq(STRING), ns : Seq(STRING), var : Seq(STRING),
             val : [text : Seq(STRING), words : Seq(Seq(STRING))]]

ASSUME ConfigAssumption ==
  /\ BindMaxAttempts \in Nat
  /\ \A st \in Starts :
       st.doc \in Seq(FileLine) /\ st.args \in Seq(Seq(STRING)) /\ st.root \in BOOLEAN
  /\ \A v \in DOMAIN Env : Env[v] \in Seq(STRING)

VARIABLES
  doc, args, root,  \* the file, the command line, and whether getuid() is 0
  pc,               \* position of main
  opts,             \* ProgArgs' members
  tl,               \* the file's tokens that are left
  namespace,        \* _namespace
  rows,             \* _rowData, in order
  data,             \* _data: a function from <<name space, name>> to values
  made,             \* what is built from data: the ranges, tunnels and server
  attempts          \* bindMaxAttempts

inputs == <<doc, args, root>>
read == <<tl, namespace, rows, data>>
gatewayVars == <<inputs, read, pc, opts, made, attempts>>

Text(d) == FlattenSeq([i \in DOMAIN d |-> d[i].text])
CfgFile == <<"acsgw.cfg">>

-----------------------------------------------------------------------------
(***************************************************************************)
(* ProgArgs.                                                               *)
(***************************************************************************)
NoOptions == [state |-> "OPTION", cfg |-> CfgFile, port |-> 0, show |-> FALSE, error |-> FALSE]

Is1(w, S) == \E o \in S : w = <<o>>

Option(o, w) ==
  CASE Is1(w, {"--port", "-p"}) -> [o EXCEPT !.state = "PORT"]
    [] Is1(w, {"--config", "-c"}) -> [o EXCEPT !.state = "CFG"]
    [] Is1(w, {"--help", "-h", "--version", "-v"}) -> [o EXCEPT !.show = TRUE]
    [] Is1(w, {"--logstdout", "-vv"}) -> o
    [] OTHER -> [o EXCEPT !.error = TRUE]

\* Mutant: the port keeps all its bits.
ArgumentWhole(o, w) ==
  IF o.state = "PORT" /\ stoi(w) # {} /\ ~o.error
  THEN [o EXCEPT !.state = "OPTION", !.port = CHOOSE n \in stoi(w) : TRUE]
  ELSE IF o.state = "OPTION" /\ ~o.error THEN Option(o, w) ELSE o

\* The port is cut to 16 bits.
Argument(o, w) ==
  CASE o.error -> o
    [] ~o.error /\ o.state = "OPTION" -> Option(o, w)
    [] ~o.error /\ o.state = "CFG" -> [o EXCEPT !.state = "OPTION", !.cfg = w]
    [] OTHER -> [o EXCEPT !.state = "OPTION", !.error = stoi(w) = {},
                          !.port = IF stoi(w) = {} THEN @
                                   ELSE (CHOOSE n \in stoi(w) : TRUE) % 2^16]

ProgArgs(ws) == FoldLeft(Argument, NoOptions, ws)

-----------------------------------------------------------------------------
(***************************************************************************)
(* ConfigParser.                                                           *)
(***************************************************************************)
Blanks == {"BLANK", "LINE_COMMENT"}

removeBlanks(toks, types) ==
  LET keep == {i \in DOMAIN toks : toks[i].type \notin types}
  IN IF keep = {} THEN << >>
     ELSE SubSeq(toks, Min(keep), Max({i \in DOMAIN toks : toks[i].type # "BLANK"}))

GatewayInit ==
  /\ \E s \in Starts : doc = s.doc /\ args = s.args /\ root = s.root
  /\ pc = "start" /\ opts = NoOptions
  /\ \E toks \in {getTokenList(ConfigTnkzr, Text(doc))} : tl = removeBlanks(toks, Blanks)
  /\ namespace = <<"global">>
  /\ rows = << >> /\ data = << >>
  /\ made = << >> /\ attempts = BindMaxAttempts

\* Options that are wrong or ask for help, a file that cannot be opened, and
\* one without tokens end the program.
Start ==
  /\ pc = "start"
  /\ opts' = ProgArgs(args)
  /\ pc' = IF opts'.error \/ opts'.show \/ opts'.cfg # CfgFile \/ tl = << >>
            THEN "ended" ELSE "build"
  /\ UNCHANGED <<inputs, read, made, attempts>>

SkipToken ==
  /\ pc = "build" /\ tl # << >> /\ Head(tl).type \in Blanks \cup {"NEWLINE"}
  /\ tl' = Tail(tl)
  /\ UNCHANGED <<inputs, pc, opts, namespace, rows, data, made, attempts>>

\* What follows the first token of the list.
After(toks) == removeBlanks(Tail(toks), Blanks)
HeadIs(toks, t) == toks # << >> /\ Head(toks) = t
HeadIsName(toks) == toks # << >> /\ Head(toks).type = "IDENTIFIER"

\* "[]" selects the name space "", not "global", which is selected at first.
NoSection(toks) ==
  /\ HeadIs(toks, Op("[")) /\ HeadIs(After(toks), Op("]"))
  /\ removeBlanks(Tail(After(toks)), Blanks \cup {"NEWLINE"}) # << >>
IsSection(toks) ==
  /\ HeadIs(toks, Op("[")) /\ HeadIsName(After(toks)) /\ HeadIs(After(After(toks)), Op("]"))

SelectNameSpace ==
  /\ pc = "build"
  /\ \/ /\ NoSection(tl)
        /\ tl' = removeBlanks(Tail(After(tl)), Blanks \cup {"NEWLINE"})
        /\ namespace' = << >>
     \/ /\ IsSection(tl)
        /\ tl' = After(After(After(tl)))
        /\ namespace' = Head(After(tl)).val
  /\ UNCHANGED <<inputs, pc, opts, rows, data, made, attempts>>

\* The value is any token but an operator, also the end of the line.
Value(toks) == After(After(toks))
IsAssignment(toks) ==
  /\ HeadIsName(toks) /\ HeadIs(After(toks), Op("="))
  /\ Value(toks) # << >> /\ Head(Value(toks)).type # "OPERATOR"

\* An entry of a map, new or not.
Enter(f, at, v) == [k \in DOMAIN f \cup {at} |-> IF k = at THEN v ELSE f[k]]

\* Config::add.
add(name, v) ==
  /\ rows' = Append(rows, [ns |-> namespace, name |-> name, value |-> v])
  /\ data' = Enter(data, <<namespace, name>>, v)

\* Mutant: the first of two assignments counts.
AddFirst ==
  /\ pc = "build" /\ IsAssignment(tl)
  /\ LET v == Head(Value(tl)).val
         at == <<namespace, Head(tl).val>>
     IN /\ rows' = Append(rows, [ns |-> namespace, name |-> Head(tl).val,
                                value |-> IF at \in DOMAIN data THEN data[at] ELSE v])
        /\ data' = data @@ (at :> v)
  /\ tl' = removeBlanks(Tail(Value(tl)), Blanks \cup {"NEWLINE"})
  /\ UNCHANGED <<inputs, pc, opts, namespace, made, attempts>>

Add ==
  /\ pc = "build" /\ IsAssignment(tl)
  /\ add(Head(tl).val, Head(Value(tl)).val)
  /\ tl' = removeBlanks(Tail(Value(tl)), Blanks \cup {"NEWLINE"})
  /\ UNCHANGED <<inputs, pc, opts, namespace, made, attempts>>

\* An exception ends the program.
SyntaxError ==
  /\ pc = "build" /\ tl # << >> /\ Head(tl).type \notin Blanks \cup {"NEWLINE"}
  /\ ~NoSection(tl) /\ ~IsSection(tl) /\ ~IsAssignment(tl)
  /\ pc' = "syntax error"
  /\ UNCHANGED <<inputs, read, opts, made, attempts>>

Built ==
  /\ pc = "build" /\ tl = << >>
  /\ pc' = "compile"
  /\ UNCHANGED <<inputs, read, opts, made, attempts>>

-----------------------------------------------------------------------------
(***************************************************************************)
(* Config::compile, a row at a time.                                       *)
(***************************************************************************)
IsReference(toks) ==
  /\ Len(toks) \in {2, 4} /\ Head(toks) = Op("$")
  /\ Len(toks) = 4 => toks[3] = Op(".")

\* A name that the name space lacks is entered with an empty value; a name
\* space or a variable of the environment that is missing changes nothing.
Compiled(row, d) ==
  LET toks == getTokenList(ValueTnkzr, row.value)
      at == <<row.ns, row.name>>
      ns == IF Len(toks) = 2 THEN row.ns ELSE toks[2].val
      var == Last(toks).val
  IN IF ~IsReference(toks) THEN Enter(d, at, row.value)
     ELSE IF ns = <<"_env">>
          THEN IF var \in DOMAIN Env THEN Enter(d, at, Env[var]) ELSE d
     ELSE IF \A p \in DOMAIN d : p[1] # ns THEN d
     ELSE LET entered == IF <<ns, var>> \in DOMAIN d THEN d ELSE Enter(d, <<ns, var>>, << >>)
          IN Enter(entered, at, entered[<<ns, var>>])

CompileRow ==
  /\ pc = "compile" /\ rows # << >>
  /\ data' = Compiled(Head(rows), data)
  /\ rows' = Tail(rows)
  /\ UNCHANGED <<inputs, pc, opts, tl, namespace, made, attempts>>

CompileEnds ==
  /\ pc = "compile" /\ rows = << >>
  /\ pc' = "configure"
  /\ UNCHANGED <<inputs, read, opts, made, attempts>>

-----------------------------------------------------------------------------
(***************************************************************************)
(* What the parts take from the configuration.                             *)
(***************************************************************************)
Get(d, ns, name, default) == IF <<ns, name>> \in DOMAIN d THEN d[<<ns, name>>] ELSE default

\* getNum, with 1 .. 65535.
getNum(d, ns, name, default) ==
  LET n == stoi(Get(d, ns, name, << >>)) \cap 1 .. 65535
  IN IF n = {} THEN default ELSE CHOOSE k \in n : TRUE

\* The words of a list, without its numbers.
Identifiers(toks) ==
  LET words[i \in 0 .. Len(toks)] ==
        IF i = 0 THEN << >>
        ELSE IF toks[i].type = "IDENTIFIER" THEN Append(words[i - 1], toks[i].val) ELSE words[i - 1]
  IN words[Len(toks)]

getAttrList(d, ns, name) == Identifiers(getTokenList(ListTnkzr, Get(d, ns, name, << >>)))

getAttr(d, ns, name) ==
  LET list == getAttrList(d, ns, name) IN IF list = << >> THEN << >> ELSE Head(list)

Protocol(type) == IF type \in {<<"tcp">>, <<"udp">>} THEN type ELSE <<"gre">>

\* Mutant: the bearer's own type is not looked at.
BearerOfTunnel(d, b, type, port) ==
  [local |-> getAttr(d, b, <<"local_address">>), remote |-> getAttr(d, b, <<"remote_address">>),
   protocol |-> Protocol(type), port |-> port]

Bearer(d, b, type, port) ==
  LET own == getAttr(d, b, <<"type">>) IN
  [local |-> getAttr(d, b, <<"local_address">>), remote |-> getAttr(d, b, <<"remote_address">>),
   protocol |-> Protocol(IF own = << >> THEN type ELSE own), port |-> port]

\* A tunnel that is listed n times gets its bearers n times.
parseCfg(d) ==
  LET list == getAttrList(d, <<"tunnels">>, <<"list">>)
      type(t) == LET own == getAttr(d, t, <<"type">>) IN IF own = << >> THEN <<"gre">> ELSE own
      port(t) == getNum(d, t, <<"port">>, 28774)
      bearers(t) == LET names == getAttrList(d, t, <<"bearers">>)
                    IN [i \in DOMAIN names |-> Bearer(d, names[i], type(t), port(t))]
  IN [t \in ToSet(list) |->
        [local |-> getAttr(d, t, <<"local_address">>),
         remote |-> getAttr(d, t, <<"remote_address">>), type |-> type(t),
         bearers |-> FlattenSeq([i \in 1 .. Cardinality({j \in DOMAIN list : list[j] = t}) |->
                                   bearers(t)])]]

\* The lines of [dns] but hosts are the hosts file's first content.
SipServer(d) ==
  LET sip == <<"sip">> dns == <<"dns">>
      server == Get(d, sip, <<"remote_address">>, << >>)
      port == getNum(d, sip, <<"remote_port">>, 0)
  IN [bindPort |-> getNum(d, sip, <<"local_port">>, 15060),
      bindAddress |-> Get(d, sip, <<"local_address">>, << >>),
      proxy |-> IF port > 0 /\ server # << >> THEN <<server, port>> ELSE << >>,
      hostsFile |-> Get(d, dns, <<"hosts">>, << >>),
      hosts |-> {d[k] : k \in {k \in DOMAIN d : k[1] = dns /\ k[2] # <<"hosts">>}}]

LogicalRange(d) ==
  LET ns == <<"logical_address_range">> IN
  [first |-> Get(d, ns, <<"first_ip">>, << >>), last |-> Get(d, ns, <<"last_ip">>, << >>),
   ttl |-> stoi(Get(d, ns, <<"ttl">>, << >>))]

setLocalPort(server, port) == IF port > 0 THEN [server EXCEPT !.bindPort = port] ELSE server

\* The tunnels are then created (TunnelSetup), before the server is made.
Configure ==
  /\ pc = "configure"
  /\ pc' = "tunnels"
  /\ made' = [tunnels |-> parseCfg(data), range |-> LogicalRange(data),
              server |-> setLocalPort(SipServer(data), opts.port)]
  /\ UNCHANGED <<inputs, read, opts, attempts>>

Bind ==
  /\ pc = "bind"
  /\ pc' = "listen"
  /\ UNCHANGED <<inputs, read, opts, made, attempts>>

\* Mutant: the attempts begin again.
BindRetries ==
  /\ pc = "bind"
  /\ attempts' = IF attempts = 0 THEN BindMaxAttempts ELSE attempts - 1
  /\ UNCHANGED <<inputs, read, pc, opts, made>>

\* What fails from here on is an exception in Program's constructor.
BindFails ==
  /\ pc = "bind"
  /\ IF attempts = 0 THEN pc' = "unwinding" /\ UNCHANGED attempts
                     ELSE attempts' = attempts - 1 /\ UNCHANGED pc
  /\ UNCHANGED <<inputs, read, opts, made>>

Listen ==
  /\ pc = "listen"
  /\ pc' \in {"serving", "unwinding"}
  /\ UNCHANGED <<inputs, read, opts, made, attempts>>

GatewayNext ==
  \/ Start \/ SkipToken \/ SelectNameSpace \/ Add \/ SyntaxError \/ Built
  \/ CompileRow \/ CompileEnds \/ Configure \/ Bind \/ BindFails \/ Listen

-----------------------------------------------------------------------------
(***************************************************************************)
(* What a file says, line by line.                                         *)
(***************************************************************************)
Kinds(d, S) == {i \in DOMAIN d : d[i].kind \in S}
SectionOf(d, i) ==
  LET above == {j \in Kinds(d, {"section"}) : j < i}
  IN IF above = {} THEN <<"global">> ELSE d[Max(above)].name
Assigned(d, i) == <<SectionOf(d, i), d[i].name>>
Meant(d, i) == <<IF d[i].ns = << >> THEN SectionOf(d, i) ELSE d[i].ns, d[i].var>>
Assignments(d) == Kinds(d, {"plain", "ref", "env"})
Earlier(d, i) == {j \in Assignments(d) : j < i /\ Assigned(d, j) = Meant(d, i)}

\* Nothing that a reader could take otherwise: references to what is above or
\* in the environment.
Plain(d) ==
  /\ Kinds(d, {"other"}) = {} /\ Assignments(d) # {}
  /\ \A i \in Kinds(d, {"section"}) :
       d[i].name = << >> => \E j \in i + 1 .. Len(d) : d[j].kind # "note"
  /\ \A i \in Kinds(d, {"ref"}) : Earlier(d, i) # {}
  /\ \A i \in Kinds(d, {"env"}) : d[i].var \in DOMAIN Env

Says(d) ==
  LET v[i \in DOMAIN d] ==
        CASE d[i].kind = "ref" -> v[Max(Earlier(d, i))]
          [] d[i].kind = "env" -> [text |-> Env[d[i].var], words |-> <<Env[d[i].var]>>]
          [] OTHER -> d[i].val
  IN [at \in {Assigned(d, i) : i \in Assignments(d)} |->
        v[Max({i \in Assignments(d) : Assigned(d, i) = at})]]

Words(m, ns, name) == IF <<ns, name>> \in DOMAIN m THEN m[<<ns, name>>].words ELSE << >>
Word1(m, ns, name) == LET w == Words(m, ns, name) IN IF w = << >> THEN << >> ELSE w[1]

-----------------------------------------------------------------------------
GatewayTypeOK ==
  /\ pc \in {"start", "build", "syntax error", "compile", "configure", "tunnels",
             "bind", "listen", "serving", "unwinding", "ended", "aborted"}
  /\ opts.port \in 0 .. 65535
  /\ attempts \in 0 .. BindMaxAttempts
  /\ \A t \in ToSet(tl) : t.type \in WordTypes \cup Blanks \cup
       {"NEWLINE", "OPERATOR", "SUBEXP", "STRING_LITERAL", "UNDEFINED"}
  /\ ToSet(rows) \subseteq [ns : Seq(STRING), name : Seq(STRING), value : Seq(STRING)]

(***************************************************************************)
(* A file whose references go back is read without a syntax error, and the *)
(* value of a name is what the last of its lines says, through all its     *)
(* references, whatever blanks, comments and line ends stand between them. *)
(***************************************************************************)
ReadsAsWritten ==
  Plain(doc) =>
    /\ pc # "syntax error"
    /\ pc \in {"configure", "tunnels", "bind", "listen", "serving"} =>
         LET m == Says(doc) IN data = [at \in DOMAIN m |-> m[at].text]

(***************************************************************************)
(* A gateway that serves has the tunnels and the port its operator wrote:  *)
(* every tunnel of the list has the bearers its line names, in order, each *)
(* with its own remote address, and its own protocol or else the tunnel's; *)
(* the port of a legal option beats the file's.                            *)
(***************************************************************************)
ServesAsWritten ==
  Plain(doc) /\ pc = "serving" =>
    LET m == Says(doc)
        listed == Words(m, <<"tunnels">>, <<"list">>)
    IN /\ DOMAIN made.tunnels = ToSet(listed)
       /\ \A t \in DOMAIN made.tunnels :
            LET names == Words(m, t, <<"bearers">>)
                b == made.tunnels[t].bearers
                type(n) == IF Word1(m, n, <<"type">>) # << >> THEN Word1(m, n, <<"type">>)
                           ELSE Word1(m, t, <<"type">>)
            IN /\ root => b # << >>
               /\ IsInjective(listed) => Len(b) = Len(names)
               /\ \A i \in DOMAIN names :
                    /\ b[i].remote = Word1(m, names[i], <<"remote_address">>)
                    /\ b[i].protocol = Protocol(type(names[i]))
       /\ LET port == Word1(m, <<"sip">>, <<"local_port">>) IN
          made.server.bindPort =
            CASE opts.port # 0 -> opts.port
              [] opts.port = 0 /\ is_integer(port) /\ Value10(port) \in 1 .. 65535 -> Value10(port)
              [] OTHER -> 15060
=============================================================================
