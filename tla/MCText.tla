------------------------------- MODULE MCText -------------------------------
EXTENDS TunnelSetup, SipText

Line(kind, txt, name, ns, var, value) ==
  [kind |-> kind, text |-> txt, name |-> name, ns |-> ns, var |-> var, val |-> value]
NoValue == [text |-> << >>, words |-> << >>]
Value1(w) == [text |-> w, words |-> <<w>>]

Blank == <<" ">>
Nl == <<"\n">>
Remark == <<"#", "=", "[", "\n">>

Section(n) == Line("section", <<"[", n, "]", "\n">>, <<n>>, << >>, << >>, NoValue)
SectionB(n) == Line("section", <<" ", "[", " ", n, "\t", "]", " ">> \o Remark, <<n>>, << >>, << >>, NoValue)
Default == Line("section", <<"[", "]", "\n">>, << >>, << >>, << >>, NoValue)
Set(n, w) == Line("plain", <<n, "=">> \o w \o Nl, <<n>>, << >>, << >>, Value1(w))
List(n, a, b) ==
  Line("plain", <<n, " ", "=", " ", Quote, a, ",", " ", b, Quote, " ">> \o Remark, <<n>>, << >>, << >>,
       [text |-> <<a, ",", " ", b>>, words |-> <<<<a>>, <<b>>>>])
Quoted(n, a) ==
  Line("plain", <<n, "\t", "=", Quote, a, Quote, "\r", "\n">>, <<n>>, << >>, << >>, Value1(<<a>>))
Empty(n) == Line("plain", <<n, "=", Quote, Quote, "\n">>, <<n>>, << >>, << >>, NoValue)
Ref(n, v) == Line("ref", <<n, "=", "$", v, "\n">>, <<n>>, << >>, <<v>>, NoValue)
RefTo(n, p, v) == Line("ref", <<n, " ", "=", "$", p, ".", v, " ">> \o Remark, <<n>>, <<p>>, <<v>>, NoValue)
EnvVar(n, v) == Line("env", <<n, "=", "$", "_env", ".", v, "\n">>, <<n>>, << >>, <<v>>, NoValue)
Note == Line("note", Remark, << >>, << >>, << >>, NoValue)
Other(t) == Line("other", t, << >>, << >>, << >>, NoValue)

\* Short files: references, name spaces and what is not plain.
Pool == {Section("a"), SectionB("b"), Default, Set("x", <<"1", "2">>), Set("x", <<"v">>), Ref("y", "x"),
         RefTo("x", "a", "y"), EnvVar("x", "HOST"), EnvVar("y", "NONE"), Note,
         Other(<<"x", "=", "v", "#", "n", "\n">>), Other(<<"x", "=", "\n">>), Other(<<"y", "\n">>)}
Short == UNION {[1 .. n -> Pool] : n \in 1 .. 3} \cup {d \o <<Set("x", <<"v">>), Ref("y", "x")>> : d \in [1 .. 2 -> Pool]}

\* Files with tunnels.
Bearers == <<Section("b1"), Quoted("remote_address", "r1"), Quoted("type", "udp"),
             SectionB("b2"), Quoted("remote_address", "r2"), Ref("local_address", "remote_address")>>
Tunnels ==
  {<<Section("sip")>> \o port \o Bearers \o <<Section("t1")>> \o list \o type
     \o <<Section("t2"), Quoted("bearers", "b2"), Section("tunnels"), l>> :
     port \in {<< >>, <<Set("local_port", <<"8", "0">>)>>, <<Set("local_port", <<"7", "0", "0", "0", "0">>)>>,
               <<Quoted("remote_address", "p"), Set("remote_port", <<"9">>)>>},
     list \in {<< >>, <<Quoted("bearers", "b2")>>, <<List("bearers", "b1", "b2")>>},
     type \in {<< >>, <<Set("type", <<"tcp">>), Set("port", <<"x">>)>>},
     l \in {Quoted("list", "t1"), List("list", "t1", "t2"), List("list", "t1", "t1")}}

\* Files with addresses.
At(b, loc, rem) == <<Section(b), Quoted("local_address", loc), Quoted("remote_address", rem)>>
Setups ==
  {At("b1", "l", "r1") \o At("b2", "l", r) \o At("b3", loc, "r3") \o <<Section("t1")>> \o list \o addr
     \o <<Quoted("type", type1), Section("t2"), Quoted("bearers", "b3"), Quoted("type", type2),
          Section("tunnels"), List("list", "t1", "t2")>> :
     r \in {"r1", "r2"}, loc \in {"l", "none"}, type1 \in {"gre", "udp", "tcp"}, type2 \in {"gre", "tcp"},
     list \in {<<Quoted("bearers", "b1")>>, <<List("bearers", "b1", "b2")>>},
     addr \in {<< >>, <<Quoted("local_address", "none")>>,
              <<Quoted("local_address", "i1"), Quoted("remote_address", "i2")>>}}
MCAddressOf == <<"l">> :> 4 @@ <<"r1">> :> 3 @@ <<"r2">> :> 5 @@ <<"r3">> :> 2 @@ <<"i1">> :> 6 @@ <<"i2">> :> 7
\* None; a tunnel of the name and ends of t1; another's of those ends, while t2
\* is no tunnel at all.
Ends == <<<<"l">>, <<"r1">>>>
MCLeftovers == {<< >>, <<"t1">> :> Interface("gre", TRUE, TRUE, Ends),
                <<"t9">> :> Interface("gre", FALSE, FALSE, Ends)
                  @@ <<"t2">> :> Interface("other", TRUE, FALSE, << >>)}
Options == {<< >>, <<<<"-p">>, <<"7", "7">>>>, <<<<"-vv">>, <<"--port">>, <<"7", "0", "0", "0", "0">>>>,
            <<<<"-p">>, <<"-", "1">>>>, <<<<"-p">>, <<"x">>>>, <<<<"-c">>, <<"f">>>>, <<<<"-h">>>>, <<<<"-q">>>>,
            <<<<"-c">>, <<"acsgw.cfg">>, <<"-p">>>>}
MCStarts == [doc : Short, args : {<< >>}, root : {FALSE}] \cup [doc : Tunnels, args : {<< >>, <<<<"-p">>, <<"7", "7">>>>}, root : BOOLEAN]
            \cup [doc : Setups, args : {<< >>}, root : BOOLEAN]
            \cup [doc : {CHOOSE d \in Tunnels : TRUE}, args : Options, root : {FALSE}]
MCEnv == <<"HOST">> :> <<"h">>

-----------------------------------------------------------------------------
Head1(t, name, says) == [text |-> t, name |-> <<name>>, says |-> says, plain |-> TRUE]
Odd(t) == [text |-> t, name |-> <<t[1]>>, says |-> << >>, plain |-> FALSE]
Proto == <<" ", "sip", "/", "2", ".", "0">>
Uri(u) == <<"<", "sip", ":", u, ">">>

Firsts ==
  {Head1(<<"register", " ", "sip", ":", "h">> \o Proto, "register", <<"h">>),
   Head1(<<"invite", " ", "sip", ":", "h", ":", "8", "0">> \o Proto, "invite", <<"h">>),
   Head1(<<"invite", " ", "sip", ":", "h", ";", "user", "=", "p">> \o Proto, "invite", <<"h">>),
   Odd(<<"register", " ", "h">> \o Proto), Odd(<<"sip", "/", "2", ".", "0", " ", "4", "0", "4", " ", "reason">>)}

Headers ==
  {Head1(<<"contact", ":", " ">> \o Uri("ua"), "contact", <<"ua">>),
   Head1(<<"from", ":", " ">> \o Uri("ub") \o <<";", "tag", "=", "q">>, "from", <<"ub">>),
   Head1(<<"x-tunnel", ":", " ", "t1">>, "x-tunnel", <<"t1">>),
   Head1(<<"cseq", ":", " ", "1", " ", "register">>, "cseq", <<"1">>),
   Head1(<<"call-id", " ", ":", "\t", "c", ":", "d">>, "call-id", <<"c", ":", "d">>),
   Odd(<<"contact", ":", " ", "bob", " ">> \o Uri("uc")),
   Odd(<<"contact", ":", "<", "sip", ":", "ud", ":", "9", ";", "expires", "=", "6", ">", ";">>),
   Odd(<<"contact", ":", " ", "ue">>),
   Odd(<<"to", ":", Quote, "a", " ", Escape, "n", Quote, "<", "sip", ":", "uf", ">">>),
   Odd(<<"via", ":", " ", "sip", "/", "2", ".", "0", "/", "udp", " ", "h", ":", "5", ";", "branch", "=", "z", ";", "rport">>),
   Odd(<<"via", ":", " ", "sip", "/", "2", ".", "0", "/", "udp", " ", "h">>),
   Odd(<<"authorization", ":", " ", "digest", " ", "username", "=", Quote, "u", Quote, ",", "realm", "=", "r">>),
   Odd(<<"authorization", ":", " ", "digest", " ", "username", ",">>),
   Head1(<<"allow", ":", " ", "ack", ",", "invite">>, "allow", <<"ack", "invite">>),
   Head1(<<"allow", ":", "ack">>, "allow", <<"ack">>), Odd(<<"allow", ":", " ", "invite", " ", "ack">>),
   Odd(<<"x-tunnel", ":", " ", "t2", " ">>), Odd(<<"x-tunnel", ":">>), [Odd(<<"\r", "x">>) EXCEPT !.name = <<"x">>]}

MCKeyOrder == <<"1", "ack", "branch", "c", "description", "expires", "host", "invite", "port", "protcol",
                "realm", "rport", "sip", "sips", "t1", "t2", "tag", "user", "username">>

MCRequests == {<<f>> : f \in Firsts} \cup {<<f, h>> : f \in Firsts, h \in Headers}
              \cup {<<f, h, i>> : f \in {f \in Firsts : f.plain}, h \in Headers, i \in Headers}
              \cup {<<CHOOSE f \in Firsts : f.plain>> \o SetToSeq({h \in Headers : h.plain /\ h.says # <<"ack">>})}

-----------------------------------------------------------------------------
GatewayIdle ==
  /\ doc = << >> /\ args = << >> /\ root = FALSE /\ pc = "ended" /\ opts = NoOptions
  /\ tl = << >> /\ namespace = << >> /\ rows = << >> /\ data = << >> /\ made = << >> /\ attempts = 0
  /\ created = {} /\ cur = << >> /\ next = 0 /\ kernel = << >> /\ devs = {}
  /\ rpeer2dev = << >> /\ paths = << >> /\ allMade = TRUE /\ fails = 0
SipIdle ==
  /\ lines = << >> /\ text = << >> /\ pos = 0 /\ s = "LF2" /\ line = << >>
  /\ msg = NoMessage /\ request = NoMessage /\ phase = "closed"

\* A gateway that starts, or a request: one or the other.
Init == \/ StartInit /\ SipIdle
        \/ GatewayIdle /\ SipInit
Next == \/ StartNext /\ UNCHANGED sipVars
        \/ SipNext /\ UNCHANGED startVars
        \/ (Stopped \/ Joining) /\ phase \in {"done", "closed"} /\ UNCHANGED <<startVars, sipVars>>
Spec == Init /\ [][Next]_<<startVars, sipVars>> /\ GatewayFairness

TypeOK == GatewayTypeOK /\ SetupTypeOK /\ SipTypeOK
=============================================================================
