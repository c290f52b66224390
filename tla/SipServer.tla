------------------------------ MODULE SipServer ------------------------------
(***************************************************************************)
(* The SIP servers of an operator gateway ("OG") and of a network gateway  *)
(* ("NG"), sip/SipServer.cc.  A server has one task, a thread, per TCP     *)
(* connection.  The tasks of the operator gateway forward each request     *)
(* through a client of their own (SipClient) and evaluate the answer; those*)
(* of the network gateway are the registrar.  The tasks of a process share *)
(* its address manager (LogicalIpAddrMgr), whose calls are one step each,  *)
(* the DNS server's hosts file, which no lock protects, and the routes.    *)
(*                                                                         *)
(* A request is what its headers say to the server: getMethodName, and what*)
(* getHeader and getCommandLine find, "" for nothing ("host" is what        *)
(* getCommandLine finds in To).  The hosts file is the set of the names it *)
(* lists.  No address expires here: see LogicalIpAddrMgr for what then is. *)
(***************************************************************************)
EXTENDS SipClient, FiniteSetsExt

CONSTANTS
  Wish,        \* per session, the requests its agent may send: records
               \* [method, contact, from, to, host, tunnel, server]
  Leases,      \* configurations of the addresses, one of which both gateways have
  Hangup,      \* bound: sessions whose agents may close their connection
  HostsFile,   \* the gateways whose configuration names a hosts file
  MaxAll,      \* bound: requests of all sessions
  MaxIdle,     \* bound: sessions closed by a server after 120 idle seconds
  MaxFault     \* bound: hosts files that do not open and "ip route" commands that fail

ASSUME ServerAssumption ==
  /\ Leases \subseteq [first: Nat, last: Nat, ttl: Nat]
  /\ HostsFile \subseteq {"NG", "OG"}
  /\ MaxIdle \in Nat /\ MaxFault \in Nat

Absent == ""
Request == UNION {Wish[s] : s \in Session}
Name == {Absent} \cup {q.contact : q \in Request}
Via == {"peer"} \cup {q.tunnel : q \in Request}
Gateway == {"NG", "OG"}
NoIp == 0 - 1
Broadcast == 0 - 2

VARIABLES
  lease,    \* the configured addresses and their time to live
  ngTime, ngAddrs, ngNames, ngReply,   \* the network gateway's addresses
  ogTime, ogAddrs, ogNames, ogReply,   \* the operator gateway's
  task,     \* per connection: its task's position and locals
  asked,    \* per session: the requests its agent has sent
  answers,  \* per session: the answers its agent has received
  hosts,    \* per gateway: names in the hosts file
  raced,    \* auxiliary: updates of the hosts file have overlapped
  routes,   \* per gateway: [to, via]
  idle,     \* sessions closed for being idle
  missed,   \* auxiliary: names entered on the network gateway whose update of the
            \* hosts file did not happen, since the last that did
  unrouted, \* auxiliary, per gateway: addresses whose last route was not added
  faults    \* files that did not open and commands that failed

ngVars == <<lease, ngTime, ngAddrs, ngNames, ngReply>>
ogVars == <<lease, ogTime, ogAddrs, ogNames, ogReply>>
auxVars == <<missed, unrouted, faults>>
vars == <<cliVars, ngVars, ogVars, task, asked, answers, hosts, raced, routes, idle, auxVars>>

NG == INSTANCE LogicalIpAddrMgr WITH
        Conf <- Leases, MaxClock <- 0, conf <- lease, now <- 0,
        ipByTime <- ngTime, ipByAddr <- ngAddrs, name2ip <- ngNames, reply <- ngReply
OG == INSTANCE LogicalIpAddrMgr WITH
        Conf <- Leases, MaxClock <- 0, conf <- lease, now <- 0,
        ipByTime <- ogTime, ipByAddr <- ogAddrs, name2ip <- ogNames, reply <- ogReply

NewTask == [pc |-> "recv", req |-> 0, ip |-> 0, dns |-> {}, ans |-> EmptyAnswer]

Init ==
  /\ ClientInit
  /\ NG!Init /\ ngReply.name = Absent
  /\ OG!Init /\ ogReply.name = Absent
  /\ task = [c \in Conn |-> NewTask]
  /\ asked = [s \in Session |-> << >>]
  /\ answers = [s \in Session |-> << >>]
  /\ hosts = [g \in Gateway |-> {}]
  /\ raced = [g \in Gateway |-> FALSE]
  /\ routes = [g \in Gateway |-> {}]
  /\ idle = 0
  /\ missed = {} /\ unrouted = [g \in Gateway |-> {}] /\ faults = 0

Gw(c) == IF c[2] = 0 /\ c[1] \in OgSession THEN "OG" ELSE "NG"
Asked(c) == asked[c[1]][task[c].req]
At(c, pc) == wire[c].link # "none" /\ task[c].pc = pc
GoTask(c, pc) == task' = [task EXCEPT ![c].pc = pc]

-----------------------------------------------------------------------------
(***************************************************************************)
(* Agents.                                                                 *)
(***************************************************************************)
Requests == FoldSet(LAMBDA s, n : n + Len(asked[s]), 0, Session)

AgentSend(s) ==
  /\ wire[<<s, 0>>].link = "up"
  /\ Len(asked[s]) = Len(answers[s]) /\ Len(asked[s]) < MaxReq /\ Requests < MaxAll
  /\ \E q \in Wish[s] : asked' = [asked EXCEPT ![s] = Append(@, q)]
  /\ wire' = [wire EXCEPT ![<<s, 0>>].to = Append(@, Len(asked[s]) + 1)]
  /\ UNCHANGED <<cli, sendMsg, recvMsg, slow, ngVars, ogVars, task, answers,
                 hosts, raced, routes, idle, auxVars>>

AgentCloses(s) ==
  /\ s \in Hangup /\ wire[<<s, 0>>].link = "up"
  /\ wire' = [wire EXCEPT ![<<s, 0>>].link = "closed"]
  /\ UNCHANGED <<cli, sendMsg, recvMsg, slow, ngVars, ogVars, task, asked, answers,
                 hosts, raced, routes, idle, auxVars>>

-----------------------------------------------------------------------------
(***************************************************************************)
(* operator(): the loop of a task.                                         *)
(***************************************************************************)
Recv(c) ==
  /\ At(c, "recv") /\ wire[c].to # << >>
  /\ wire' = [wire EXCEPT ![c].to = Tail(@)]
  /\ task' = [task EXCEPT ![c].pc = IF Gw(c) = "OG" THEN "forward" ELSE "process",
                          ![c].req = Head(wire[c].to)]
  /\ UNCHANGED <<cli, sendMsg, recvMsg, slow, ngVars, ogVars, asked, answers,
                 hosts, raced, routes, idle, auxVars>>

\* The peer has closed, or 120 seconds pass without a byte.  The end of an
\* operator gateway's task destroys its client.
Close(c) ==
  /\ At(c, "recv") /\ wire[c].to = << >>
  /\ \/ wire[c].link # "up" /\ UNCHANGED <<wire, idle>>
     \/ /\ wire[c].link = "up" /\ idle < MaxIdle
        /\ wire' = [wire EXCEPT ![c].link = "fin"]
        /\ idle' = idle + 1
  /\ IF Gw(c) = "OG" THEN GoTask(c, "join") /\ Stop(c[1])
                     ELSE GoTask(c, "over") /\ UNCHANGED cli
  /\ UNCHANGED <<sendMsg, recvMsg, slow, ngVars, ogVars, asked, answers,
                 hosts, raced, routes, auxVars>>

Joined(c) ==
  /\ task[c].pc = "join" /\ cli[c[1]].pc = "ended"
  /\ GoTask(c, "over")
  /\ UNCHANGED <<cliVars, ngVars, ogVars, asked, answers, hosts, raced, routes, idle, auxVars>>

\* The answer repeats the headers of the message it is made from.  An agent
\* reads its answers at once; one that has closed gets none.
Deliver(c, a) ==
  IF c[2] = 0
  THEN /\ answers' = [answers EXCEPT ![c[1]] =
                        IF wire[c].link = "up" THEN Append(@, a) ELSE @]
       /\ UNCHANGED wire
  ELSE /\ wire' = [wire EXCEPT ![c].back =
                     IF wire[c].link = "up" THEN Append(@, a) ELSE @]
       /\ UNCHANGED answers

Reply(c, a) == Deliver(c, a) /\ task' = [task EXCEPT ![c] = NewTask]

Fault == faults < MaxFault /\ faults' = faults + 1

Own(c, code) == [req |-> task[c].req, code |-> code, whole |-> TRUE]

-----------------------------------------------------------------------------
(***************************************************************************)
(* updateDns, on either gateway: the file is truncated and opened, the     *)
(* names are copied from the table, and then written.  Over what another   *)
(* task has written meanwhile, they replace its beginning.  Without a file, *)
(* or one that opens, nothing is written; the result is ignored.            *)
(***************************************************************************)
\* IpAddress::to_int of what generateIp leaves.
ToInt(ip) == IF ip = NoIp THEN 0 ELSE ip

InDns(c) == task[c].pc \in {"dnsRead", "dnsWrite"}
Known(g) == {n \in Name : (IF g = "NG" THEN ngNames[n] ELSE ogNames[n]) # NoIp}

Overlaps(c) == \E d \in Conn \ {c} : Gw(d) = Gw(c) /\ InDns(d)

DnsOpen(c) ==
  /\ At(c, "dnsOpen") /\ Gw(c) \in HostsFile
  /\ hosts' = [hosts EXCEPT ![Gw(c)] = {}]
  /\ raced' = [raced EXCEPT ![Gw(c)] = Overlaps(c)]
  /\ missed' = IF Gw(c) = "NG" THEN {} ELSE missed
  /\ GoTask(c, "dnsRead")
  /\ UNCHANGED <<cliVars, ngVars, ogVars, asked, answers, routes, idle, unrouted, faults>>

DnsFails(c) ==
  /\ At(c, "dnsOpen")
  /\ IF Gw(c) \in HostsFile THEN Fault ELSE UNCHANGED faults
  /\ missed' = IF Gw(c) = "NG" THEN missed \cup {Asked(c).contact} ELSE missed
  /\ GoTask(c, "route")
  /\ UNCHANGED <<cliVars, ngVars, ogVars, asked, answers, hosts, raced, routes, idle, unrouted>>

\* Mutant: the names are copied before the new one is entered.
DnsReadBefore(c) ==
  /\ At(c, "dnsRead")
  /\ task' = [task EXCEPT ![c].pc = "dnsWrite",
                          ![c].dns = Known(Gw(c)) \ {Asked(c).contact}]
  /\ UNCHANGED <<cliVars, ngVars, ogVars, asked, answers, hosts, raced, routes, idle, auxVars>>

DnsRead(c) ==
  /\ At(c, "dnsRead")
  /\ task' = [task EXCEPT ![c].pc = "dnsWrite", ![c].dns = Known(Gw(c))]
  /\ UNCHANGED <<cliVars, ngVars, ogVars, asked, answers, hosts, raced, routes, idle, auxVars>>

DnsWrite(c) ==
  /\ At(c, "dnsWrite")
  /\ \E left \in SUBSET (hosts[Gw(c)] \ task[c].dns) :
       hosts' = [hosts EXCEPT ![Gw(c)] = task[c].dns \cup left]
  /\ task' = [task EXCEPT ![c].pc = "route", ![c].dns = {}]
  /\ UNCHANGED <<cliVars, ngVars, ogVars, asked, answers, raced, routes, idle, auxVars>>

(***************************************************************************)
(* RouteMgr::add: a command deletes the route to the address and another   *)
(* adds the new one, which the kernel refuses while it has a route there.   *)
(* Either may fail, and the results are ignored.                            *)
(***************************************************************************)
HasRoute(g, to) == \E r \in routes[g] : r.to = to

DelRoute(g, to) ==
  /\ \/ /\ routes' = [routes EXCEPT ![g] = {r \in @ : r.to # to}]
        /\ UNCHANGED faults
     \/ UNCHANGED routes /\ Fault
  /\ UNCHANGED <<missed, unrouted>>

AddRoute(g, to, via) ==
  /\ \/ /\ HasRoute(g, to)
        /\ UNCHANGED <<routes, unrouted, faults>>
     \/ /\ ~HasRoute(g, to)
        /\ routes' = [routes EXCEPT ![g] = @ \cup {[to |-> to, via |-> via]}]
        /\ unrouted' = [unrouted EXCEPT ![g] = @ \ {to}]
        /\ UNCHANGED faults
     \/ /\ ~HasRoute(g, to) /\ Fault
        /\ unrouted' = [unrouted EXCEPT ![g] = @ \cup {to}]
        /\ UNCHANGED routes
  /\ UNCHANGED missed

RouteDel(c) ==
  /\ At(c, "route")
  /\ Gw(c) = "NG" => Asked(c).tunnel # Absent
  /\ DelRoute(Gw(c), task[c].ip)
  /\ GoTask(c, "routeAdd")
  /\ UNCHANGED <<cliVars, ngVars, ogVars, asked, answers, hosts, raced, idle>>

-----------------------------------------------------------------------------
(***************************************************************************)
(* processRequest.  The operator gateway comes here when forwardRequest has*)
(* returned nothing.                                                       *)
(***************************************************************************)
IsRegister(q) == q.method = "register" /\ (q.contact # Absent \/ q.from # Absent)

\* The address is for the Contact, also when the name came with From.  Address 0
\* is taken for the refusal that 0.0.0.0 stands for.
Register(c) ==
  /\ At(c, "process") /\ Gw(c) = "NG" /\ IsRegister(Asked(c))
  /\ NG!Generate(Asked(c).contact)
  /\ LET ip == ToInt(ngReply'.ip) IN
       /\ task' = [task EXCEPT ![c].ip = ip, ![c].pc = IF ip = 0 THEN "route" ELSE "dnsOpen"]
       /\ missed' = IF ip = 0 THEN missed \cup {Asked(c).contact} ELSE missed
  /\ UNCHANGED <<cliVars, ogVars, asked, answers, hosts, raced, routes, idle, unrouted, faults>>

RegisterRefused(c) ==
  /\ At(c, "route") /\ Gw(c) = "NG" /\ Asked(c).tunnel = Absent
  /\ Reply(c, Own(c, 400))
  /\ UNCHANGED <<cli, sendMsg, recvMsg, slow, ngVars, ogVars, asked, hosts, raced,
                 routes, idle, auxVars>>

\* Mutant: the request of a server agent gets no route.
RegisterEndsHere(c) ==
  /\ At(c, "routeAdd") /\ Gw(c) = "NG"
  /\ IF Asked(c).server THEN UNCHANGED <<routes, auxVars>>
                        ELSE AddRoute("NG", task[c].ip, Asked(c).tunnel)
  /\ Reply(c, Own(c, 200))
  /\ UNCHANGED <<cli, sendMsg, recvMsg, slow, ngVars, ogVars, asked, hosts, raced, idle>>

\* The route leads through the tunnel, or to the server agent asking.
RegisterEnds(c) ==
  /\ At(c, "routeAdd") /\ Gw(c) = "NG"
  /\ AddRoute("NG", task[c].ip, IF Asked(c).server THEN "peer" ELSE Asked(c).tunnel)
  /\ Reply(c, Own(c, 200))
  /\ UNCHANGED <<cli, sendMsg, recvMsg, slow, ngVars, ogVars, asked, hosts, raced, idle>>

Accepted(q) == /\ q.method = "invite"
               /\ q.from # Absent \/ q.contact # Absent
               /\ q.host # Absent

RequestEnds(c) ==
  /\ At(c, "process")
  /\ \/ Gw(c) = "OG" /\ Reply(c, Own(c, 405))
     \/ /\ Gw(c) = "NG" /\ ~IsRegister(Asked(c))
        /\ Reply(c, Own(c, IF Accepted(Asked(c)) THEN 200 ELSE 400))
  /\ UNCHANGED <<cli, sendMsg, recvMsg, slow, ngVars, ogVars, asked, hosts, raced,
                 routes, idle, auxVars>>

-----------------------------------------------------------------------------
(***************************************************************************)
(* forwardRequest and processResponse, on the operator gateway.            *)
(***************************************************************************)
ForwardPush(c) ==
  /\ At(c, "forward") /\ cli[c[1]].connected
  /\ Push(c[1], task[c].req)
  /\ GoTask(c, "pop")
  /\ UNCHANGED <<ngVars, ogVars, asked, answers, hosts, raced, routes, idle, auxVars>>

\* No connection for 25 seconds, or no answer for 901.
ForwardFails(c) ==
  /\ \/ At(c, "forward") /\ ~cli[c[1]].connected /\ UNCHANGED cliVars
     \/ At(c, "pop") /\ PopTimesOut(c[1])
  /\ GoTask(c, "process")
  /\ UNCHANGED <<ngVars, ogVars, asked, answers, hosts, raced, routes, idle, auxVars>>

ForwardPop(c) ==
  /\ At(c, "pop") /\ Pop(c[1])
  /\ task' = [task EXCEPT ![c].pc = "response", ![c].ans = Head(recvMsg[c[1]])]
  /\ UNCHANGED <<ngVars, ogVars, asked, answers, hosts, raced, routes, idle, auxVars>>

\* The request whose headers the answer repeats.
Echo(c) == asked[c[1]][task[c].ans.req]

\* Headers of an answer received in part may be missing; an empty one has none.
HasContact(c) ==
  IF task[c].ans.req = 0 THEN {FALSE}
  ELSE {Echo(c).contact # Absent} \cup (IF task[c].ans.whole THEN {} ELSE {FALSE})

\* Without a response code the answer is "501 Not Implemented".
Relayed(c) == [task[c].ans EXCEPT !.code = IF @ = 0 THEN 501 ELSE @]

ResponseContact(c) ==
  /\ At(c, "response") /\ TRUE \in HasContact(c)
  /\ OG!Generate(Echo(c).contact)
  /\ LET ip == ToInt(ogReply'.ip) IN
       IF ip # 0 /\ task[c].ans.code = 200
       THEN /\ task' = [task EXCEPT ![c].pc = "dnsOpen", ![c].ip = ip]
            /\ UNCHANGED <<wire, answers>>
       ELSE Reply(c, Relayed(c))
  /\ UNCHANGED <<cli, sendMsg, recvMsg, slow, ngVars, asked, hosts, raced, routes, idle, auxVars>>

ResponseRoute(c) ==
  /\ At(c, "routeAdd") /\ Gw(c) = "OG"
  /\ AddRoute("OG", task[c].ip, "peer")
  /\ Reply(c, Relayed(c))
  /\ UNCHANGED <<cli, sendMsg, recvMsg, slow, ngVars, ogVars, asked, hosts, raced, idle>>

\* IpAddress(name): what the resolver knows of it, or 255.255.255.255.
Resolved(n) == {Broadcast} \cup (IF n \in hosts["OG"] \cap Known("OG")
                                 THEN {ogNames[n]} ELSE {})

\* The answer to an INVITE: a route through the tunnel to the agent called.
ForInvite(c) == IF task[c].ans.req = 0 THEN FALSE
                ELSE /\ task[c].ans.code = 200
                     /\ Echo(c).to # Absent /\ Echo(c).tunnel # Absent

ResponseInvite(c) ==
  /\ At(c, "response") /\ FALSE \in HasContact(c) /\ ForInvite(c)
  /\ \E ip \in Resolved(Echo(c).to) :
       /\ DelRoute("OG", ip)
       /\ task' = [task EXCEPT ![c].pc = "inviteAdd", ![c].ip = ip]
  /\ UNCHANGED <<cliVars, ngVars, ogVars, asked, answers, hosts, raced, idle>>

InviteEnds(c) ==
  /\ At(c, "inviteAdd")
  /\ AddRoute("OG", task[c].ip, Echo(c).tunnel)
  /\ Reply(c, Relayed(c))
  /\ UNCHANGED <<cli, sendMsg, recvMsg, slow, ngVars, ogVars, asked, hosts, raced, idle>>

ResponseOther(c) ==
  /\ At(c, "response") /\ FALSE \in HasContact(c)
  /\ ~(ForInvite(c) /\ task[c].ans.whole)
  /\ Reply(c, Relayed(c))
  /\ UNCHANGED <<cli, sendMsg, recvMsg, slow, ngVars, ogVars, asked, hosts, raced,
                 routes, idle, auxVars>>

-----------------------------------------------------------------------------
Task(c) ==
  \/ Recv(c) \/ Close(c) \/ Joined(c)
  \/ DnsOpen(c) \/ DnsFails(c) \/ DnsRead(c) \/ DnsWrite(c) \/ RouteDel(c)
  \/ Register(c) \/ RegisterRefused(c) \/ RegisterEnds(c) \/ RequestEnds(c)
  \/ ForwardPush(c) \/ ForwardFails(c) \/ ForwardPop(c)
  \/ ResponseContact(c) \/ ResponseRoute(c)
  \/ ResponseInvite(c) \/ InviteEnds(c) \/ ResponseOther(c)

serverVars == <<ngVars, ogVars, task, asked, answers, hosts, raced, routes, idle, auxVars>>

Next == \/ \E s \in Session : AgentSend(s) \/ AgentCloses(s)
        \/ \E c \in Conn : Task(c)
        \/ \E s \in OgSession : (Client(s) \/ Wake(s)) /\ UNCHANGED serverVars

Spec == /\ Init /\ [][Next]_vars
        /\ WF_vars(\E c \in Conn : Task(c))
        /\ WF_vars(\E s \in OgSession : Client(s) /\ UNCHANGED serverVars)

(***************************************************************************)
(* Properties.                                                             *)
(***************************************************************************)
\* The type invariant.
TypeOK ==
  /\ ClientType
  /\ NG!TypeOK /\ OG!TypeOK
  /\ task \in [Conn ->
       [pc: {"recv", "process", "dnsOpen", "dnsRead", "dnsWrite", "route", "routeAdd",
             "forward", "pop", "response", "inviteAdd", "join", "over"},
        req: 0 .. MaxReq, ip: Nat \cup {Broadcast}, dns: SUBSET Name, ans: Answer]]
  /\ asked \in [Session -> Seq(Request)] /\ answers \in [Session -> Seq(Answer)]
  /\ hosts \in [Gateway -> SUBSET Name] /\ raced \in [Gateway -> BOOLEAN]
  /\ routes \in [Gateway -> SUBSET [to: Nat \cup {Broadcast}, via: Via]]
  /\ idle \in 0 .. MaxIdle
  /\ missed \subseteq Name /\ unrouted \in [Gateway -> SUBSET (Nat \cup {Broadcast})]
  /\ faults \in 0 .. MaxFault

\* An answer that reaches an agent is the one to its request, or the client
\* has stopped hearing and the answer is empty.  Only after a sendrecv has given
\* up on an answer still to come is an earlier request's answer taken for the
\* next one's, and even then none is taken twice or overtaken (SipClient.cc,
\* lines 63-78, 185-204).
OwnAnswer ==
  \A s \in Session : \A i \in DOMAIN answers[s] :
    LET a == answers[s][i] IN
    /\ a.req = 0 => s \in OgSession /\ a.code = 501
    /\ a.req \notin {0, i} => s \in OgSession /\ cli[s].late /\ a.req < i
    /\ \A j \in 1 .. i - 1 : a.req # 0 /\ answers[s][j].code # 405 => answers[s][j].req < a.req

RangeFull(addrs) == lease.first .. lease.last \subseteq addrs

\* A route leads to the address, the last command to add it has failed, or a task
\* has just deleted it and will add the new one.
Reached(g, ip) ==
  \/ HasRoute(g, ip) \/ ip \in unrouted[g]
  \/ \E c \in Conn : Gw(c) = g /\ task[c].pc \in {"routeAdd", "inviteAdd"} /\ task[c].ip = ip

\* What 200 to a REGISTER is worth, however the gateways' tasks interleave: the
\* name has its address on the network gateway, and a route leads there but for
\* the moment in which another task replaces it or for a command that failed;
\* or the range was exhausted, which the answer does not tell.  On the way
\* through the operator gateway that holds there as well, unless the answer came
\* in part or the address is 0 (SipServer.cc, lines 227-278, 337-345;
\* RouteMgr.cc, lines 11-49).
Registered ==
  \A s \in Session : \A i \in DOMAIN answers[s] :
    LET a == answers[s][i]
        q == asked[s][a.req]
    IN a.req # 0 /\ a.code = 200 /\ q.method = "register" =>
       /\ IF ngNames[q.contact] = NoIp THEN RangeFull(ngAddrs)
          ELSE Reached("NG", ngNames[q.contact])
       /\ s \in OgSession /\ a.whole /\ q.contact # Absent =>
            IF ogNames[q.contact] = NoIp THEN RangeFull(ogAddrs)
            ELSE ogNames[q.contact] = 0 \/ Reached("OG", ogNames[q.contact])

\* Whenever no update of the network gateway's hosts file is due or under way and
\* the last one overlapped no other, the file lists only names that have an
\* address, and every one of them but those entered since, of which none could
\* be written: one update that runs alone repairs what overlapping ones have
\* damaged and what earlier ones have missed (SipServer.cc, lines 83-104, 229).
HostsComplete ==
  LET updating == \E c \in Conn : Gw(c) = "NG" /\ (InDns(c) \/ task[c].pc = "dnsOpen")
  IN ~updating /\ ~raced["NG"] =>
       hosts["NG"] \subseteq Known("NG") /\ Known("NG") \subseteq hosts["NG"] \cup missed

\* A request is answered, or the connection it came by closes: the waits for
\* the connection, for the answer and in the queues all end.
Answered ==
  \A s \in Session :
    Len(asked[s]) > Len(answers[s])
      ~> Len(asked[s]) = Len(answers[s]) \/ wire[<<s, 0>>].link # "up"

\* The end of a task does end, with its client's thread, if that thread is not
\* waiting in pop when it is told to stop (SipClient.cc, lines 99-106, 163).
JoinEnds ==
  \A s \in OgSession :
    task[<<s, 0>>].pc = "join" /\ cli[s].pc # "waiting" ~> task[<<s, 0>>].pc = "over"
=============================================================================
