--------------------------- MODULE SipTask_proofs ---------------------------
(***************************************************************************)
(* Proofs about SipServer, the first half: the inductive invariant IInv,   *)
(* the kinds of every variable after every step, and that a step of a task *)
(* of the server (SipServer::SIPSessionTask::run and the functions it      *)
(* calls) keeps the invariant.  SipServer_proofs goes on with the clients, *)
(* the agents and the hosts file, and concludes.                           *)
(*                                                                         *)
(* The invariant is stated one session at a time, because a step touches   *)
(* one: SessionInv of the tasks and the connections of a session,          *)
(* ClientInv of the client beside its agent's task and of the two queues   *)
(* between them.  What sessions share, the address tables, the routes and  *)
(* the requests sent, only grows (Grows), so what an answer is worth in    *)
(* one session no step of another takes away.  Hosts is about the one      *)
(* thing that does not grow, the hosts file.                               *)
(*                                                                         *)
(* That an agent gets its own answer rests on Ordered: the requests of a   *)
(* session, by the places from where an answer to them can still come, are *)
(* in the order they were sent in, so an answer that comes late is passed  *)
(* by none and comes once; and on Punctual: until a sendrecv has given up  *)
(* too early, all of them are the one the task waits for.                  *)
(***************************************************************************)
EXTENDS SipServer, SequenceTheorems, TLAPS

-----------------------------------------------------------------------------
(***************************************************************************)
(* The inductive invariant.  One session and its client at a time:         *)
(***************************************************************************)
Base(s) == <<s, 0>>
Mine(s) == {c \in Conn : c[1] = s}
Busy(c) == task[c].pc \notin {"recv", "join", "over"}
Updating(c) == task[c].pc \in {"dnsOpen", "dnsRead", "dnsWrite", "route", "routeAdd"}
Asks(s) == 1 .. Len(asked[s])

\* Only the tasks of the operator gateway forward.
Roles(s) ==
  \A c \in Mine(s) : Gw(c) = "NG" =>
    task[c].pc \in {"recv", "process", "dnsOpen", "dnsRead", "dnsWrite", "route", "routeAdd",
                    "over"}

\* A client past its first attempt has a connection, an answer of which some has
\* arrived is still to be read, and later connections are as new.
Place(s) ==
  /\ cli[s].pc \notin {"connect", "ended"} => cli[s].conn # 0
  /\ cli[s].some => cli[s].pc = "recv" /\ Back(s) # << >>
  /\ \A k \in cli[s].conn + 1 .. MaxConn :
       /\ wire[<<s, k>>].to = << >> /\ wire[<<s, k>>].back = << >>
       /\ wire[<<s, k>>].link = "none" /\ task[<<s, k>>] = NewTask

\* A number on its way stands for a request that was sent.
Numbers(s) ==
  \A c \in Mine(s) :
    /\ \A i \in DOMAIN wire[c].to : wire[c].to[i] \in Asks(s)
    /\ \A i \in DOMAIN wire[c].back : wire[c].back[i].req # 0
    /\ Busy(c) => task[c].req \in Asks(s)

Pending(s) ==
  /\ \A i \in DOMAIN sendMsg[s] : sendMsg[s][i] \in Asks(s)
  /\ cli[s].pc = "send" => cli[s].buf \in Asks(s)

\* An agent and its task take turns.
Turn(s) ==
  LET c == Base(s) IN
  /\ wire[c].to # << >> =>
       /\ wire[c].to = <<Len(asked[s])>> /\ ~Busy(c)
       /\ Len(asked[s]) = Len(answers[s]) + 1
  /\ Busy(c) => /\ wire[c].to = << >> /\ task[c].req = Len(asked[s])
                /\ Len(asked[s]) = Len(answers[s]) + 1
  /\ wire[c].link = "up" /\ wire[c].to = << >> /\ ~Busy(c) => Len(asked[s]) = Len(answers[s])
  /\ task[c].pc \in {"join", "over"} => wire[c].link # "up"

\* What is on connection h for its client to hear: nothing, or only request r.
Quiet(h) == wire[h].to = << >> /\ wire[h].back = << >> /\ ~Busy(h)
Sole(h, r) ==
  \/ wire[h].to = <<r>> /\ ~Busy(h) /\ wire[h].back = << >>
  \/ wire[h].to = << >> /\ Busy(h) /\ task[h].req = r /\ wire[h].back = << >>
  \/ wire[h].to = << >> /\ ~Busy(h) /\ Len(wire[h].back) = 1 /\ wire[h].back[1].req = r

Hearing(s) ==
  /\ cli[s].hears /\ cli[s].pc \in {"pop", "waiting", "send", "push"} => Quiet(Here(s))
  /\ cli[s].hears /\ cli[s].pc = "recv" =>
       Quiet(Here(s)) \/ \E r \in 1 .. MaxReq : Sole(Here(s), r)

\* The requests of a session, from the answers that its agent has to the queue
\* of its client, by the places from where an answer to them can still come.
Told(s) == {r \in 1 .. MaxReq : \E i \in DOMAIN answers[s] :
                answers[s][i].req = r /\ answers[s][i].code # 405}
Fetched(s) == {r \in 1 .. MaxReq : /\ \/ task[Base(s)].pc \in {"response", "inviteAdd"}
                                      \/ Updating(Base(s))
                                   /\ task[Base(s)].ans.req = r}
Kept(s) == {r \in 1 .. MaxReq : \E i \in DOMAIN recvMsg[s] : recvMsg[s][i].req = r}
Held(s) == {r \in 1 .. MaxReq : \/ cli[s].pc = "send" /\ cli[s].buf = r
                                \/ cli[s].pc = "recv" /\ cli[s].hears /\ Sole(Here(s), r)
                                \/ cli[s].pc = "push" /\ cli[s].got.req = r}
Queued(s) == {r \in 1 .. MaxReq : \E i \in DOMAIN sendMsg[s] : sendMsg[s][i] = r}

Below(A, B) == \A x \in A : \A y \in B : x < y

\* They are in the order they were sent in, behind a request not yet forwarded.
InTurn(A, B, C, D, E) ==
  /\ Below(A, B) /\ Below(A, C) /\ Below(A, D) /\ Below(A, E)
  /\ Below(B, C) /\ Below(B, D) /\ Below(B, E)
  /\ Below(C, D) /\ Below(C, E) /\ Below(D, E)

Started(s) == Told(s) \cup Fetched(s) \cup Kept(s) \cup Held(s) \cup Queued(s)

Ordered(s) ==
  /\ InTurn(Told(s), Fetched(s), Kept(s), Held(s), Queued(s))
  /\ \A r \in Started(s) :
       /\ r <= Len(asked[s])
       /\ wire[Base(s)].to # << >> \/ task[Base(s)].pc = "forward" => r < Len(asked[s])

\* Before a sendrecv has given up on an answer still to come, what is on its way
\* belongs to the request that its task waits for.
Occupied(s) == cli[s].pc \in {"send", "recv", "push"}

Punctual(s) ==
  ~cli[s].late =>
    /\ Fetched(s) \cup Kept(s) \cup Held(s) \cup Queued(s) \subseteq {task[Base(s)].req}
    /\ IF task[Base(s)].pc = "pop"
       THEN /\ ~(sendMsg[s] # << >> /\ Occupied(s))
            /\ ~(sendMsg[s] # << >> /\ recvMsg[s] # << >>)
            /\ ~(recvMsg[s] # << >> /\ Occupied(s))
       ELSE sendMsg[s] = << >> /\ recvMsg[s] = << >> /\ ~Occupied(s)

OwnAnswers(s) ==
  \A i \in DOMAIN answers[s] :
    LET a == answers[s][i] IN
    /\ a.req \in 0 .. i
    /\ a.req = 0 => s \in OgSession /\ a.code = 501
    /\ a.req \notin {0, i} => s \in OgSession /\ cli[s].late
    /\ a.req # 0 => \A j \in 1 .. i - 1 : answers[s][j].code # 405 => answers[s][j].req < a.req

(***************************************************************************)
(* The answers: a name has its address and a route leads there, with the   *)
(* exceptions that Reached names, or the range is exhausted.               *)
(***************************************************************************)
Full(addrs, time) == time # << >> /\ RangeFull(addrs)
NgServes(n) == IF ngNames[n] = NoIp THEN Full(ngAddrs, ngTime) ELSE Reached("NG", ngNames[n])
OgServes(n) == IF ogNames[n] = NoIp THEN Full(ogAddrs, ogTime)
               ELSE ogNames[n] = 0 \/ Reached("OG", ogNames[n])

\* What an answer with code 200 to a REGISTER is worth.
Registers(s, a) == a.req # 0 /\ a.code = 200 /\ asked[s][a.req].method = "register"
NgWorth(s, a) == Registers(s, a) => NgServes(asked[s][a.req].contact)
OgWorth(s, a) ==
  s \in OgSession /\ Registers(s, a) /\ a.whole /\ asked[s][a.req].contact # Absent =>
    OgServes(asked[s][a.req].contact)

\* An answer without a request is the empty one.
Sound(s, a) ==
  /\ a.req \in Asks(s) \cup {0} /\ (a.req = 0 => a.code = 0)
  /\ NgWorth(s, a)

Relayable(s) ==
  /\ Sound(s, cli[s].got)
  /\ \A i \in DOMAIN recvMsg[s] : Sound(s, recvMsg[s][i])

Worths(s) ==
  /\ \A c \in Mine(s) : /\ Sound(s, task[c].ans)
                        /\ \A i \in DOMAIN wire[c].back : Sound(s, wire[c].back[i])
  /\ \A i \in DOMAIN answers[s] :
       /\ answers[s][i].req \in Asks(s) \cup {0}
       /\ NgWorth(s, answers[s][i]) /\ OgWorth(s, answers[s][i])

\* The address a task is about to route to is the one its name has.
Routed(c) ==
  IF Gw(c) = "NG"
  THEN /\ task[c].ip = ToInt(ngNames[Asked(c).contact])
       /\ ngNames[Asked(c).contact] = NoIp => Full(ngAddrs, ngTime)
  ELSE /\ task[c].ans.req # 0
       /\ task[c].ip = ogNames[Echo(c).contact] /\ task[c].ip \notin {0, NoIp}

\* So is the one for the agent called, of an answer without a Contact.
Invited(c) == /\ task[c].ans.req # 0
              /\ task[c].ans.whole => Echo(c).contact = Absent

Routing(s) ==
  \A c \in Mine(s) : /\ Updating(c) => Routed(c)
                     /\ task[c].pc = "inviteAdd" => Invited(c)

(***************************************************************************)
(* The updates of the network gateway's hosts file.                        *)
(***************************************************************************)
Nets == {c \in Conn : Gw(c) = "NG"}
Opening == {d \in Nets : task[d].pc = "dnsOpen"}

\* These are all the names that have an address, but some that an update to come
\* will enter, or that none could be made for.
Lists(names) ==
  /\ names \subseteq Known("NG")
  /\ Known("NG") \subseteq names \cup missed \cup {Asked(d).contact : d \in Opening}

Hosts ==
  ~raced["NG"] =>
    /\ \A c, d \in Nets : InDns(c) /\ InDns(d) => c = d
    /\ \A c \in Nets : InDns(c) => hosts["NG"] = {}
    /\ \A c \in Nets : task[c].pc = "dnsWrite" => Lists(task[c].dns)
    /\ (\A c \in Nets : ~InDns(c)) => Lists(hosts["NG"])

SessionInv(s) ==
  /\ Roles(s) /\ Numbers(s) /\ Turn(s) /\ OwnAnswers(s) /\ Worths(s) /\ Routing(s)

ClientInv(s) ==
  /\ Place(s) /\ Pending(s) /\ Hearing(s) /\ Ordered(s) /\ Punctual(s) /\ Relayable(s)

IInv ==
  /\ TypeOK /\ NG!IInv /\ OG!IInv
  /\ \A s \in Session : SessionInv(s)
  /\ \A s \in OgSession : ClientInv(s)
  /\ Hosts

-----------------------------------------------------------------------------
(***************************************************************************)
(* The two address managers.                                               *)
(***************************************************************************)
PN == INSTANCE LogicalIpAddrMgr_proofs WITH
        Conf <- Leases, MaxClock <- 0, conf <- lease, now <- 0,
        ipByTime <- ngTime, ipByAddr <- ngAddrs, name2ip <- ngNames, reply <- ngReply
PO == INSTANCE LogicalIpAddrMgr_proofs WITH
        Conf <- Leases, MaxClock <- 0, conf <- lease, now <- 0,
        ipByTime <- ogTime, ipByAddr <- ogAddrs, name2ip <- ogNames, reply <- ogReply

\* The manager's own invariant is the one its proofs are about.
LEMMA NgInv == NG!IInv <=> PN!IInv
<1>1. NG!TypeOK <=> PN!TypeOK
  BY DEF NG!TypeOK, PN!TypeOK, NG!Lease, PN!Lease, NG!NoIp, PN!NoIp
<1>2. NG!IndicesAgree <=> PN!IndicesAgree
  BY DEF NG!IndicesAgree, PN!IndicesAgree, NG!Ips, PN!Ips, NG!Ordered, PN!Ordered
<1>3. NG!NoGap <=> PN!NoGap
  BY DEF NG!NoGap, PN!NoGap, NG!Valid, PN!Valid
<1>4. NG!NamesInRange <=> PN!NamesInRange
  BY DEF NG!NamesInRange, PN!NamesInRange, NG!Valid, PN!Valid, NG!NoIp, PN!NoIp
<1> QED BY <1>1, <1>2, <1>3, <1>4 DEF NG!IInv, PN!IInv

\* Its call too is the one its proofs are about.
LEMMA NgCall == ASSUME NEW n \in Name PROVE NG!Generate(n) <=> PN!Generate(n)
<1>1. \A s, e, t : NG!InsertByTime(s, e, t) <=> PN!InsertByTime(s, e, t)
  BY DEF NG!InsertByTime, PN!InsertByTime, NG!InsertAt, PN!InsertAt
<1>2. \A m, ip : NG!Assign(m, ip) <=> PN!Assign(m, ip)
  BY DEF NG!Assign, PN!Assign
<1>3. \A ip : NG!Entry(ip) = PN!Entry(ip)
  BY DEF NG!Entry, PN!Entry
<1>4. /\ NG!Evictable <=> PN!Evictable
      /\ NG!Exhausted <=> PN!Exhausted
      /\ \A ip : NG!Finds(ip) <=> PN!Finds(ip)
      /\ NG!Latest = PN!Latest /\ NG!NoIp = PN!NoIp
  BY DEF NG!Evictable, PN!Evictable, NG!Exhausted, PN!Exhausted, NG!Finds, PN!Finds,
         NG!Latest, PN!Latest, NG!NoIp, PN!NoIp
<1>5. /\ NG!GenerateKnown(n) <=> PN!GenerateKnown(n)
      /\ NG!GenerateRefused(n) <=> PN!GenerateRefused(n)
  BY <1>4 DEF NG!GenerateKnown, PN!GenerateKnown, NG!GenerateRefused, PN!GenerateRefused,
              NG!Refuses, PN!Refuses
<1>6. NG!GenerateFirst(n) <=> PN!GenerateFirst(n)
  BY <1>2, <1>3, <1>4 DEF NG!GenerateFirst, PN!GenerateFirst
<1>7. NG!GenerateEvict(n) <=> PN!GenerateEvict(n)
  BY <1>1, <1>2, <1>3, <1>4 DEF NG!GenerateEvict, PN!GenerateEvict
<1>8. NG!GenerateNew(n) <=> PN!GenerateNew(n)
  BY <1>1, <1>2, <1>3, <1>4 DEF NG!GenerateNew, PN!GenerateNew
<1> QED BY <1>5, <1>6, <1>7, <1>8 DEF NG!Generate, PN!Generate

\* What a call of generateIp does to the network gateway's table.
LEMMA NgGenerate ==
  ASSUME NG!IInv, NEW n \in Name, NG!Generate(n)
  PROVE  /\ NG!IInv' /\ lease' = lease
         /\ ngAddrs \subseteq ngAddrs' /\ ngTime' # << >>
         /\ ngReply'.ip = ngNames'[n]
         /\ \A m \in Name : m # n \/ ngNames[m] # NoIp => ngNames'[m] = ngNames[m]
         /\ ngNames'[n] = NoIp => RangeFull(ngAddrs')
         /\ Full(ngAddrs, ngTime) => ngNames' = ngNames
<1>a. PN!ConfAssumption BY ServerAssumption DEF PN!ConfAssumption
<1>1. PN!IInv /\ PN!Generate(n) BY NgInv, NgCall
<1>2. PN!NoIp = NoIp BY DEF PN!NoIp, NoIp
<1>3. /\ PN!IInv' /\ lease' = lease
      /\ ngAddrs \subseteq ngAddrs' /\ ngTime' # << >>
      /\ ngReply'.ip = ngNames'[n]
      /\ \A m \in Name : m # n \/ ngNames[m] # NoIp => ngNames'[m] = ngNames[m]
      /\ ngNames'[n] = NoIp => lease.first .. lease.last \subseteq ngAddrs'
  BY <1>a, <1>1, <1>2, PN!GenerateEffect
<1>4. Full(ngAddrs, ngTime) => ngNames' = ngNames
  BY <1>a, <1>1, PN!FullRefuses DEF Full, RangeFull
<1>5. NG!IInv' BY <1>3, NgInv, PTL
<1> QED BY <1>3, <1>4, <1>5 DEF RangeFull

\* The same of the operator gateway's manager.
LEMMA OgInv == OG!IInv <=> PO!IInv
<1>1. OG!TypeOK <=> PO!TypeOK
  BY DEF OG!TypeOK, PO!TypeOK, OG!Lease, PO!Lease, OG!NoIp, PO!NoIp
<1>2. OG!IndicesAgree <=> PO!IndicesAgree
  BY DEF OG!IndicesAgree, PO!IndicesAgree, OG!Ips, PO!Ips, OG!Ordered, PO!Ordered
<1>3. OG!NoGap <=> PO!NoGap
  BY DEF OG!NoGap, PO!NoGap, OG!Valid, PO!Valid
<1>4. OG!NamesInRange <=> PO!NamesInRange
  BY DEF OG!NamesInRange, PO!NamesInRange, OG!Valid, PO!Valid, OG!NoIp, PO!NoIp
<1> QED BY <1>1, <1>2, <1>3, <1>4 DEF OG!IInv, PO!IInv

\* The same of the operator gateway's call.
LEMMA OgCall == ASSUME NEW n \in Name PROVE OG!Generate(n) <=> PO!Generate(n)
<1>1. \A s, e, t : OG!InsertByTime(s, e, t) <=> PO!InsertByTime(s, e, t)
  BY DEF OG!InsertByTime, PO!InsertByTime, OG!InsertAt, PO!InsertAt
<1>2. \A m, ip : OG!Assign(m, ip) <=> PO!Assign(m, ip)
  BY DEF OG!Assign, PO!Assign
<1>3. \A ip : OG!Entry(ip) = PO!Entry(ip)
  BY DEF OG!Entry, PO!Entry
<1>4. /\ OG!Evictable <=> PO!Evictable
      /\ OG!Exhausted <=> PO!Exhausted
      /\ \A ip : OG!Finds(ip) <=> PO!Finds(ip)
      /\ OG!Latest = PO!Latest /\ OG!NoIp = PO!NoIp
  BY DEF OG!Evictable, PO!Evictable, OG!Exhausted, PO!Exhausted, OG!Finds, PO!Finds,
         OG!Latest, PO!Latest, OG!NoIp, PO!NoIp
<1>5. /\ OG!GenerateKnown(n) <=> PO!GenerateKnown(n)
      /\ OG!GenerateRefused(n) <=> PO!GenerateRefused(n)
  BY <1>4 DEF OG!GenerateKnown, PO!GenerateKnown, OG!GenerateRefused, PO!GenerateRefused,
              OG!Refuses, PO!Refuses
<1>6. OG!GenerateFirst(n) <=> PO!GenerateFirst(n)
  BY <1>2, <1>3, <1>4 DEF OG!GenerateFirst, PO!GenerateFirst
<1>7. OG!GenerateEvict(n) <=> PO!GenerateEvict(n)
  BY <1>1, <1>2, <1>3, <1>4 DEF OG!GenerateEvict, PO!GenerateEvict
<1>8. OG!GenerateNew(n) <=> PO!GenerateNew(n)
  BY <1>1, <1>2, <1>3, <1>4 DEF OG!GenerateNew, PO!GenerateNew
<1> QED BY <1>5, <1>6, <1>7, <1>8 DEF OG!Generate, PO!Generate

\* What a call of generateIp does to the operator gateway's table.
LEMMA OgGenerate ==
  ASSUME OG!IInv, NEW n \in Name, OG!Generate(n)
  PROVE  /\ OG!IInv' /\ lease' = lease
         /\ ogAddrs \subseteq ogAddrs' /\ ogTime' # << >>
         /\ ogReply'.ip = ogNames'[n]
         /\ \A m \in Name : m # n \/ ogNames[m] # NoIp => ogNames'[m] = ogNames[m]
         /\ ogNames'[n] = NoIp => RangeFull(ogAddrs')
         /\ Full(ogAddrs, ogTime) => ogNames' = ogNames
<1>a. PO!ConfAssumption BY ServerAssumption DEF PO!ConfAssumption
<1>1. PO!IInv /\ PO!Generate(n) BY OgInv, OgCall
<1>2. PO!NoIp = NoIp BY DEF PO!NoIp, NoIp
<1>3. /\ PO!IInv' /\ lease' = lease
      /\ ogAddrs \subseteq ogAddrs' /\ ogTime' # << >>
      /\ ogReply'.ip = ogNames'[n]
      /\ \A m \in Name : m # n \/ ogNames[m] # NoIp => ogNames'[m] = ogNames[m]
      /\ ogNames'[n] = NoIp => lease.first .. lease.last \subseteq ogAddrs'
  BY <1>a, <1>1, <1>2, PO!GenerateEffect
<1>4. Full(ogAddrs, ogTime) => ogNames' = ogNames
  BY <1>a, <1>1, PO!FullRefuses DEF Full, RangeFull
<1>5. OG!IInv' BY <1>3, OgInv, PTL
<1> QED BY <1>3, <1>4, <1>5 DEF RangeFull

-----------------------------------------------------------------------------
(***************************************************************************)
(* The kinds of the state, one entry at a time.                            *)
(***************************************************************************)
TaskRec ==
  [pc: {"recv", "process", "dnsOpen", "dnsRead", "dnsWrite", "route", "routeAdd",
        "forward", "pop", "response", "inviteAdd", "join", "over"},
   req: 0 .. MaxReq, ip: Nat \cup {Broadcast}, dns: SUBSET Name, ans: Answer]
CliRec ==
  [pc: {"connect", "pop", "waiting", "send", "recv", "push", "ended"},
   conn: 0 .. MaxConn, connected: BOOLEAN, stop: BOOLEAN, hears: BOOLEAN,
   some: BOOLEAN, prompt: BOOLEAN, late: BOOLEAN, buf: 0 .. MaxReq, got: Answer]
WireRec == [to: Seq(1 .. MaxReq), back: Seq(Answer),
            link: {"none", "up", "fin", "rst", "closed"}]
RouteRec == [to: Nat \cup {Broadcast}, via: Via]
NetType == /\ routes \in [Gateway -> SUBSET RouteRec]
           /\ missed \subseteq Name /\ unrouted \in [Gateway -> SUBSET (Nat \cup {Broadcast})]
           /\ faults \in 0 .. MaxFault
SendType == /\ sendMsg \in [OgSession -> Seq(1 .. MaxReq)]
            /\ \A s \in OgSession : Len(sendMsg[s]) <= 1
RecvType == /\ recvMsg \in [OgSession -> Seq(Answer)]
            /\ \A s \in OgSession : Len(recvMsg[s]) <= 1

\* The type invariant, by the named kinds.
LEMMA TypeParts ==
  TypeOK <=> /\ cli \in [OgSession -> CliRec] /\ SendType /\ RecvType
             /\ wire \in [Conn -> WireRec] /\ slow \in 0 .. MaxSlow
             /\ NG!TypeOK /\ OG!TypeOK
             /\ task \in [Conn -> TaskRec]
             /\ asked \in [Session -> Seq(Request)] /\ answers \in [Session -> Seq(Answer)]
             /\ hosts \in [Gateway -> SUBSET Name] /\ raced \in [Gateway -> BOOLEAN]
             /\ NetType /\ idle \in 0 .. MaxIdle
BY DEF TypeOK, ClientType, CliRec, SendType, RecvType, WireRec, TaskRec, RouteRec, NetType

\* The elements of a sequence are of its kind.
LEMMA Elements ==
  ASSUME NEW T, NEW x \in Seq(T)
  PROVE  \A i \in DOMAIN x : x[i] \in T
OBVIOUS

\* The fields of a task.
LEMMA TaskFields ==
  ASSUME TypeOK, NEW c \in Conn
  PROVE  /\ task[c] \in TaskRec /\ task[c].req \in 0 .. MaxReq
         /\ task[c].ip \in Nat \cup {Broadcast} /\ task[c].ans \in Answer
         /\ task[c].ans.req \in 0 .. MaxReq
BY TypeParts DEF TaskRec, Answer

\* The fields of a connection.
LEMMA WireFields ==
  ASSUME TypeOK, NEW c \in Conn
  PROVE  /\ wire[c] \in WireRec /\ wire[c].to \in Seq(1 .. MaxReq) /\ wire[c].back \in Seq(Answer)
         /\ \A i \in DOMAIN wire[c].to : wire[c].to[i] \in 1 .. MaxReq
         /\ \A i \in DOMAIN wire[c].back : wire[c].back[i] \in Answer
<1>1. wire[c] \in WireRec BY TypeParts
<1>2. wire[c].to \in Seq(1 .. MaxReq) /\ wire[c].back \in Seq(Answer) BY <1>1 DEF WireRec
<1>3. \A i \in DOMAIN wire[c].to : wire[c].to[i] \in 1 .. MaxReq BY <1>2, Elements
<1>4. \A i \in DOMAIN wire[c].back : wire[c].back[i] \in Answer BY <1>2, Elements
<1> QED BY <1>1, <1>2, <1>3, <1>4

\* The fields of a client, and its two queues.
LEMMA CliFields ==
  ASSUME TypeOK, NEW s \in OgSession
  PROVE  /\ cli[s] \in CliRec /\ cli[s].conn \in 0 .. MaxConn /\ cli[s].got \in Answer
         /\ cli[s].buf \in 0 .. MaxReq
         /\ sendMsg[s] \in Seq(1 .. MaxReq) /\ recvMsg[s] \in Seq(Answer)
         /\ Len(sendMsg[s]) <= 1 /\ Len(recvMsg[s]) <= 1
BY TypeParts DEF CliRec, SendType, RecvType

\* The bounds are numbers, the registrar's sessions are sessions.
LEMMA Bounds == /\ MaxReq \in Nat /\ MaxConn \in Nat /\ MaxSlow \in Nat /\ MaxIdle \in Nat
                /\ MaxFault \in Nat /\ OgSession \subseteq Session /\ EmptyAnswer \in Answer
<1>1. /\ MaxReq \in Nat /\ MaxConn \in Nat /\ MaxSlow \in Nat /\ MaxIdle \in Nat
      /\ MaxFault \in Nat /\ OgSession \subseteq Session
  BY ClientAssumption, ServerAssumption
<1> QED BY <1>1 DEF EmptyAnswer, Answer, Codes

\* A connection is the agent's, or one of its client's.
LEMMA Conns ==
  /\ \A s \in Session : Base(s) \in Conn /\ Base(s)[1] = s /\ Base(s)[2] = 0
  /\ \A s \in OgSession, k \in 0 .. MaxConn : <<s, k>> \in Conn
  /\ \A c \in Conn : /\ c[1] \in Session /\ c[2] \in 0 .. MaxConn /\ c = <<c[1], c[2]>>
                     /\ c[2] = 0 <=> c = Base(c[1])
                     /\ c[2] # 0 => c[1] \in OgSession
<1>1. \A k \in 0 .. MaxConn : k = 0 \/ k \in 1 .. MaxConn BY Bounds
<1>2. MaxConn >= 0 BY Bounds
<1> QED BY <1>1, <1>2, Bounds DEF Conn, Base

\* The connection a client holds is one of its own, and not its agent's.
LEMMA HereConn ==
  ASSUME TypeOK, NEW s \in OgSession
  PROVE  /\ Here(s) \in Conn /\ Here(s)[1] = s /\ Here(s) = <<s, cli[s].conn>>
         /\ cli[s].conn # 0 => Here(s) # Base(s) /\ Here(s)[2] # 0
BY Conns, CliFields DEF Here, Base

\* The gateway of a connection.
LEMMA Gateways ==
  \A c \in Conn : /\ Gw(c) \in Gateway
                  /\ Gw(c) = "OG" <=> c[1] \in OgSession /\ c = Base(c[1])
                  /\ Gw(c) = "NG" <=> ~(c[1] \in OgSession /\ c = Base(c[1]))
BY Conns DEF Gw, Gateway

-----------------------------------------------------------------------------
(***************************************************************************)
(* What a step of a task does.                                             *)
(***************************************************************************)
\* It leaves the other sessions alone, and the other tasks of its own.
Elsewhere(c) ==
  /\ asked' = asked /\ slow' = slow
  /\ \A d \in Conn : d # c => task'[d] = task[d] /\ wire'[d] = wire[d]
  /\ \A s \in Session : s # c[1] => answers'[s] = answers[s]
  /\ \A s \in OgSession : s # c[1] =>
       cli'[s] = cli[s] /\ sendMsg'[s] = sendMsg[s] /\ recvMsg'[s] = recvMsg[s]

\* A network gateway's task has no client, and the agent's answers are those of
\* the agent's connection.
Apart(c) ==
  /\ Gw(c) = "NG" => UNCHANGED <<cli, sendMsg, recvMsg, ogVars>>
  /\ Gw(c) = "OG" => UNCHANGED ngVars
  /\ c[2] # 0 => answers' = answers

\* An answer goes to one connection, or to one agent.
LEMMA DeliverFrame ==
  ASSUME TypeOK, NEW c \in Conn, NEW a, Deliver(c, a)
  PROVE  /\ \A d \in Conn : d # c => wire'[d] = wire[d]
         /\ \A s \in Session : s # c[1] => answers'[s] = answers[s]
         /\ c[2] # 0 => answers' = answers
         /\ c[2] = 0 => wire' = wire
BY TypeParts DEF Deliver

\* A reply ends the request of one task.
LEMMA ReplyFrame ==
  ASSUME TypeOK, NEW c \in Conn, NEW a, Reply(c, a)
  PROVE  /\ \A d \in Conn : d # c => task'[d] = task[d]
         /\ task'[c] = NewTask /\ Deliver(c, a)
BY TypeParts DEF Reply

\* A task's step leaves the other connections and sessions alone.
LEMMA TaskFrame ==
  ASSUME TypeOK, NEW c \in Conn, Roles(c[1]), Task(c)
  PROVE  Elsewhere(c) /\ Apart(c)
<1>t. /\ task \in [Conn -> TaskRec] /\ wire \in [Conn -> WireRec] /\ cli \in [OgSession -> CliRec]
      /\ answers \in [Session -> Seq(Answer)]
      /\ sendMsg \in [OgSession -> Seq(1 .. MaxReq)] /\ recvMsg \in [OgSession -> Seq(Answer)]
  BY TypeParts DEF SendType, RecvType
<1>g. /\ Gw(c) = "NG" \/ Gw(c) = "OG"
      /\ Gw(c) = "OG" => c[1] \in OgSession /\ c[2] = 0
      /\ Gw(c) = "NG" => task[c].pc \notin {"forward", "pop", "response", "inviteAdd", "join"}
  BY Conns, Gateways DEF Roles, Mine, Base
<1>1. CASE Recv(c)
  BY <1>t, <1>1 DEF Recv, Elsewhere, Apart, ngVars, ogVars
<1>2. CASE Close(c)
  <2>1. Gw(c) = "NG" => UNCHANGED cli
    BY <1>2 DEF Close
  <2>2. Gw(c) = "OG" => \A s \in OgSession : s # c[1] => cli'[s] = cli[s]
    BY <1>t, <1>2 DEF Close, Stop
  <2>3. \A d \in Conn : d # c => task'[d] = task[d] /\ wire'[d] = wire[d]
    BY <1>t, <1>2 DEF Close, GoTask
  <2> QED BY <1>g, <1>2, <2>1, <2>2, <2>3 DEF Close, Elsewhere, Apart, ngVars, ogVars
<1>3. CASE \/ Joined(c) \/ DnsOpen(c) \/ DnsFails(c) \/ DnsRead(c) \/ DnsWrite(c)
           \/ RouteDel(c) \/ ResponseInvite(c)
  <2>1. \A d \in Conn : d # c => task'[d] = task[d]
    BY <1>t, <1>3 DEF Joined, DnsOpen, DnsFails, DnsRead, DnsWrite, RouteDel, ResponseInvite, GoTask
  <2>2. UNCHANGED <<cliVars, ngVars, ogVars, asked, answers>>
    BY <1>3 DEF Joined, DnsOpen, DnsFails, DnsRead, DnsWrite, RouteDel, ResponseInvite
  <2> QED BY <2>1, <2>2 DEF Elsewhere, Apart, cliVars
<1>4. CASE Register(c)
  BY <1>t, <1>4 DEF Register, Elsewhere, Apart, cliVars
<1>5. CASE RegisterRefused(c) \/ RegisterEnds(c) \/ RequestEnds(c)
  <2>1. UNCHANGED <<cli, sendMsg, recvMsg, slow, ngVars, ogVars, asked>>
    <3>1. CASE RegisterRefused(c) \/ RegisterEnds(c) BY <3>1 DEF RegisterRefused, RegisterEnds
    <3>2. CASE RequestEnds(c) BY <3>2 DEF RequestEnds
    <3> QED BY <1>5, <3>1, <3>2
  <2>2. PICK a : Reply(c, a)
    <3>1. CASE RegisterRefused(c) \/ RegisterEnds(c) BY <3>1 DEF RegisterRefused, RegisterEnds
    <3>2. CASE RequestEnds(c) BY <3>2 DEF RequestEnds
    <3> QED BY <1>5, <3>1, <3>2
  <2> QED BY <2>1, <2>2, DeliverFrame, ReplyFrame DEF Elsewhere, Apart
<1>6. CASE ForwardPush(c) \/ ForwardFails(c) \/ ForwardPop(c)
  <2>1. \A d \in Conn : d # c => task'[d] = task[d]
    BY <1>t, <1>6 DEF ForwardPush, ForwardFails, ForwardPop, GoTask
  <2>2. UNCHANGED <<ngVars, ogVars, asked, answers, wire, slow>>
    BY <1>6 DEF ForwardPush, ForwardFails, ForwardPop, Push, Pop, PopTimesOut, cliVars
  <2>3. \A s \in OgSession : s # c[1] =>
          cli'[s] = cli[s] /\ sendMsg'[s] = sendMsg[s] /\ recvMsg'[s] = recvMsg[s]
    <3>1. CASE ForwardPush(c) BY <3>1, <1>t DEF ForwardPush, Push
    <3>2. CASE ForwardFails(c) BY <3>2, <1>t DEF ForwardFails, PopTimesOut, cliVars
    <3>3. CASE ForwardPop(c) BY <3>3, <1>t DEF ForwardPop, Pop
    <3> QED BY <1>6, <3>1, <3>2, <3>3
  <2>4. Gw(c) # "NG"
    BY <1>6, <1>g DEF ForwardPush, ForwardFails, ForwardPop, At
  <2> QED BY <1>g, <2>1, <2>2, <2>3, <2>4 DEF Elsewhere, Apart
<1>7. CASE ResponseContact(c)
  <2>1. UNCHANGED <<cli, sendMsg, recvMsg, slow, ngVars, asked>> /\ Gw(c) # "NG"
    BY <1>7, <1>g DEF ResponseContact, At
  <2>2. CASE Reply(c, Relayed(c))
    BY <1>g, <2>1, <2>2, DeliverFrame, ReplyFrame DEF Elsewhere, Apart
  <2>3. CASE ~Reply(c, Relayed(c))
    <3>1. /\ task' = [task EXCEPT ![c].pc = "dnsOpen", ![c].ip = ToInt(ogReply'.ip)]
          /\ UNCHANGED <<wire, answers>>
      BY <1>7, <2>3 DEF ResponseContact
    <3> QED BY <1>g, <1>t, <2>1, <3>1 DEF Elsewhere, Apart
  <2> QED BY <2>2, <2>3
<1>8. CASE ResponseRoute(c) \/ InviteEnds(c) \/ ResponseOther(c)
  <2>1. UNCHANGED <<cli, sendMsg, recvMsg, slow, ngVars, ogVars, asked>> /\ Reply(c, Relayed(c))
    BY <1>8 DEF ResponseRoute, InviteEnds, ResponseOther
  <2> QED BY <2>1, DeliverFrame, ReplyFrame DEF Elsewhere, Apart
<1> QED BY <1>1, <1>2, <1>3, <1>4, <1>5, <1>6, <1>7, <1>8 DEF Task

-----------------------------------------------------------------------------
(***************************************************************************)
(* The type invariant.                                                     *)
(***************************************************************************)
\* The other variables of a step that only some of them change.
Pcs == {"recv", "process", "dnsOpen", "dnsRead", "dnsWrite", "route", "routeAdd",
        "forward", "pop", "response", "inviteAdd", "join", "over"}

\* A task that starts anew is a task.
LEMMA TaskRenew ==
  ASSUME TypeOK, NEW c \in Conn
  PROVE  [task EXCEPT ![c] = NewTask] \in [Conn -> TaskRec]
<1>1. task \in [Conn -> TaskRec] BY TypeParts
<1>2. NewTask \in TaskRec BY Bounds DEF NewTask, TaskRec
<1> QED BY <1>1, <1>2

\* So is one that goes on elsewhere ...
LEMMA TaskPut ==
  ASSUME TypeOK, NEW c \in Conn, NEW p \in Pcs
  PROVE  [task EXCEPT ![c].pc = p] \in [Conn -> TaskRec]
<1>1. task \in [Conn -> TaskRec] BY TypeParts
<1> QED BY <1>1 DEF TaskRec, Pcs

\* ... with a request,
LEMMA TaskPutReq ==
  ASSUME TypeOK, NEW c \in Conn, NEW p \in Pcs, NEW r \in 0 .. MaxReq
  PROVE  [task EXCEPT ![c].pc = p, ![c].req = r] \in [Conn -> TaskRec]
<1>1. task \in [Conn -> TaskRec] BY TypeParts
<1>2. [task[c] EXCEPT !.pc = p, !.req = r] \in TaskRec BY <1>1 DEF TaskRec, Pcs
<1>3. [task EXCEPT ![c].pc = p, ![c].req = r]
        = [task EXCEPT ![c] = [task[c] EXCEPT !.pc = p, !.req = r]] BY <1>1
<1> QED BY <1>1, <1>2, <1>3

\* ... with an address,
LEMMA TaskPutIp ==
  ASSUME TypeOK, NEW c \in Conn, NEW p \in Pcs, NEW x \in Nat \cup {Broadcast}
  PROVE  [task EXCEPT ![c].pc = p, ![c].ip = x] \in [Conn -> TaskRec]
<1>1. task \in [Conn -> TaskRec] BY TypeParts
<1>2. [task[c] EXCEPT !.pc = p, !.ip = x] \in TaskRec BY <1>1 DEF TaskRec, Pcs
<1>3. [task EXCEPT ![c].pc = p, ![c].ip = x]
        = [task EXCEPT ![c] = [task[c] EXCEPT !.pc = p, !.ip = x]] BY <1>1
<1> QED BY <1>1, <1>2, <1>3

\* ... with a copy of the hosts file,
LEMMA TaskPutDns ==
  ASSUME TypeOK, NEW c \in Conn, NEW p \in Pcs, NEW d \in SUBSET Name
  PROVE  [task EXCEPT ![c].pc = p, ![c].dns = d] \in [Conn -> TaskRec]
<1>1. task \in [Conn -> TaskRec] BY TypeParts
<1>2. [task[c] EXCEPT !.pc = p, !.dns = d] \in TaskRec BY <1>1 DEF TaskRec, Pcs
<1>3. [task EXCEPT ![c].pc = p, ![c].dns = d]
        = [task EXCEPT ![c] = [task[c] EXCEPT !.pc = p, !.dns = d]] BY <1>1
<1> QED BY <1>1, <1>2, <1>3

\* ... or with an answer.
LEMMA TaskPutAns ==
  ASSUME TypeOK, NEW c \in Conn, NEW p \in Pcs, NEW a \in Answer
  PROVE  [task EXCEPT ![c].pc = p, ![c].ans = a] \in [Conn -> TaskRec]
<1>1. task \in [Conn -> TaskRec] BY TypeParts
<1>2. [task[c] EXCEPT !.pc = p, !.ans = a] \in TaskRec BY <1>1 DEF TaskRec, Pcs
<1>3. [task EXCEPT ![c].pc = p, ![c].ans = a]
        = [task EXCEPT ![c] = [task[c] EXCEPT !.pc = p, !.ans = a]] BY <1>1
<1> QED BY <1>1, <1>2, <1>3

\* A connection with one part changed is a connection.
LEMMA WirePut ==
  ASSUME TypeOK, NEW c \in Conn
  PROVE  /\ \A x \in Seq(1 .. MaxReq) : [wire EXCEPT ![c].to = x] \in [Conn -> WireRec]
         /\ \A x \in Seq(Answer) : [wire EXCEPT ![c].back = x] \in [Conn -> WireRec]
         /\ \A x \in {"none", "up", "fin", "rst", "closed"} :
              [wire EXCEPT ![c].link = x] \in [Conn -> WireRec]
<1>1. wire \in [Conn -> WireRec] BY TypeParts
<1> QED BY <1>1 DEF WireRec

\* Delivering an answer keeps the kinds.
LEMMA DeliverType ==
  ASSUME TypeOK, NEW c \in Conn, NEW a \in Answer, Deliver(c, a)
  PROVE  wire' \in [Conn -> WireRec] /\ answers' \in [Session -> Seq(Answer)]
<1>1. /\ wire \in [Conn -> WireRec] /\ answers \in [Session -> Seq(Answer)]
      /\ c[1] \in Session
  BY TypeParts, Conns
<1>2. CASE c[2] = 0
  <2>1. Append(answers[c[1]], a) \in Seq(Answer) BY <1>1
  <2> QED BY <1>1, <1>2, <2>1 DEF Deliver
<1>3. CASE c[2] # 0
  <2>1. wire[c].back \in Seq(Answer) BY WireFields
  <2>2. Append(wire[c].back, a) \in Seq(Answer) BY <2>1
  <2>3. PICK x \in Seq(Answer) : wire' = [wire EXCEPT ![c].back = x]
    BY <1>3, <2>1, <2>2 DEF Deliver
  <2>4. answers' = answers BY <1>3 DEF Deliver
  <2> QED BY <1>1, <2>3, <2>4, WirePut
<1> QED BY <1>2, <1>3

\* Replying keeps them.
LEMMA ReplyType ==
  ASSUME TypeOK, NEW c \in Conn, NEW a \in Answer, Reply(c, a)
  PROVE  /\ wire' \in [Conn -> WireRec] /\ answers' \in [Session -> Seq(Answer)]
         /\ task' \in [Conn -> TaskRec]
<1>1. Deliver(c, a) /\ task' = [task EXCEPT ![c] = NewTask] BY DEF Reply
<1>2. wire' \in [Conn -> WireRec] /\ answers' \in [Session -> Seq(Answer)]
  BY <1>1, DeliverType
<1>3. [task EXCEPT ![c] = NewTask] \in [Conn -> TaskRec] BY TaskRenew
<1> QED BY <1>1, <1>2, <1>3

\* The answers that are made.
LEMMA Made ==
  ASSUME TypeOK, NEW c \in Conn
  PROVE  /\ \A code \in Codes : Own(c, code) \in Answer
         /\ Relayed(c) \in Answer
         /\ \A a \in Answer : [a EXCEPT !.whole = FALSE] \in Answer
<1>1. task[c].req \in 0 .. MaxReq /\ task[c].ans \in Answer BY TaskFields
<1>2. \A code \in Codes : Own(c, code) \in Answer BY <1>1 DEF Own, Answer
<1>3. Relayed(c) \in Answer
  BY <1>1 DEF Relayed, Answer, Codes
<1>4. \A a \in Answer : [a EXCEPT !.whole = FALSE] \in Answer BY DEF Answer
<1> QED BY <1>2, <1>3, <1>4

\* The number of an address is one.
LEMMA Numbered == ASSUME NEW x \in Nat \cup {NoIp} PROVE ToInt(x) \in Nat /\ (x = NoIp => ToInt(x) = 0)
BY DEF ToInt, NoIp

\* Deleting a route and adding one keep them.
LEMMA RouteType ==
  ASSUME TypeOK, NEW g \in Gateway, NEW to \in Nat \cup {Broadcast}, NEW via \in Via
  PROVE  DelRoute(g, to) \/ AddRoute(g, to, via) => NetType'
<1>1. NetType BY TypeParts
<1>2. [to |-> to, via |-> via] \in RouteRec BY DEF RouteRec
<1>3. faults' \in {faults, faults + 1} /\ (faults' # faults => faults < MaxFault) => faults' \in 0 .. MaxFault
  BY <1>1, Bounds DEF NetType
<1>4. DelRoute(g, to) => NetType'
  BY <1>1, <1>3 DEF NetType, DelRoute, Fault
<1>5. AddRoute(g, to, via) => NetType'
  BY <1>1, <1>2, <1>3 DEF NetType, AddRoute, Fault
<1> QED BY <1>4, <1>5

\* A request's headers, of a task's request or of one that an answer repeats.
LEMMA Headers ==
  ASSUME TypeOK, NEW s \in Session, NEW r \in Asks(s)
  PROVE  asked[s][r] \in Request /\ asked[s][r].contact \in Name /\ asked[s][r].tunnel \in Via
<1>1. asked[s] \in Seq(Request) BY TypeParts
<1>2. asked[s][r] \in Request BY <1>1 DEF Asks
<1> QED BY <1>2 DEF Name, Via

\* What a task at work has of its request.
LEMMA AskedType ==
  ASSUME TypeOK, NEW c \in Conn, Numbers(c[1]), Busy(c)
  PROVE  Asked(c) \in Request /\ Asked(c).contact \in Name /\ Asked(c).tunnel \in Via
<1>1. c \in Mine(c[1]) /\ c[1] \in Session BY Conns DEF Mine
<1>2. task[c].req \in Asks(c[1]) BY <1>1 DEF Numbers
<1> QED BY <1>1, <1>2, Headers DEF Asked

\* An answer that echoes a request has its headers.
LEMMA EchoType ==
  ASSUME TypeOK, NEW c \in Conn, Worths(c[1]), task[c].ans.req # 0
  PROVE  Echo(c) \in Request /\ Echo(c).contact \in Name /\ Echo(c).tunnel \in Via
<1>1. c \in Mine(c[1]) /\ c[1] \in Session BY Conns DEF Mine
<1>2. task[c].ans.req \in Asks(c[1]) BY <1>1 DEF Worths, Sound
<1> QED BY <1>1, <1>2, Headers DEF Echo

\* The tables' invariants hold while the tables stay as they are.
LEMMA AddrFrame ==
  /\ NG!IInv /\ UNCHANGED ngVars => NG!IInv'
  /\ OG!IInv /\ UNCHANGED ogVars => OG!IInv'
  /\ NG!IInv => NG!TypeOK
  /\ OG!IInv => OG!TypeOK
<1>1. PN!ConfAssumption /\ PO!ConfAssumption
  BY ServerAssumption DEF PN!ConfAssumption, PO!ConfAssumption
<1>2. UNCHANGED ngVars => UNCHANGED PN!vars BY DEF ngVars, PN!vars
<1>3. UNCHANGED ogVars => UNCHANGED PO!vars BY DEF ogVars, PO!vars
<1>4. PN!IInv /\ UNCHANGED PN!vars => PN!IInv' BY <1>1, PN!AddrStep
<1>5. PO!IInv /\ UNCHANGED PO!vars => PO!IInv' BY <1>1, PO!AddrStep
<1>6. NG!IInv /\ UNCHANGED ngVars => NG!IInv' BY <1>2, <1>4, NgInv, PTL
<1>7. OG!IInv /\ UNCHANGED ogVars => OG!IInv' BY <1>3, <1>5, OgInv, PTL
<1>8. (NG!IInv => NG!TypeOK) /\ (OG!IInv => OG!TypeOK) BY DEF NG!IInv, OG!IInv
<1> QED BY <1>6, <1>7, <1>8

\* Of the steps of a task, only two call generateIp, for the name in Contact.
Calls(c) ==
  \/ /\ Register(c) /\ Asked(c).contact \in Name /\ NG!Generate(Asked(c).contact)
     /\ Gw(c) = "NG" /\ UNCHANGED ogVars
  \/ /\ ResponseContact(c) /\ Echo(c).contact \in Name /\ OG!Generate(Echo(c).contact)
     /\ Gw(c) = "OG" /\ UNCHANGED ngVars

\* A task changes a table only by a call of generateIp.
LEMMA TaskCalls ==
  ASSUME TypeOK, NEW c \in Conn, SessionInv(c[1]), Task(c)
  PROVE  Calls(c) \/ UNCHANGED <<ngVars, ogVars>>
<1>s. Roles(c[1]) /\ Numbers(c[1]) /\ Worths(c[1]) /\ c \in Mine(c[1])
  BY Conns DEF SessionInv, Mine
<1>f. Apart(c) BY <1>s, TaskFrame
<1>1. CASE Register(c)
  <2>1. Gw(c) = "NG" /\ NG!Generate(Asked(c).contact) /\ task[c].pc = "process" /\ UNCHANGED ogVars
    BY <1>1 DEF Register, At
  <2>2. Asked(c).contact \in Name
    BY <1>s, <2>1, AskedType DEF Busy
  <2> QED BY <1>1, <2>1, <2>2 DEF Calls
<1>2. CASE ResponseContact(c)
  <2>1. task[c].pc = "response" /\ OG!Generate(Echo(c).contact) /\ TRUE \in HasContact(c)
    BY <1>2 DEF ResponseContact, At
  <2>2. task[c].ans.req # 0
    BY <2>1 DEF HasContact
  <2>3. Echo(c).contact \in Name
    BY <1>s, <2>2, EchoType
  <2>4. Gw(c) = "OG"
    BY <1>s, <2>1, Gateways DEF Roles
  <2> QED BY <1>2, <1>f, <2>1, <2>3, <2>4 DEF Calls, Apart
<1>3. CASE ~Register(c) /\ ~ResponseContact(c)
  <2>1. CASE \/ Recv(c) \/ Close(c) \/ Joined(c) \/ DnsOpen(c) \/ DnsFails(c) \/ DnsRead(c)
             \/ DnsWrite(c) \/ RouteDel(c)
    BY <2>1 DEF Recv, Close, Joined, DnsOpen, DnsFails, DnsRead, DnsWrite, RouteDel
  <2>2. CASE RegisterRefused(c) \/ RegisterEnds(c) BY <2>2 DEF RegisterRefused, RegisterEnds
  <2>3. CASE RequestEnds(c) BY <2>3 DEF RequestEnds
  <2>4. CASE ForwardPush(c) \/ ForwardFails(c) \/ ForwardPop(c)
    BY <2>4 DEF ForwardPush, ForwardFails, ForwardPop
  <2>5. CASE ResponseRoute(c) BY <2>5 DEF ResponseRoute
  <2>6. CASE ResponseInvite(c) \/ InviteEnds(c) \/ ResponseOther(c)
    BY <2>6 DEF ResponseInvite, InviteEnds, ResponseOther
  <2> QED BY <1>3, <2>1, <2>2, <2>3, <2>4, <2>5, <2>6 DEF Task
<1> QED BY <1>1, <1>2, <1>3

\* Its step keeps the tables' invariants.
LEMMA TaskAddrs ==
  ASSUME TypeOK, NG!IInv, OG!IInv, NEW c \in Conn, SessionInv(c[1]), Task(c)
  PROVE  NG!IInv' /\ OG!IInv'
<1>1. Calls(c) \/ UNCHANGED <<ngVars, ogVars>> BY TaskCalls
<1>2. CASE UNCHANGED <<ngVars, ogVars>> BY <1>2, AddrFrame
<1>3. CASE Calls(c)
  <2>1. CASE Register(c) /\ Asked(c).contact \in Name /\ NG!Generate(Asked(c).contact) /\ UNCHANGED ogVars
    BY <2>1, NgGenerate, AddrFrame
  <2>2. CASE Echo(c).contact \in Name /\ OG!Generate(Echo(c).contact) /\ UNCHANGED ngVars
    BY <2>2, OgGenerate, AddrFrame
  <2> QED BY <1>3, <2>1, <2>2 DEF Calls
<1> QED BY <1>1, <1>2, <1>3

\* The head and the tail of a sequence.
LEMMA HeadTail ==
  ASSUME NEW T, NEW x \in Seq(T), x # << >>
  PROVE  /\ Head(x) \in T /\ Tail(x) \in Seq(T) /\ Head(x) = x[1] /\ 1 \in DOMAIN x
         /\ \A i \in DOMAIN Tail(x) : i + 1 \in DOMAIN x /\ Tail(x)[i] = x[i + 1]
OBVIOUS

\* The type invariant after a step, by the named kinds.
LEMMA TypeNext ==
  ASSUME cli' \in [OgSession -> CliRec], SendType', RecvType',
         wire' \in [Conn -> WireRec], slow' \in 0 .. MaxSlow,
         NG!IInv', OG!IInv', task' \in [Conn -> TaskRec],
         asked' \in [Session -> Seq(Request)], answers' \in [Session -> Seq(Answer)],
         hosts' \in [Gateway -> SUBSET Name], raced' \in [Gateway -> BOOLEAN],
         NetType', idle' \in 0 .. MaxIdle
  PROVE  TypeOK'
<1>1. NG!TypeOK' /\ OG!TypeOK' BY AddrFrame, PTL
<1> QED BY <1>1 DEF TypeOK, ClientType, CliRec, SendType, RecvType, WireRec, TaskRec, RouteRec, NetType

\* A client with a flag changed is a client.
LEMMA CliPut ==
  ASSUME TypeOK, NEW s \in OgSession, NEW b \in BOOLEAN
  PROVE  /\ [cli EXCEPT ![s].stop = b] \in [OgSession -> CliRec]
         /\ [cli EXCEPT ![s].prompt = b] \in [OgSession -> CliRec]
         /\ [cli EXCEPT ![s].late = b] \in [OgSession -> CliRec]
<1>1. cli \in [OgSession -> CliRec] BY TypeParts
<1> QED BY <1>1 DEF CliRec

\* A queue of at most one.
LEMMA SendPut ==
  ASSUME TypeOK, NEW s \in OgSession, NEW q \in Seq(1 .. MaxReq), Len(q) <= 1,
         sendMsg' = [sendMsg EXCEPT ![s] = q]
  PROVE  SendType'
BY TypeParts DEF SendType

\* The other queue takes at most one message as well.
LEMMA RecvPut ==
  ASSUME TypeOK, NEW s \in OgSession, NEW q \in Seq(Answer), Len(q) <= 1,
         recvMsg' = [recvMsg EXCEPT ![s] = q]
  PROVE  RecvType'
BY TypeParts DEF RecvType

\* A name is resolved to an address, or to the broadcast one.
LEMMA ResolvedType ==
  ASSUME OG!IInv, NEW n PROVE \A ip \in Resolved(n) : ip \in Nat \cup {Broadcast}
<1>1. OG!TypeOK BY AddrFrame
<1>2. ogNames \in [Name -> Nat \cup {NoIp}] BY <1>1 DEF OG!TypeOK, OG!NoIp, NoIp
<1>3. \A m \in Known("OG") : m \in Name /\ ogNames[m] # NoIp BY DEF Known
<1> QED BY <1>2, <1>3 DEF Resolved

\* A task's step keeps the kinds of the routes and of what failed.
LEMMA TaskNet ==
  ASSUME TypeOK, NG!IInv, OG!IInv, NEW c \in Conn, SessionInv(c[1]), Task(c)
  PROVE  NetType'
<1>t. NetType /\ task[c].ip \in Nat \cup {Broadcast} BY TypeParts, TaskFields
<1>s. /\ Roles(c[1]) /\ Numbers(c[1]) /\ Worths(c[1]) /\ Routing(c[1])
      /\ c \in Mine(c[1]) /\ Gw(c) \in Gateway /\ "NG" \in Gateway /\ "OG" \in Gateway
  BY Conns, Gateways DEF SessionInv, Mine, Gateway
<1>v. "peer" \in Via BY DEF Via
<1>1. CASE DnsOpen(c)
  BY <1>t, <1>1 DEF DnsOpen, NetType
<1>2. CASE DnsFails(c)
  <2>1. task[c].pc = "dnsOpen" BY <1>2 DEF DnsFails, At
  <2>2. Gw(c) = "NG" => Asked(c).contact \in Name BY <1>s, <2>1, AskedType DEF Busy
  <2>3. faults' \in 0 .. MaxFault BY <1>t, <1>2, Bounds DEF DnsFails, Fault, NetType
  <2> QED BY <1>t, <1>2, <2>2, <2>3 DEF DnsFails, NetType
<1>3. CASE Register(c)
  <2>1. task[c].pc = "process" BY <1>3 DEF Register, At
  <2>2. Asked(c).contact \in Name BY <1>s, <2>1, AskedType DEF Busy
  <2> QED BY <1>t, <1>3, <2>2 DEF Register, NetType
<1>4. CASE RouteDel(c)
  BY <1>t, <1>s, <1>v, <1>4, RouteType DEF RouteDel
<1>5. CASE RegisterEnds(c)
  <2>1. task[c].pc = "routeAdd" BY <1>5 DEF RegisterEnds, At
  <2>2. Asked(c).tunnel \in Via BY <1>s, <2>1, AskedType DEF Busy
  <2> QED BY <1>t, <1>s, <1>v, <1>5, <2>2, RouteType DEF RegisterEnds
<1>6. CASE ResponseRoute(c)
  BY <1>t, <1>s, <1>v, <1>6, RouteType DEF ResponseRoute
<1>7. CASE ResponseInvite(c)
  BY <1>s, <1>v, <1>7, ResolvedType, RouteType DEF ResponseInvite
<1>8. CASE InviteEnds(c)
  <2>1. task[c].ans.req # 0 BY <1>s, <1>8 DEF InviteEnds, At, Routing, Invited
  <2>2. Echo(c).tunnel \in Via BY <1>s, <2>1, EchoType
  <2> QED BY <1>t, <1>s, <1>8, <2>2, RouteType DEF InviteEnds
<1>9. CASE UNCHANGED <<routes, auxVars>>
  BY <1>t, <1>9 DEF NetType, auxVars
<1>10. CASE Recv(c) \/ Close(c) \/ Joined(c) \/ DnsRead(c) \/ DnsWrite(c)
  BY <1>9, <1>10 DEF Recv, Close, Joined, DnsRead, DnsWrite
<1>11. CASE RegisterRefused(c) \/ RequestEnds(c)
  BY <1>9, <1>11 DEF RegisterRefused, RequestEnds
<1>12. CASE ForwardPush(c) \/ ForwardFails(c) \/ ForwardPop(c)
  BY <1>9, <1>12 DEF ForwardPush, ForwardFails, ForwardPop
<1>13. CASE ResponseContact(c) \/ ResponseOther(c)
  BY <1>9, <1>13 DEF ResponseContact, ResponseOther
<1> QED BY <1>1, <1>2, <1>3, <1>4, <1>5, <1>6, <1>7, <1>8, <1>10, <1>11, <1>12, <1>13 DEF Task

\* A task's step keeps the kinds.
LEMMA TypeTask ==
  ASSUME TypeOK, NG!IInv, OG!IInv, NEW c \in Conn, SessionInv(c[1]), Task(c)
  PROVE  TypeOK'
<1>t. /\ cli \in [OgSession -> CliRec] /\ SendType /\ RecvType
      /\ wire \in [Conn -> WireRec] /\ slow \in 0 .. MaxSlow /\ task \in [Conn -> TaskRec]
      /\ asked \in [Session -> Seq(Request)] /\ answers \in [Session -> Seq(Answer)]
      /\ hosts \in [Gateway -> SUBSET Name] /\ raced \in [Gateway -> BOOLEAN]
      /\ NetType /\ idle \in 0 .. MaxIdle
  BY TypeParts
<1>s. Roles(c[1]) /\ Numbers(c[1]) /\ Worths(c[1]) /\ c \in Mine(c[1]) /\ c[1] \in Session
  BY Conns DEF SessionInv, Mine
<1>g. /\ Gw(c) \in Gateway /\ "NG" \in Gateway /\ "OG" \in Gateway
      /\ Gw(c) = "OG" => c[1] \in OgSession
      /\ task[c].pc \in {"forward", "pop", "response", "inviteAdd", "join"} => Gw(c) = "OG"
  BY <1>s, Gateways DEF Gateway, Roles
<1>a. NG!IInv' /\ OG!IInv' BY TaskAddrs
<1>n. NetType' BY TaskNet
<1>u. UNCHANGED <<sendMsg, recvMsg>> => SendType' /\ RecvType'
  BY <1>t DEF SendType, RecvType
<1>1. CASE Recv(c)
  <2>1. /\ wire' = [wire EXCEPT ![c].to = Tail(wire[c].to)] /\ wire[c].to # << >>
        /\ task' = [task EXCEPT ![c].pc = IF Gw(c) = "OG" THEN "forward" ELSE "process",
                                ![c].req = Head(wire[c].to)]
        /\ UNCHANGED <<cli, sendMsg, recvMsg, slow, asked, answers, hosts, raced, idle>>
    BY <1>1 DEF Recv
  <2>2. wire[c].to \in Seq(1 .. MaxReq) BY WireFields
  <2>3. Head(wire[c].to) \in 1 .. MaxReq /\ Tail(wire[c].to) \in Seq(1 .. MaxReq)
    BY <2>1, <2>2, HeadTail
  <2>4. Head(wire[c].to) \in 0 .. MaxReq BY <2>3
  <2>5. wire' \in [Conn -> WireRec] BY <2>1, <2>3, WirePut
  <2>6. task' \in [Conn -> TaskRec] BY <2>1, <2>4, TaskPutReq DEF Pcs
  <2> QED BY <1>a, <1>t, <1>u, <2>1, <2>5, <2>6, <1>n, TypeNext
<1>2. CASE Close(c)
  <2>1. UNCHANGED <<sendMsg, recvMsg, slow, asked, answers, hosts, raced>>
    BY <1>2 DEF Close
  <2>2. wire' \in [Conn -> WireRec]
    <3>1. UNCHANGED wire \/ wire' = [wire EXCEPT ![c].link = "fin"] BY <1>2 DEF Close
    <3>2. [wire EXCEPT ![c].link = "fin"] \in [Conn -> WireRec] BY WirePut
    <3> QED BY <1>t, <3>1, <3>2
  <2>3. task' \in [Conn -> TaskRec]
    <3>1. PICK p \in {"join", "over"} : task' = [task EXCEPT ![c].pc = p]
      BY <1>2 DEF Close, GoTask
    <3>2. p \in Pcs BY DEF Pcs
    <3> QED BY <3>1, <3>2, TaskPut
  <2>4. cli' \in [OgSession -> CliRec]
    <3>1. CASE Gw(c) = "OG"
      <4>1. cli' = [cli EXCEPT ![c[1]].stop = TRUE] BY <1>2, <3>1 DEF Close, Stop
      <4> QED BY <1>g, <3>1, <4>1, CliPut
    <3>2. CASE Gw(c) # "OG"
      BY <1>2, <1>t, <3>2 DEF Close
    <3> QED BY <3>1, <3>2
  <2>5. idle' \in 0 .. MaxIdle
    <3>1. idle' = idle \/ (idle < MaxIdle /\ idle' = idle + 1) BY <1>2 DEF Close
    <3> QED BY <1>t, <3>1, Bounds
  <2> QED BY <1>a, <1>t, <1>u, <2>1, <2>2, <2>3, <2>4, <2>5, <1>n, TypeNext
<1>3. CASE Joined(c)
  <2>1. task' \in [Conn -> TaskRec]
    BY <1>3, TaskPut DEF Joined, GoTask, Pcs
  <2>2. UNCHANGED <<cli, sendMsg, recvMsg, wire, slow, asked, answers, hosts, raced, idle>>
    BY <1>3 DEF Joined, cliVars
  <2> QED BY <1>a, <1>t, <1>u, <2>1, <2>2, <1>n, TypeNext
<1>4. CASE DnsOpen(c)
  <2>1. task' \in [Conn -> TaskRec]
    BY <1>4, TaskPut DEF DnsOpen, GoTask, Pcs
  <2>2. UNCHANGED <<cli, sendMsg, recvMsg, wire, slow, asked, answers, idle>>
    BY <1>4 DEF DnsOpen, cliVars
  <2>3. hosts' \in [Gateway -> SUBSET Name]
    BY <1>4, <1>t, <1>g DEF DnsOpen
  <2>4. raced' \in [Gateway -> BOOLEAN]
    <3>1. Overlaps(c) \in BOOLEAN BY DEF Overlaps
    <3> QED BY <1>4, <1>t, <1>g, <3>1 DEF DnsOpen
  <2> QED BY <1>a, <1>t, <1>u, <2>1, <2>2, <2>3, <2>4, <1>n, TypeNext
<1>5. CASE DnsRead(c)
  <2>1. task' = [task EXCEPT ![c].pc = "dnsWrite", ![c].dns = Known(Gw(c))]
    BY <1>5 DEF DnsRead
  <2>2. Known(Gw(c)) \in SUBSET Name BY DEF Known
  <2>3. task' \in [Conn -> TaskRec]
    BY <2>1, <2>2, TaskPutDns DEF Pcs
  <2>4. UNCHANGED <<cli, sendMsg, recvMsg, wire, slow, asked, answers, hosts, raced, idle>>
    BY <1>5 DEF DnsRead, cliVars
  <2> QED BY <1>a, <1>t, <1>u, <2>3, <2>4, <1>n, TypeNext
<1>6. CASE DnsWrite(c)
  <2>1. task' = [task EXCEPT ![c].pc = "route", ![c].dns = {}]
    BY <1>6 DEF DnsWrite
  <2>2. {} \in SUBSET Name OBVIOUS
  <2>3. task' \in [Conn -> TaskRec]
    BY <2>1, <2>2, TaskPutDns DEF Pcs
  <2>4. UNCHANGED <<cli, sendMsg, recvMsg, wire, slow, asked, answers, raced, idle>>
    BY <1>6 DEF DnsWrite, cliVars
  <2>5. PICK left \in SUBSET (hosts[Gw(c)] \ task[c].dns) :
               hosts' = [hosts EXCEPT ![Gw(c)] = task[c].dns \cup left]
    BY <1>6 DEF DnsWrite
  <2>6. task[c].dns \in SUBSET Name BY <1>t DEF TaskRec
  <2>7. task[c].dns \cup left \in SUBSET Name BY <1>g, <1>t, <2>5, <2>6
  <2>8. hosts' \in [Gateway -> SUBSET Name] BY <1>g, <1>t, <2>5, <2>7
  <2> QED BY <1>a, <1>t, <1>u, <2>3, <2>4, <2>8, <1>n, TypeNext
<1>7. CASE Register(c)
  <2>1. NG!TypeOK' BY <1>a, AddrFrame, PTL
  <2>2. ToInt(ngReply'.ip) \in Nat \cup {Broadcast} BY <2>1, Numbered DEF NG!TypeOK, NG!NoIp, NoIp
  <2>3. task' = [task EXCEPT ![c].pc = IF ToInt(ngReply'.ip) = 0 THEN "route" ELSE "dnsOpen",
                             ![c].ip = ToInt(ngReply'.ip)]
    BY <1>7, <1>t DEF Register
  <2>4. task' \in [Conn -> TaskRec]
    BY <2>2, <2>3, TaskPutIp DEF Pcs
  <2>5. UNCHANGED <<cli, sendMsg, recvMsg, wire, slow, asked, answers, hosts, raced, idle>>
    BY <1>7 DEF Register, cliVars
  <2> QED BY <1>a, <1>t, <1>u, <2>4, <2>5, <1>n, TypeNext
<1>8. CASE RegisterRefused(c) \/ RegisterEnds(c)
  <2>1. UNCHANGED <<cli, sendMsg, recvMsg, slow, asked, hosts, raced, idle>>
    BY <1>8 DEF RegisterRefused, RegisterEnds
  <2>2. PICK code \in Codes : Reply(c, Own(c, code))
    BY <1>8 DEF RegisterRefused, RegisterEnds, Codes
  <2>3. /\ wire' \in [Conn -> WireRec] /\ answers' \in [Session -> Seq(Answer)]
        /\ task' \in [Conn -> TaskRec]
    BY <2>2, Made, ReplyType
  <2> QED BY <1>a, <1>t, <1>u, <2>1, <2>3, <1>n, TypeNext
<1>9. CASE RequestEnds(c)
  <2>1. UNCHANGED <<cli, sendMsg, recvMsg, slow, asked, hosts, raced, idle>>
    BY <1>9 DEF RequestEnds
  <2>2. PICK code \in Codes : Reply(c, Own(c, code))
    BY <1>9 DEF RequestEnds, Codes
  <2>3. /\ wire' \in [Conn -> WireRec] /\ answers' \in [Session -> Seq(Answer)]
        /\ task' \in [Conn -> TaskRec]
    BY <2>2, Made, ReplyType
  <2> QED BY <1>a, <1>t, <1>u, <2>1, <2>3, <1>n, TypeNext
<1>10. CASE ForwardPush(c)
  <2>1. /\ UNCHANGED <<recvMsg, wire, slow, asked, answers, hosts, raced, idle>>
        /\ sendMsg' = [sendMsg EXCEPT ![c[1]] = IF @ = << >> THEN <<task[c].req>> ELSE @]
        /\ cli' = [cli EXCEPT ![c[1]].prompt = cli[c[1]].pc \in {"pop", "waiting"}]
        /\ GoTask(c, "pop") /\ task[c].pc = "forward"
    BY <1>10 DEF ForwardPush, Push, At
  <2>2. c[1] \in OgSession BY <1>g, <2>1
  <2>3. task[c].req \in 1 .. MaxReq
    <3>1. task[c].req \in Asks(c[1]) /\ task[c].req \in 0 .. MaxReq
      BY <1>s, <2>1, TaskFields DEF Numbers, Busy
    <3> QED BY <3>1, Bounds DEF Asks
  <2>4. SendType'
    <3> DEFINE q == IF sendMsg[c[1]] = << >> THEN <<task[c].req>> ELSE sendMsg[c[1]]
    <3>1. q \in Seq(1 .. MaxReq) /\ Len(q) <= 1
      <4>1. /\ sendMsg[c[1]] \in Seq(1 .. MaxReq) /\ Len(sendMsg[c[1]]) <= 1
        BY <2>2, CliFields
      <4>2. <<task[c].req>> \in Seq(1 .. MaxReq) /\ Len(<<task[c].req>>) <= 1
        BY <2>3
      <4> QED BY <4>1, <4>2
    <3>2. sendMsg' = [sendMsg EXCEPT ![c[1]] = q]
      BY <2>1, <2>2, <1>t DEF SendType
    <3> HIDE DEF q
    <3> QED BY <2>2, <3>1, <3>2, SendPut
  <2>5. cli' \in [OgSession -> CliRec]
    <3>1. (cli[c[1]].pc \in {"pop", "waiting"}) \in BOOLEAN OBVIOUS
    <3> QED BY <2>1, <2>2, <3>1, CliPut
  <2>6. task' \in [Conn -> TaskRec] BY <2>1, TaskPut DEF GoTask, Pcs
  <2>7. RecvType' BY <1>t, <2>1 DEF RecvType
  <2> QED BY <1>a, <1>t, <2>1, <2>4, <2>5, <2>6, <2>7, <1>n, TypeNext
<1>11. CASE ForwardFails(c)
  <2>1. UNCHANGED <<sendMsg, recvMsg, wire, slow, asked, answers, hosts, raced, idle>>
    BY <1>11 DEF ForwardFails, PopTimesOut, cliVars
  <2>2. c[1] \in OgSession BY <1>11, <1>g DEF ForwardFails, At
  <2>3. cli' \in [OgSession -> CliRec]
    <3>1. CASE UNCHANGED cli BY <1>t, <3>1
    <3>2. CASE PopTimesOut(c[1])
      <4> DEFINE b == \/ cli[c[1]].late \/ cli[c[1]].pc \in {"send", "recv", "push"}
                      \/ sendMsg[c[1]] # << >>
      <4>1. cli' = [cli EXCEPT ![c[1]].late = b]
        BY <1>t, <2>2, <3>2 DEF PopTimesOut, CliRec
      <4>2. b \in BOOLEAN OBVIOUS
      <4> HIDE DEF b
      <4> QED BY <2>2, <4>1, <4>2, CliPut
    <3> QED BY <1>11, <3>1, <3>2 DEF ForwardFails, cliVars
  <2>4. task' \in [Conn -> TaskRec] BY <1>11, TaskPut DEF ForwardFails, GoTask, Pcs
  <2> QED BY <1>a, <1>t, <1>u, <2>1, <2>3, <2>4, <1>n, TypeNext
<1>12. CASE ForwardPop(c)
  <2>1. /\ UNCHANGED <<cli, sendMsg, wire, slow, asked, answers, hosts, raced, idle>>
        /\ recvMsg[c[1]] # << >> /\ recvMsg' = [recvMsg EXCEPT ![c[1]] = << >>]
        /\ task' = [task EXCEPT ![c].pc = "response", ![c].ans = Head(recvMsg[c[1]])]
        /\ task[c].pc = "pop"
    BY <1>12 DEF ForwardPop, Pop, At
  <2>2. c[1] \in OgSession BY <1>g, <2>1
  <2>3. Head(recvMsg[c[1]]) \in Answer BY <2>1, <2>2, CliFields
  <2>4. task' \in [Conn -> TaskRec] BY <2>1, <2>3, TaskPutAns DEF Pcs
  <2>5. << >> \in Seq(Answer) /\ Len(<< >>) <= 1 OBVIOUS
  <2>6. RecvType' BY <2>1, <2>2, <2>5, RecvPut
  <2>7. SendType' BY <1>t, <2>1 DEF SendType
  <2> QED BY <1>a, <1>t, <2>1, <2>4, <2>6, <2>7, <1>n, TypeNext
<1>13. CASE ResponseContact(c)
  <2>1. UNCHANGED <<cli, sendMsg, recvMsg, slow, asked, hosts, raced, idle>>
    BY <1>13 DEF ResponseContact
  <2>2. /\ wire' \in [Conn -> WireRec] /\ answers' \in [Session -> Seq(Answer)]
        /\ task' \in [Conn -> TaskRec]
    <3>1. CASE Reply(c, Relayed(c)) BY <3>1, Made, ReplyType
    <3>2. CASE ~Reply(c, Relayed(c))
      <4>1. /\ task' = [task EXCEPT ![c].pc = "dnsOpen", ![c].ip = ToInt(ogReply'.ip)]
            /\ UNCHANGED <<wire, answers>>
        BY <1>13, <3>2 DEF ResponseContact
      <4>2. OG!TypeOK' BY <1>a, AddrFrame, PTL
      <4>3. ToInt(ogReply'.ip) \in Nat \cup {Broadcast}
        BY <4>2, Numbered DEF OG!TypeOK, OG!NoIp, NoIp
      <4>4. task' \in [Conn -> TaskRec] BY <4>1, <4>3, TaskPutIp DEF Pcs
      <4> QED BY <1>t, <4>1, <4>4
    <3> QED BY <3>1, <3>2
  <2> QED BY <1>a, <1>t, <1>u, <2>1, <2>2, <1>n, TypeNext
<1>14. CASE ResponseRoute(c) \/ InviteEnds(c) \/ ResponseOther(c)
  <2>1. UNCHANGED <<cli, sendMsg, recvMsg, slow, asked, hosts, raced, idle>>
    BY <1>14 DEF ResponseRoute, InviteEnds, ResponseOther
  <2>2. /\ wire' \in [Conn -> WireRec] /\ answers' \in [Session -> Seq(Answer)]
        /\ task' \in [Conn -> TaskRec]
    BY <1>14, Made, ReplyType DEF ResponseRoute, InviteEnds, ResponseOther
  <2> QED BY <1>a, <1>t, <1>u, <2>1, <2>2, <1>n, TypeNext
<1>15. CASE DnsFails(c) \/ RouteDel(c)
  <2>0. PICK p \in {"route", "routeAdd"} : task' = [task EXCEPT ![c].pc = p]
    BY <1>15 DEF DnsFails, RouteDel, GoTask
  <2>a. p \in Pcs BY DEF Pcs
  <2>1. task' \in [Conn -> TaskRec] BY <1>t, <2>0, <2>a, TaskPut
  <2>2. UNCHANGED <<cli, sendMsg, recvMsg, wire, slow, asked, answers, hosts, raced, idle>>
    BY <1>15 DEF DnsFails, RouteDel, cliVars
  <2> QED BY <1>a, <1>t, <1>u, <2>1, <2>2, <1>n, TypeNext
<1>16. CASE ResponseInvite(c)
  <2>1. PICK ip \in Resolved(Echo(c).to) : task' = [task EXCEPT ![c].pc = "inviteAdd", ![c].ip = ip]
    BY <1>16 DEF ResponseInvite
  <2>2. ip \in Nat \cup {Broadcast} BY <2>1, ResolvedType
  <2>3. task' \in [Conn -> TaskRec] BY <2>1, <2>2, TaskPutIp DEF Pcs
  <2>4. UNCHANGED <<cli, sendMsg, recvMsg, wire, slow, asked, answers, hosts, raced, idle>>
    BY <1>16 DEF ResponseInvite, cliVars
  <2> QED BY <1>a, <1>t, <1>u, <2>3, <2>4, <1>n, TypeNext
<1> QED BY <1>1, <1>2, <1>3, <1>4, <1>5, <1>6, <1>7, <1>8, <1>9, <1>10, <1>11, <1>12, <1>13,
           <1>14, <1>15, <1>16 DEF Task

-----------------------------------------------------------------------------
(***************************************************************************)
(* What a step of a client does, entry by entry.                           *)
(***************************************************************************)
\* It leaves the other sessions alone, and all connections but its own.
ClientFrame(s) ==
  /\ UNCHANGED serverVars
  /\ \A x \in OgSession : x # s =>
       cli'[x] = cli[x] /\ sendMsg'[x] = sendMsg[x] /\ recvMsg'[x] = recvMsg[x]
  /\ \A d \in Conn : d \notin {Here(s), <<s, cli[s].conn + 1>>} => wire'[d] = wire[d]
  /\ \A d \in Conn : d[2] = 0 => wire'[d] = wire[d]

\* Nothing is put on a connection or taken from it.
Still(s) == \A d \in Conn : wire'[d].to = wire[d].to /\ wire'[d].back = wire[d].back

\* What a client leaves behind with a connection.
LEMMA LeaveEffect ==
  ASSUME TypeOK, NEW s \in OgSession, Place(s),
         NEW p \in {"connect", "ended"}, Leave(s, p)
  PROVE  /\ cli' = [cli EXCEPT ![s] = [cli[s] EXCEPT !.pc = p, !.connected = FALSE,
                       !.some = FALSE, !.buf = 0, !.got = EmptyAnswer]]
         /\ cli' \in [OgSession -> CliRec] /\ wire' \in [Conn -> WireRec]
         /\ \A d \in Conn : d # Here(s) \/ d[2] = 0 => wire'[d] = wire[d]
         /\ Still(s)
<1>t. cli \in [OgSession -> CliRec] /\ wire \in [Conn -> WireRec] BY TypeParts
<1>h. Here(s) \in Conn /\ (cli[s].conn # 0 => Here(s)[2] # 0) BY HereConn
<1>1. cli' = [cli EXCEPT ![s] = [cli[s] EXCEPT !.pc = p, !.connected = FALSE,
                       !.some = FALSE, !.buf = 0, !.got = EmptyAnswer]]
  BY <1>t DEF Leave, CliRec
<1>2. [cli[s] EXCEPT !.pc = p, !.connected = FALSE,
                     !.some = FALSE, !.buf = 0, !.got = EmptyAnswer] \in CliRec
  <2>1. cli[s] \in CliRec /\ 0 \in 0 .. MaxReq /\ EmptyAnswer \in Answer BY <1>t, Bounds
  <2> QED BY <2>1 DEF CliRec
<1>3. cli' \in [OgSession -> CliRec] BY <1>t, <1>1, <1>2
<1>4. \/ cli[s].conn # 0 /\ wire' = [wire EXCEPT ![Here(s)].link = "closed"]
      \/ wire' = wire
  BY <1>t, <1>h DEF Leave, WireRec
<1>5. [wire EXCEPT ![Here(s)].link = "closed"] \in [Conn -> WireRec] BY <1>h, WirePut
<1>6. wire' \in [Conn -> WireRec] BY <1>t, <1>4, <1>5
<1>7. \A d \in Conn : d # Here(s) \/ d[2] = 0 => wire'[d] = wire[d] BY <1>t, <1>h, <1>4
<1>8. Still(s)
  <2>1. \A d \in Conn : d # Here(s) => wire'[d] = wire[d] BY <1>7
  <2>2. wire'[Here(s)].to = wire[Here(s)].to /\ wire'[Here(s)].back = wire[Here(s)].back
    BY <1>t, <1>h, <1>4 DEF WireRec
  <2> QED BY <2>1, <2>2 DEF Still
<1> QED BY <1>1, <1>3, <1>6, <1>7, <1>8

\* A client's step leaves the other sessions and its agent's connection alone.
LEMMA ClientFrames ==
  ASSUME TypeOK, NEW s \in OgSession, Place(s),
         Client(s) \/ Wake(s), UNCHANGED serverVars
  PROVE  ClientFrame(s)
<1>t. /\ cli \in [OgSession -> CliRec] /\ wire \in [Conn -> WireRec]
      /\ sendMsg \in [OgSession -> Seq(1 .. MaxReq)] /\ recvMsg \in [OgSession -> Seq(Answer)]
  BY TypeParts DEF SendType, RecvType
<1>h. Here(s) \in Conn /\ (cli[s].conn # 0 => Here(s)[2] # 0) BY HereConn
<1>l. ASSUME NEW p \in {"connect", "ended"}, Leave(s, p)
      PROVE  /\ \A x \in OgSession : x # s => cli'[x] = cli[x]
             /\ \A d \in Conn : d # Here(s) \/ d[2] = 0 => wire'[d] = wire[d]
  <2> DEFINE r == [cli[s] EXCEPT !.pc = p, !.connected = FALSE,
                                 !.some = FALSE, !.buf = 0, !.got = EmptyAnswer]
  <2>1. cli' = [cli EXCEPT ![s] = r] BY <1>l, LeaveEffect, Zenon
  <2>2. \A d \in Conn : d # Here(s) \/ d[2] = 0 => wire'[d] = wire[d] BY <1>l, LeaveEffect, Zenon
  <2> HIDE DEF r
  <2> QED BY <1>t, <2>1, <2>2
<1>1. CASE Connect(s)
  <2>a. cli[s].conn < MaxConn /\ cli[s].conn \in 0 .. MaxConn BY <1>1, CliFields DEF Connect
  <2>b. cli[s].conn + 1 \in 1 .. MaxConn BY <2>a, Bounds
  <2>1. /\ cli[s].conn + 1 \in 1 .. MaxConn
        /\ wire' = [wire EXCEPT ![<<s, cli[s].conn + 1>>].link = "up"]
        /\ UNCHANGED <<sendMsg, recvMsg>>
    BY <1>1, <2>b DEF Connect
  <2>2. \A x \in OgSession : x # s => cli'[x] = cli[x] BY <1>1, <1>t DEF Connect
  <2>3. \A d \in Conn : d # <<s, cli[s].conn + 1>> => wire'[d] = wire[d] BY <1>t, <2>1
  <2>4. \A d \in Conn : d[2] = 0 => d # <<s, cli[s].conn + 1>> BY <2>1
  <2> QED BY <2>1, <2>2, <2>3, <2>4 DEF ClientFrame
<1>2. CASE Quit(s) \/ SendFails(s) \/ PushFull(s)
  <2>1. UNCHANGED <<sendMsg, recvMsg>> BY <1>2 DEF Quit, SendFails, PushFull
  <2>2. PICK p \in {"connect", "ended"} : Leave(s, p) BY <1>2 DEF Quit, SendFails, PushFull
  <2> QED BY <1>l, <2>1, <2>2 DEF ClientFrame
<1>3. CASE Wait(s) \/ Wake(s) \/ RecvSome(s) \/ RecvClosed(s) \/ RecvTimesOut(s)
  <2>1. UNCHANGED <<sendMsg, recvMsg, wire>>
    BY <1>3 DEF Wait, Wake, RecvSome, RecvClosed, RecvTimesOut
  <2>2. \A x \in OgSession : x # s => cli'[x] = cli[x]
    BY <1>3, <1>t DEF Wait, Wake, RecvSome, RecvClosed, RecvTimesOut, Goto, Got
  <2> QED BY <2>1, <2>2 DEF ClientFrame
<1>4. CASE Take(s)
  <2>1. /\ UNCHANGED recvMsg
        /\ \A x \in OgSession : x # s => sendMsg'[x] = sendMsg[x]
    BY <1>4, <1>t DEF Take
  <2>2. CASE Leave(s, "ended") BY <1>l, <2>1, <2>2 DEF ClientFrame
  <2>3. CASE ~Leave(s, "ended")
    <3>1. /\ \A x \in OgSession : x # s => cli'[x] = cli[x]
          /\ UNCHANGED wire
      BY <1>4, <1>t, <2>3 DEF Take
    <3> QED BY <2>1, <3>1 DEF ClientFrame
  <2> QED BY <2>2, <2>3
<1>5. CASE Send(s)
  <2>1. UNCHANGED <<sendMsg, recvMsg>> BY <1>5 DEF Send
  <2>2. \A x \in OgSession : x # s => cli'[x] = cli[x] BY <1>5, <1>t DEF Send
  <2>3. \A d \in Conn : d # Here(s) => wire'[d] = wire[d] BY <1>5, <1>t DEF Send
  <2>4. cli[s].conn # 0 BY <1>5 DEF Send, Place
  <2> QED BY <1>h, <2>1, <2>2, <2>3, <2>4 DEF ClientFrame
<1>6. CASE RecvAll(s)
  <2>1. UNCHANGED <<sendMsg, recvMsg>> BY <1>6 DEF RecvAll
  <2>2. \A x \in OgSession : x # s => cli'[x] = cli[x] BY <1>6, <1>t DEF RecvAll, Got
  <2>3. \A d \in Conn : d # Here(s) => wire'[d] = wire[d] BY <1>6, <1>t DEF RecvAll
  <2>4. cli[s].conn # 0 BY <1>6 DEF RecvAll, Place
  <2> QED BY <1>h, <2>1, <2>2, <2>3, <2>4 DEF ClientFrame
<1>7. CASE PushAnswer(s)
  <2>1. UNCHANGED <<sendMsg, wire>> BY <1>7 DEF PushAnswer
  <2>2. \A x \in OgSession : x # s => cli'[x] = cli[x] /\ recvMsg'[x] = recvMsg[x]
    BY <1>7, <1>t DEF PushAnswer
  <2> QED BY <2>1, <2>2 DEF ClientFrame
<1> QED BY <1>1, <1>2, <1>3, <1>4, <1>5, <1>6, <1>7 DEF Client

\* A client's step keeps the kinds.
LEMMA TypeClient ==
  ASSUME TypeOK, NG!IInv, OG!IInv, NEW s \in OgSession, ClientInv(s),
         Client(s) \/ Wake(s), UNCHANGED serverVars
  PROVE  TypeOK'
<1>t. /\ cli \in [OgSession -> CliRec] /\ SendType /\ RecvType
      /\ wire \in [Conn -> WireRec] /\ slow \in 0 .. MaxSlow /\ task \in [Conn -> TaskRec]
      /\ asked \in [Session -> Seq(Request)] /\ answers \in [Session -> Seq(Answer)]
      /\ hosts \in [Gateway -> SUBSET Name] /\ raced \in [Gateway -> BOOLEAN]
      /\ NetType /\ idle \in 0 .. MaxIdle
  BY TypeParts
<1>s. Place(s) BY DEF ClientInv
<1>h. Here(s) \in Conn /\ cli[s] \in CliRec /\ cli[s].got \in Answer /\ cli[s].conn \in 0 .. MaxConn
  BY HereConn, CliFields
<1>u. UNCHANGED <<sendMsg, recvMsg>> => SendType' /\ RecvType'
  BY <1>t DEF SendType, RecvType
<1>a. NG!IInv' /\ OG!IInv' BY AddrFrame DEF serverVars
<1>n. ASSUME cli' \in [OgSession -> CliRec], SendType', RecvType',
             wire' \in [Conn -> WireRec], slow' \in 0 .. MaxSlow
      PROVE  TypeOK'
  <2>1. UNCHANGED <<task, asked, answers, hosts, raced, routes, idle, auxVars>> BY DEF serverVars
  <2>2. NetType' BY <1>t, <2>1 DEF NetType, auxVars
  <2> QED BY <1>n, <1>a, <1>t, <2>1, <2>2, TypeNext
<1>b. Back(s) # << >> => Head(Back(s)) \in Answer /\ Tail(Back(s)) \in Seq(Answer)
  <2>1. Back(s) \in Seq(Answer) BY <1>h, WireFields DEF Back
  <2> QED BY <2>1, HeadTail
<1>g. \A a \in Answer, up \in BOOLEAN : Got(s, a, up) => cli' \in [OgSession -> CliRec]
  <2> TAKE a \in Answer, up \in BOOLEAN
  <2>1. [cli[s] EXCEPT !.pc = "push", !.got = a, !.hears = up, !.some = FALSE] \in CliRec
    BY <1>h DEF CliRec
  <2>2. Got(s, a, up) => cli' = [cli EXCEPT ![s] =
            [cli[s] EXCEPT !.pc = "push", !.got = a, !.hears = up, !.some = FALSE]]
    BY <1>t DEF Got
  <2> QED BY <1>t, <2>1, <2>2
<1>p. \A p \in {"pop", "waiting"} : Goto(s, p) => cli' \in [OgSession -> CliRec]
  <2> TAKE p \in {"pop", "waiting"}
  <2>1. [cli[s] EXCEPT !.pc = p] \in CliRec BY <1>h DEF CliRec
  <2>2. Goto(s, p) => cli' = [cli EXCEPT ![s] = [cli[s] EXCEPT !.pc = p]] BY <1>t DEF Goto
  <2> QED BY <1>t, <2>1, <2>2
<1>1. CASE Connect(s)
  <2>1. cli[s].conn + 1 \in 0 .. MaxConn /\ cli[s].conn + 1 \in 1 .. MaxConn
    <3>1. cli[s].conn < MaxConn BY <1>1 DEF Connect
    <3> QED BY <1>h, <3>1, Bounds
  <2>2. [cli[s] EXCEPT !.pc = "pop", !.conn = cli[s].conn + 1, !.connected = TRUE, !.hears = TRUE]
          \in CliRec
    BY <1>h, <2>1 DEF CliRec
  <2>3. cli' = [cli EXCEPT ![s] = [cli[s] EXCEPT !.pc = "pop", !.conn = cli[s].conn + 1,
                                                 !.connected = TRUE, !.hears = TRUE]]
    BY <1>1, <1>t DEF Connect, CliRec
  <2>4. cli' \in [OgSession -> CliRec] BY <1>t, <2>2, <2>3
  <2>5. <<s, cli[s].conn + 1>> \in Conn BY <2>1, Conns
  <2>6. wire' \in [Conn -> WireRec] BY <1>1, <2>5, WirePut DEF Connect
  <2> QED BY <1>1, <1>n, <1>t, <1>u, <2>4, <2>6 DEF Connect
<1>2. CASE Quit(s) \/ SendFails(s) \/ PushFull(s)
  <2>1. UNCHANGED <<sendMsg, recvMsg, slow>> BY <1>2 DEF Quit, SendFails, PushFull
  <2>2. PICK p \in {"connect", "ended"} : Leave(s, p) BY <1>2 DEF Quit, SendFails, PushFull
  <2>3. cli' \in [OgSession -> CliRec] /\ wire' \in [Conn -> WireRec] BY <1>s, <2>2, LeaveEffect, Zenon
  <2> QED BY <1>n, <1>t, <1>u, <2>1, <2>3
<1>3. CASE Wait(s) \/ Wake(s)
  <2>1. UNCHANGED <<sendMsg, recvMsg, wire, slow>> BY <1>3 DEF Wait, Wake
  <2>2. Goto(s, "waiting") \/ Goto(s, "pop") BY <1>3 DEF Wait, Wake
  <2> QED BY <1>n, <1>p, <1>t, <1>u, <2>1, <2>2
<1>4. CASE Take(s)
  <2>1. /\ UNCHANGED <<recvMsg, slow>> /\ sendMsg[s] # << >>
        /\ sendMsg' = [sendMsg EXCEPT ![s] = << >>]
    BY <1>4 DEF Take
  <2>2. << >> \in Seq(1 .. MaxReq) /\ Len(<< >>) <= 1 OBVIOUS
  <2>3. SendType' BY <2>1, <2>2, SendPut
  <2>4. RecvType' BY <1>t, <2>1 DEF RecvType
  <2>5. cli' \in [OgSession -> CliRec] /\ wire' \in [Conn -> WireRec]
    <3>1. CASE Leave(s, "ended") BY <1>s, <3>1, "ended" \in {"connect", "ended"}, LeaveEffect, Zenon
    <3>2. CASE ~Leave(s, "ended")
      <4>1. /\ cli' = [cli EXCEPT ![s].pc = "send", ![s].buf = Head(sendMsg[s])]
            /\ UNCHANGED wire
        BY <1>4, <3>2 DEF Take
      <4>2. Head(sendMsg[s]) \in 1 .. MaxReq BY <2>1, CliFields, HeadTail
      <4>3. Head(sendMsg[s]) \in 0 .. MaxReq BY <4>2
      <4>4. [cli[s] EXCEPT !.pc = "send", !.buf = Head(sendMsg[s])] \in CliRec
        BY <1>h, <4>3 DEF CliRec
      <4>5. cli' = [cli EXCEPT ![s] = [cli[s] EXCEPT !.pc = "send", !.buf = Head(sendMsg[s])]]
        BY <1>t, <4>1
      <4> QED BY <1>t, <4>1, <4>4, <4>5
    <3> QED BY <3>1, <3>2
  <2> QED BY <1>n, <1>t, <2>1, <2>3, <2>4, <2>5
<1>5. CASE Send(s)
  <2>1. /\ UNCHANGED <<sendMsg, recvMsg, slow>> /\ cli[s].pc = "send"
        /\ cli' = [cli EXCEPT ![s].pc = "recv", ![s].buf = 0]
        /\ \/ wire' = [wire EXCEPT ![Here(s)].to = Append(wire[Here(s)].to, cli[s].buf)]
           \/ wire' = [wire EXCEPT ![Here(s)].link = "rst"]
    BY <1>5, <1>t, <1>h DEF Send, WireRec
  <2>2. cli[s].buf \in 1 .. MaxReq
    <3>1. cli[s].buf \in Asks(s) /\ cli[s].buf \in 0 .. MaxReq
      BY <2>1, CliFields DEF ClientInv, Pending
    <3> QED BY <3>1, Bounds DEF Asks
  <2>3. Append(wire[Here(s)].to, cli[s].buf) \in Seq(1 .. MaxReq)
    BY <1>h, <2>2, WireFields
  <2>4. /\ [wire EXCEPT ![Here(s)].to = Append(wire[Here(s)].to, cli[s].buf)] \in [Conn -> WireRec]
        /\ [wire EXCEPT ![Here(s)].link = "rst"] \in [Conn -> WireRec]
    BY <1>h, <2>3, WirePut
  <2>5. cli' \in [OgSession -> CliRec]
    <3>1. [cli[s] EXCEPT !.pc = "recv", !.buf = 0] \in CliRec
      <4>1. 0 \in 0 .. MaxReq BY Bounds
      <4> QED BY <1>h, <4>1 DEF CliRec
    <3>2. cli' = [cli EXCEPT ![s] = [cli[s] EXCEPT !.pc = "recv", !.buf = 0]] BY <1>t, <2>1
    <3> QED BY <1>t, <3>1, <3>2
  <2> QED BY <1>n, <1>t, <1>u, <2>1, <2>4, <2>5
<1>6. CASE RecvSome(s)
  <2>1. cli' \in [OgSession -> CliRec]
    <3>1. [cli[s] EXCEPT !.some = TRUE] \in CliRec BY <1>h DEF CliRec
    <3>2. cli' = [cli EXCEPT ![s] = [cli[s] EXCEPT !.some = TRUE]] BY <1>6, <1>t DEF RecvSome
    <3> QED BY <1>t, <3>1, <3>2
  <2> QED BY <1>6, <1>n, <1>t, <1>u, <2>1 DEF RecvSome
<1>7. CASE RecvAll(s)
  <2>1. /\ UNCHANGED <<sendMsg, recvMsg, slow>> /\ Back(s) # << >>
        /\ Got(s, Head(Back(s)), TRUE)
        /\ wire' = [wire EXCEPT ![Here(s)].back = Tail(wire[Here(s)].back)]
    BY <1>7, <1>t, <1>h DEF RecvAll, WireRec
  <2>2. cli' \in [OgSession -> CliRec] BY <1>b, <1>g, <2>1
  <2>3. Tail(wire[Here(s)].back) \in Seq(Answer) BY <1>b, <2>1 DEF Back
  <2>4. wire' \in [Conn -> WireRec] BY <1>h, <2>1, <2>3, WirePut
  <2> QED BY <1>n, <1>t, <1>u, <2>1, <2>2, <2>4
<1>8. CASE RecvTimesOut(s)
  <2>1. UNCHANGED <<sendMsg, recvMsg, wire>> /\ slow < MaxSlow /\ slow' = slow + 1
    BY <1>8 DEF RecvTimesOut
  <2>2. \E a \in Answer : Got(s, a, FALSE)
    <3>1. CASE Got(s, EmptyAnswer, FALSE) BY <3>1, Bounds
    <3>2. CASE ~Got(s, EmptyAnswer, FALSE)
      <4>1. cli[s].some /\ Got(s, [Head(Back(s)) EXCEPT !.whole = FALSE], FALSE)
        BY <1>8, <3>2 DEF RecvTimesOut
      <4>2. Head(Back(s)) \in Answer BY <1>b, <1>s, <4>1 DEF Place
      <4>3. [Head(Back(s)) EXCEPT !.whole = FALSE] \in Answer BY <4>2 DEF Answer
      <4> QED BY <4>1, <4>3
    <3> QED BY <3>1, <3>2
  <2>3. slow' \in 0 .. MaxSlow BY <1>t, <2>1, Bounds
  <2> QED BY <1>g, <1>n, <1>t, <1>u, <2>1, <2>2, <2>3
<1>9. CASE RecvClosed(s)
  <2>1. Got(s, EmptyAnswer, FALSE) /\ UNCHANGED <<sendMsg, recvMsg, wire, slow>>
    BY <1>9 DEF RecvClosed
  <2> QED BY <1>g, <1>n, <1>t, <1>u, <2>1, Bounds
<1>10. CASE PushAnswer(s)
  <2>1. /\ UNCHANGED <<sendMsg, wire, slow>>
        /\ recvMsg' = [recvMsg EXCEPT ![s] = <<cli[s].got>>]
        /\ cli' = [cli EXCEPT ![s].pc = "pop", ![s].got = EmptyAnswer]
    BY <1>10 DEF PushAnswer
  <2>2. <<cli[s].got>> \in Seq(Answer) /\ Len(<<cli[s].got>>) <= 1 BY <1>h
  <2>3. RecvType' BY <2>1, <2>2, RecvPut
  <2>4. SendType' BY <1>t, <2>1 DEF SendType
  <2>5. cli' \in [OgSession -> CliRec]
    <3>1. [cli[s] EXCEPT !.pc = "pop", !.got = EmptyAnswer] \in CliRec
      <4>1. EmptyAnswer \in Answer BY Bounds
      <4> QED BY <1>h, <4>1 DEF CliRec
    <3>2. cli' = [cli EXCEPT ![s] = [cli[s] EXCEPT !.pc = "pop", !.got = EmptyAnswer]] BY <1>t, <2>1
    <3> QED BY <1>t, <3>1, <3>2
  <2> QED BY <1>n, <1>t, <2>1, <2>3, <2>4, <2>5
<1> QED BY <1>1, <1>2, <1>3, <1>4, <1>5, <1>6, <1>7, <1>8, <1>9, <1>10 DEF Client

\* An agent's step keeps the kinds.
LEMMA TypeAgent ==
  ASSUME TypeOK, NG!IInv, OG!IInv, NEW s \in Session, AgentSend(s) \/ AgentCloses(s)
  PROVE  TypeOK'
<1>t. /\ cli \in [OgSession -> CliRec] /\ SendType /\ RecvType
      /\ wire \in [Conn -> WireRec] /\ slow \in 0 .. MaxSlow /\ task \in [Conn -> TaskRec]
      /\ asked \in [Session -> Seq(Request)] /\ answers \in [Session -> Seq(Answer)]
      /\ hosts \in [Gateway -> SUBSET Name] /\ raced \in [Gateway -> BOOLEAN]
      /\ NetType /\ idle \in 0 .. MaxIdle
  BY TypeParts
<1>1. UNCHANGED <<cli, sendMsg, recvMsg, slow, ngVars, ogVars, task, answers,
                  hosts, raced, routes, idle, auxVars>>
  BY DEF AgentSend, AgentCloses
<1>2. SendType' /\ RecvType' /\ NetType' BY <1>t, <1>1 DEF SendType, RecvType, NetType, auxVars
<1>3. NG!IInv' /\ OG!IInv' BY <1>1, AddrFrame
<1>4. Base(s) = <<s, 0>> /\ Base(s) \in Conn BY Conns DEF Base
<1>5. wire' \in [Conn -> WireRec] /\ asked' \in [Session -> Seq(Request)]
  <2>1. CASE AgentCloses(s)
    <3>1. wire' = [wire EXCEPT ![Base(s)].link = "closed"] /\ UNCHANGED asked
      BY <1>4, <2>1 DEF AgentCloses
    <3> QED BY <1>t, <1>4, <3>1, WirePut
  <2>2. CASE AgentSend(s)
    <3>1. wire' = [wire EXCEPT ![Base(s)].to = Append(wire[Base(s)].to, Len(asked[s]) + 1)]
      BY <1>4, <1>t, <2>2 DEF AgentSend, WireRec
    <3>2. asked[s] \in Seq(Request) /\ Len(asked[s]) < MaxReq BY <1>t, <2>2 DEF AgentSend
    <3>3. Len(asked[s]) + 1 \in 1 .. MaxReq BY <3>2, Bounds
    <3>4. Append(wire[Base(s)].to, Len(asked[s]) + 1) \in Seq(1 .. MaxReq)
      BY <1>4, <3>3, WireFields
    <3>5. wire' \in [Conn -> WireRec] BY <1>4, <3>1, <3>4, WirePut
    <3>6. PICK q \in Wish[s] : asked' = [asked EXCEPT ![s] = Append(asked[s], q)]
      BY <1>t, <2>2 DEF AgentSend
    <3>7. q \in Request BY DEF Request
    <3>8. Append(asked[s], q) \in Seq(Request) BY <3>2, <3>7
    <3> QED BY <1>t, <3>5, <3>6, <3>8
  <2> QED BY <2>1, <2>2
<1> QED BY <1>t, <1>1, <1>2, <1>3, <1>5, TypeNext

-----------------------------------------------------------------------------
(***************************************************************************)
(* What only grows: the requests sent, the addresses given, and, with what *)
(* Reached makes of a route that is being replaced, the routes'            *)
(* destinations.  So an answer stays worth what it was.                    *)
(***************************************************************************)
Grows ==
  /\ \A s \in Session : /\ Asks(s) \subseteq Asks(s)'
                        /\ \A i \in Asks(s) : asked'[s][i] = asked[s][i]
  /\ \A n \in Name : /\ ngNames[n] # NoIp \/ Full(ngAddrs, ngTime) => ngNames'[n] = ngNames[n]
                     /\ ogNames[n] # NoIp \/ Full(ogAddrs, ogTime) => ogNames'[n] = ogNames[n]
  /\ Full(ngAddrs, ngTime) => Full(ngAddrs, ngTime)'
  /\ Full(ogAddrs, ogTime) => Full(ogAddrs, ogTime)'
  /\ \A g \in Gateway : \A ip : Reached(g, ip) => Reached(g, ip)'

\* A name that is served stays served.
LEMMA ServesGrow ==
  ASSUME Grows, NEW n \in Name
  PROVE  /\ NgServes(n) => NgServes(n)'
         /\ OgServes(n) => OgServes(n)'
<1>1. \A ip : /\ Reached("NG", ip) => Reached("NG", ip)'
              /\ Reached("OG", ip) => Reached("OG", ip)'
  BY DEF Grows, Gateway
<1> QED BY <1>1 DEF Grows, NgServes, OgServes

\* An answer that is worth its code stays so.
LEMMA SoundGrows ==
  ASSUME TypeOK, Grows, NEW s \in Session, NEW a
  PROVE  /\ Sound(s, a) => Sound(s, a)'
         /\ a.req \in Asks(s) \cup {0} /\ NgWorth(s, a) => NgWorth(s, a)'
         /\ a.req \in Asks(s) \cup {0} /\ OgWorth(s, a) => OgWorth(s, a)'
<1>1. /\ Asks(s) \subseteq Asks(s)'
      /\ a.req \in Asks(s) => asked'[s][a.req] = asked[s][a.req] /\ asked[s][a.req].contact \in Name
  BY Headers DEF Grows
<1>2. a.req \in Asks(s) \cup {0} /\ NgWorth(s, a) => NgWorth(s, a)'
  <2> SUFFICES ASSUME a.req \in Asks(s) \cup {0}, NgWorth(s, a), Registers(s, a)'
               PROVE  NgServes(asked[s][a.req].contact)'
    BY DEF NgWorth
  <2>1. a.req \in Asks(s) /\ Registers(s, a)
    BY <1>1 DEF Registers
  <2>2. NgServes(asked[s][a.req].contact)
    BY <2>1 DEF NgWorth
  <2> DEFINE n == asked[s][a.req].contact
  <2>3. \A m \in Name : NgServes(m) => NgServes(m)'
    BY ServesGrow
  <2>4. asked'[s][a.req].contact = asked[s][a.req].contact /\ asked[s][a.req].contact \in Name
    BY <1>1, <2>1
  <2> QED BY <2>2, <2>3, <2>4
<1>3. a.req \in Asks(s) \cup {0} /\ OgWorth(s, a) => OgWorth(s, a)'
  <2> SUFFICES ASSUME a.req \in Asks(s) \cup {0}, OgWorth(s, a), s \in OgSession,
                      Registers(s, a)', a.whole, asked'[s][a.req].contact # Absent
               PROVE  OgServes(asked[s][a.req].contact)'
    BY DEF OgWorth
  <2>1. a.req \in Asks(s) /\ Registers(s, a)
    BY <1>1 DEF Registers
  <2>2. \A m \in Name : OgServes(m) => OgServes(m)'
    BY ServesGrow
  <2>3. asked'[s][a.req].contact = asked[s][a.req].contact /\ asked[s][a.req].contact \in Name
    BY <1>1, <2>1
  <2>4. OgServes(asked[s][a.req].contact)
    BY <2>1, <2>3 DEF OgWorth
  <2> QED BY <2>2, <2>3, <2>4
<1> QED BY <1>1, <1>2, <1>3 DEF Sound

\* The addresses grow, the routes grow.
AddrsGrow ==
  /\ \A n \in Name : /\ ngNames[n] # NoIp \/ Full(ngAddrs, ngTime) => ngNames'[n] = ngNames[n]
                     /\ ogNames[n] # NoIp \/ Full(ogAddrs, ogTime) => ogNames'[n] = ogNames[n]
  /\ Full(ngAddrs, ngTime) => Full(ngAddrs, ngTime)'
  /\ Full(ogAddrs, ogTime) => Full(ogAddrs, ogTime)'
RoutesGrow == \A g \in Gateway : \A ip : Reached(g, ip) => Reached(g, ip)'

\* A step with no new request grows by its tables and its routes.
LEMMA GrowsParts ==
  ASSUME TypeOK, UNCHANGED asked, AddrsGrow, RoutesGrow
  PROVE  Grows
BY DEF Grows, AddrsGrow, RoutesGrow, Asks

\* A table that stays grows.
LEMMA AddrsStay == UNCHANGED <<ngVars, ogVars>> => AddrsGrow
BY DEF AddrsGrow, ngVars, ogVars, Full, RangeFull

\* A call of generateIp only adds to the network gateway's table.
LEMMA NgGrows ==
  ASSUME NG!IInv, NEW n \in Name, NG!Generate(n), UNCHANGED ogVars
  PROVE  AddrsGrow
<1>1. /\ lease' = lease /\ ngAddrs \subseteq ngAddrs' /\ ngTime' # << >>
      /\ \A m \in Name : m # n \/ ngNames[m] # NoIp => ngNames'[m] = ngNames[m]
      /\ Full(ngAddrs, ngTime) => ngNames' = ngNames
  BY NgGenerate
<1>2. \A m \in Name : ngNames[m] # NoIp \/ Full(ngAddrs, ngTime) => ngNames'[m] = ngNames[m]
  BY <1>1
<1>3. Full(ngAddrs, ngTime) => Full(ngAddrs, ngTime)'
  BY <1>1 DEF Full, RangeFull
<1>4. ogNames' = ogNames /\ (Full(ogAddrs, ogTime) => Full(ogAddrs, ogTime)')
  BY DEF ogVars, Full, RangeFull
<1> QED BY <1>2, <1>3, <1>4 DEF AddrsGrow

\* A call of generateIp only adds to the operator gateway's table.
LEMMA OgGrows ==
  ASSUME OG!IInv, NEW n \in Name, OG!Generate(n), UNCHANGED ngVars
  PROVE  AddrsGrow
<1>1. /\ lease' = lease /\ ogAddrs \subseteq ogAddrs' /\ ogTime' # << >>
      /\ \A m \in Name : m # n \/ ogNames[m] # NoIp => ogNames'[m] = ogNames[m]
      /\ Full(ogAddrs, ogTime) => ogNames' = ogNames
  BY OgGenerate
<1>2. \A m \in Name : ogNames[m] # NoIp \/ Full(ogAddrs, ogTime) => ogNames'[m] = ogNames[m]
  BY <1>1
<1>3. Full(ogAddrs, ogTime) => Full(ogAddrs, ogTime)'
  BY <1>1 DEF Full, RangeFull
<1>4. ngNames' = ngNames /\ (Full(ngAddrs, ngTime) => Full(ngAddrs, ngTime)')
  BY DEF ngVars, Full, RangeFull
<1> QED BY <1>2, <1>3, <1>4 DEF AddrsGrow

\* Whether a task is between the two commands of RouteMgr::add.
Between(c) == task[c].pc \in {"routeAdd", "inviteAdd"}

\* The second command leaves each destination reached, and reaches one more.
LEMMA RouteAdded ==
  ASSUME TypeOK, NEW c \in Conn, NEW to, NEW via, to = task[c].ip, AddRoute(Gw(c), to, via),
         \A d \in Conn : d # c => task'[d] = task[d]
  PROVE  RoutesGrow /\ Reached(Gw(c), to)'
<1>g. Gw(c) \in Gateway BY Gateways
<1>t. /\ routes \in [Gateway -> SUBSET RouteRec]
      /\ unrouted \in [Gateway -> SUBSET (Nat \cup {Broadcast})]
  BY TypeParts DEF NetType
<1>1. \A h \in Gateway : /\ routes[h] \subseteq routes'[h]
                         /\ h # Gw(c) => unrouted'[h] = unrouted[h]
                         /\ \A x \in unrouted[h] : x = to \/ x \in unrouted'[h]
  BY <1>g, <1>t DEF AddRoute
<1>2. HasRoute(Gw(c), to)' \/ to \in unrouted'[Gw(c)]
  <2>1. CASE HasRoute(Gw(c), to)
    <3>1. HasRoute(Gw(c), to)' BY <1>1, <1>g, <2>1 DEF HasRoute
    <3> QED BY <3>1
  <2>2. CASE routes' = [routes EXCEPT ![Gw(c)] = @ \cup {[to |-> to, via |-> via]}]
    <3>1. [to |-> to, via |-> via] \in routes'[Gw(c)] /\ [to |-> to, via |-> via].to = to
      BY <1>g, <1>t, <2>2
    <3>2. HasRoute(Gw(c), to)' BY <3>1 DEF HasRoute
    <3> QED BY <3>2
  <2>3. CASE unrouted' = [unrouted EXCEPT ![Gw(c)] = @ \cup {to}]
    BY <1>g, <1>t, <2>3
  <2> QED BY <2>1, <2>2, <2>3 DEF AddRoute
<1>3. Reached(Gw(c), to)' BY <1>2 DEF Reached
<1>4. ASSUME NEW h \in Gateway, NEW ip, Reached(h, ip) PROVE Reached(h, ip)'
  <2>1. CASE HasRoute(h, ip)
    <3>1. HasRoute(h, ip)' BY <1>1, <2>1 DEF HasRoute
    <3> QED BY <3>1 DEF Reached
  <2>2. CASE ip \in unrouted[h]
    <3>1. CASE ip \in unrouted'[h] BY <3>1 DEF Reached
    <3>2. CASE ip \notin unrouted'[h]
      <4>1. ip = to /\ h = Gw(c) BY <1>1, <2>2, <3>2
      <4> QED BY <1>3, <4>1
    <3> QED BY <3>1, <3>2
  <2>3. CASE \E d \in Conn : Gw(d) = h /\ Between(d) /\ task[d].ip = ip
    <3>1. PICK d \in Conn : Gw(d) = h /\ Between(d) /\ task[d].ip = ip BY <2>3
    <3>2. CASE d = c BY <1>3, <3>1, <3>2
    <3>3. CASE d # c
      <4>1. Between(d)' /\ task'[d].ip = ip BY <3>1, <3>3 DEF Between
      <4>2. Gw(d)' = h BY <3>1 DEF Gw
      <4> QED BY <4>1, <4>2 DEF Reached, Between
    <3> QED BY <3>2, <3>3
  <2> QED BY <1>4, <2>1, <2>2, <2>3 DEF Reached, Between
<1> QED BY <1>3, <1>4 DEF RoutesGrow

\* The first command leaves its destination to the second one.
LEMMA RouteDeleted ==
  ASSUME TypeOK, NEW c \in Conn, NEW to, DelRoute(Gw(c), to), ~Between(c),
         task'[c].pc \in {"routeAdd", "inviteAdd"}, task'[c].ip = to,
         \A d \in Conn : d # c => task'[d] = task[d]
  PROVE  RoutesGrow
<1>g. Gw(c) \in Gateway BY Gateways
<1>t. routes \in [Gateway -> SUBSET RouteRec] BY TypeParts DEF NetType
<1>1. \A h \in Gateway : \A r \in routes[h] : (h = Gw(c) /\ r.to = to) \/ r \in routes'[h]
  BY <1>g, <1>t DEF DelRoute
<1>2. unrouted' = unrouted BY DEF DelRoute
<1>3. Reached(Gw(c), to)' BY DEF Reached, Gw
<1>4. ASSUME NEW h \in Gateway, NEW ip, Reached(h, ip) PROVE Reached(h, ip)'
  <2>1. CASE HasRoute(h, ip)
    <3>1. PICK r \in routes[h] : r.to = ip BY <2>1 DEF HasRoute
    <3>2. CASE r \in routes'[h] BY <3>1, <3>2 DEF Reached, HasRoute
    <3>3. CASE r \notin routes'[h]
      <4>1. h = Gw(c) /\ ip = to BY <1>1, <3>1, <3>3
      <4> QED BY <1>3, <4>1
    <3> QED BY <3>2, <3>3
  <2>2. CASE ip \in unrouted[h] BY <1>2, <2>2 DEF Reached
  <2>3. CASE \E d \in Conn : Gw(d) = h /\ Between(d) /\ task[d].ip = ip
    <3>1. PICK d \in Conn : Gw(d) = h /\ Between(d) /\ task[d].ip = ip BY <2>3
    <3>2. task'[d] = task[d] BY <3>1
    <3> QED BY <3>1, <3>2 DEF Reached, Between, Gw
  <2> QED BY <1>4, <2>1, <2>2, <2>3 DEF Reached, Between
<1> QED BY <1>4 DEF RoutesGrow

\* Routes that stay grow.
LEMMA RoutesStay ==
  ASSUME UNCHANGED <<routes, unrouted>>, \A d \in Conn : Between(d) => task'[d] = task[d]
  PROVE  RoutesGrow
BY DEF RoutesGrow, Reached, HasRoute, Between, Gw

\* A task's step takes nothing back.
LEMMA GrowsTask ==
  ASSUME TypeOK, NG!IInv, OG!IInv, NEW c \in Conn, SessionInv(c[1]), Task(c)
  PROVE  Grows
<1>1. asked' = asked
  BY TaskFrame DEF SessionInv, Elsewhere
<1>2. AddrsGrow
  <2>1. CASE UNCHANGED <<ngVars, ogVars>> BY <2>1, AddrsStay
  <2>2. CASE Calls(c) BY <2>2, NgGrows, OgGrows DEF Calls
  <2> QED BY <2>1, <2>2, TaskCalls
<1>3. RoutesGrow
  <2>f. \A d \in Conn : d # c => task'[d] = task[d]
    BY TaskFrame DEF SessionInv, Elsewhere
  <2>t. task \in [Conn -> TaskRec] BY TypeParts
  <2>s. ~Between(c) /\ UNCHANGED <<routes, unrouted>> => RoutesGrow BY <2>f, RoutesStay
  <2>r. /\ Roles(c[1]) /\ c \in Mine(c[1]) /\ Gw(c) \in {"NG", "OG"}
        /\ task[c].pc \in {"response", "inviteAdd"} => Gw(c) = "OG"
    BY Conns, Gateways DEF SessionInv, Mine, Roles
  <2>1. CASE RegisterEnds(c) \/ ResponseRoute(c) \/ InviteEnds(c)
    <3>1. PICK via : AddRoute(Gw(c), task[c].ip, via)
      BY <2>1, <2>r DEF RegisterEnds, ResponseRoute, InviteEnds, At
    <3> QED BY <2>f, <3>1, RouteAdded
  <2>2. CASE RouteDel(c)
    <3>1. /\ ~Between(c) /\ DelRoute(Gw(c), task[c].ip)
          /\ task' = [task EXCEPT ![c].pc = "routeAdd"]
      BY <2>2 DEF RouteDel, At, Between, GoTask
    <3>2. task'[c].pc = "routeAdd" /\ task'[c].ip = task[c].ip
      BY <2>t, <3>1 DEF TaskRec
    <3> QED BY <2>f, <3>1, <3>2, RouteDeleted
  <2>3. CASE ResponseInvite(c)
    <3>1. PICK ip : /\ ~Between(c) /\ DelRoute(Gw(c), ip)
                    /\ task' = [task EXCEPT ![c].pc = "inviteAdd", ![c].ip = ip]
      BY <2>3, <2>r DEF ResponseInvite, At, Between
    <3>2. task'[c].pc = "inviteAdd" /\ task'[c].ip = ip
      BY <2>t, <3>1 DEF TaskRec
    <3> QED BY <2>f, <3>1, <3>2, RouteDeleted
  <2>4. CASE \/ Recv(c) \/ Close(c) \/ Joined(c) \/ DnsOpen(c) \/ DnsFails(c)
             \/ DnsRead(c) \/ DnsWrite(c)
    BY <2>4, <2>s DEF Recv, Close, Joined, DnsOpen, DnsFails, DnsRead, DnsWrite, At, Between, auxVars
  <2>5. CASE \/ RequestEnds(c) \/ Register(c) \/ RegisterRefused(c) \/ ResponseContact(c)
             \/ ResponseOther(c)
    BY <2>5, <2>s DEF RequestEnds, Register, RegisterRefused, ResponseContact, ResponseOther,
                      At, Between, auxVars
  <2>6. CASE ForwardPush(c) \/ ForwardFails(c) \/ ForwardPop(c)
    BY <2>6, <2>s DEF ForwardPush, ForwardFails, ForwardPop, At, Between, auxVars
  <2> QED BY <2>1, <2>2, <2>3, <2>4, <2>5, <2>6 DEF Task
<1> QED BY <1>1, <1>2, <1>3, GrowsParts

\* Nor does a client's.
LEMMA GrowsClient ==
  ASSUME TypeOK, UNCHANGED serverVars
  PROVE  Grows
<1>1. UNCHANGED asked /\ UNCHANGED <<ngVars, ogVars>> /\ UNCHANGED <<routes, unrouted, task>>
  BY DEF serverVars, auxVars
<1> QED BY <1>1, AddrsStay, RoutesStay, GrowsParts

\* Nor does an agent's.
LEMMA GrowsAgent ==
  ASSUME TypeOK, NEW s \in Session, AgentSend(s) \/ AgentCloses(s)
  PROVE  Grows
<1>1. UNCHANGED <<ngVars, ogVars>> /\ UNCHANGED <<routes, unrouted, task>>
  BY DEF AgentSend, AgentCloses, auxVars
<1>2. AddrsGrow /\ RoutesGrow BY <1>1, AddrsStay, RoutesStay
<1>3. CASE AgentCloses(s)
  BY <1>2, <1>3, GrowsParts DEF AgentCloses
<1>4. CASE AgentSend(s)
  <2>t. asked \in [Session -> Seq(Request)] BY TypeParts
  <2>1. PICK q \in Wish[s] : asked' = [asked EXCEPT ![s] = Append(asked[s], q)]
    BY <1>4, <2>t DEF AgentSend
  <2>q. q \in Request BY <2>1 DEF Request
  <2>2. q \in Request /\ asked[s] \in Seq(Request) BY <2>t, <2>q
  <2>3. /\ Len(asked'[s]) = Len(asked[s]) + 1 /\ Len(asked[s]) \in Nat
        /\ \A i \in 1 .. Len(asked[s]) : asked'[s][i] = asked[s][i]
    BY <2>t, <2>1, <2>2
  <2>4. \A x \in Session : x # s => asked'[x] = asked[x]
    BY <2>t, <2>1
  <2>5. \A x \in Session : /\ Asks(x) \subseteq Asks(x)'
                           /\ \A i \in Asks(x) : asked'[x][i] = asked[x][i]
    BY <2>3, <2>4 DEF Asks
  <2> QED BY <1>2, <2>5 DEF Grows, AddrsGrow, RoutesGrow
<1> QED BY <1>3, <1>4


-----------------------------------------------------------------------------
(***************************************************************************)
(* The kinds of a task's steps: it takes a request, ends, works on the     *)
(* request, or replies.                                                    *)
(***************************************************************************)
Accepts(c) ==
  /\ wire[c].link # "none" /\ task[c].pc = "recv" /\ wire[c].to # << >>
  /\ wire'[c].to = Tail(wire[c].to)
  /\ wire'[c].back = wire[c].back /\ wire'[c].link = wire[c].link
  /\ task'[c].pc = (IF Gw(c) = "OG" THEN "forward" ELSE "process")
  /\ task'[c].req = Head(wire[c].to) /\ task'[c].ans = task[c].ans
  /\ UNCHANGED <<answers, cli, sendMsg, recvMsg>>

Ends(c) ==
  /\ \/ /\ task[c].pc = "recv" /\ wire[c].link # "none"
        /\ wire[c].to = << >> /\ wire'[c].link # "up"
     \/ task[c].pc = "join" /\ wire' = wire
  /\ task'[c].pc \in {"join", "over"} /\ (Gw(c) = "NG" => task'[c].pc = "over")
  /\ task'[c].req = task[c].req /\ task'[c].ans = task[c].ans
  /\ wire'[c].to = wire[c].to /\ wire'[c].back = wire[c].back
  /\ UNCHANGED <<answers, sendMsg, recvMsg>>

\* updateDns, RouteMgr::add, and what comes before them.
Updates(c) ==
  /\ wire[c].link # "none" /\ wire' = wire
  /\ Updating(c) \/ task[c].pc = (IF Gw(c) = "NG" THEN "process" ELSE "response")
  /\ Updating(c)' \/ (Gw(c) = "OG" /\ task[c].pc = "response" /\ task'[c].pc = "inviteAdd")
  /\ task'[c].req = task[c].req /\ task'[c].ans = task[c].ans
  /\ UNCHANGED <<answers, cli, sendMsg, recvMsg>>

Forwards(c) == ForwardPush(c) \/ ForwardFails(c) \/ ForwardPop(c)

Fit(c, a) ==
  \/ Gw(c) = "NG" /\ \E code \in {200, 400} : a = Own(c, code)
  \/ Gw(c) = "OG" /\ task[c].pc = "process" /\ a = Own(c, 405)
  \/ Gw(c) = "OG" /\ task[c].pc \in {"response", "routeAdd", "inviteAdd"} /\ a = Relayed(c)

\* The step that replies.
Outcome(c, a) ==
  \/ RegisterRefused(c) /\ a = Own(c, 400)
  \/ RegisterEnds(c) /\ a = Own(c, 200)
  \/ /\ RequestEnds(c)
     /\ a = Own(c, IF Gw(c) = "OG" THEN 405 ELSE IF Accepted(Asked(c)) THEN 200 ELSE 400)
  \/ ResponseContact(c) \/ ResponseRoute(c) \/ InviteEnds(c) \/ ResponseOther(c)

Replies(c, a) ==
  /\ wire[c].link # "none" /\ Busy(c) /\ task'[c] = NewTask
  /\ a \in Answer /\ Fit(c, a) /\ Outcome(c, a) /\ Deliver(c, a)
  /\ UNCHANGED <<cli, sendMsg, recvMsg>>

\* A task's step is of one of these kinds.
LEMMA TaskKinds ==
  ASSUME TypeOK, NEW c \in Conn, Roles(c[1]), Task(c)
  PROVE  Accepts(c) \/ Ends(c) \/ Updates(c) \/ Forwards(c) \/ \E a : Replies(c, a)
<1>t. task \in [Conn -> TaskRec] /\ wire \in [Conn -> WireRec]
  BY TypeParts
<1>g. /\ Gw(c) = "NG" \/ Gw(c) = "OG"
      /\ Gw(c) = "NG" => task[c].pc \notin {"forward", "pop", "response", "inviteAdd", "join"}
  BY Conns, Gateways DEF Roles, Mine
<1>1. CASE Recv(c)
  <2>1. /\ task'[c] = [task[c] EXCEPT !.pc = IF Gw(c) = "OG" THEN "forward" ELSE "process",
                                      !.req = Head(wire[c].to)]
        /\ wire'[c] = [wire[c] EXCEPT !.to = Tail(@)]
    BY <1>1, <1>t DEF Recv
  <2>2. task[c] \in TaskRec /\ wire[c] \in WireRec BY <1>t
  <2>3. /\ task'[c].pc = (IF Gw(c) = "OG" THEN "forward" ELSE "process")
        /\ task'[c].req = Head(wire[c].to) /\ task'[c].ans = task[c].ans
    BY <2>1, <2>2 DEF TaskRec
  <2>4. /\ wire'[c].to = Tail(wire[c].to) /\ wire'[c].back = wire[c].back
        /\ wire'[c].link = wire[c].link
    BY <2>1, <2>2 DEF WireRec
  <2> QED BY <1>1, <2>3, <2>4 DEF Recv, At, Accepts
<1>2. CASE Close(c)
  <2>1. PICK p \in {"join", "over"} : /\ task' = [task EXCEPT ![c].pc = p]
                                      /\ Gw(c) = "NG" => p = "over"
    BY <1>2, <1>g DEF Close, GoTask
  <2>2. /\ task'[c].pc = p /\ task'[c].req = task[c].req /\ task'[c].ans = task[c].ans
    BY <1>t, <2>1 DEF TaskRec
  <2>3. wire'[c].to = wire[c].to /\ wire'[c].back = wire[c].back /\ wire'[c].link # "up"
    BY <1>t, <1>2 DEF Close, WireRec
  <2> QED BY <1>2, <2>1, <2>2, <2>3 DEF Close, At, Ends
<1>3. CASE Joined(c)
  <2>2. /\ task'[c].pc = "over" /\ task'[c].req = task[c].req /\ task'[c].ans = task[c].ans
    BY <1>t, <1>3 DEF Joined, GoTask, TaskRec
  <2> QED BY <1>3, <2>2 DEF Joined, Ends, cliVars
<1>4. CASE DnsOpen(c) \/ DnsFails(c) \/ DnsRead(c) \/ DnsWrite(c) \/ RouteDel(c)
  <2>1. /\ task'[c].pc \in {"dnsRead", "dnsWrite", "route", "routeAdd"}
        /\ task'[c].req = task[c].req /\ task'[c].ans = task[c].ans
    <3>1. CASE DnsOpen(c) \/ DnsFails(c) BY <1>t, <3>1 DEF DnsOpen, DnsFails, GoTask, TaskRec
    <3>2. CASE DnsRead(c) BY <1>t, <3>2 DEF DnsRead, TaskRec
    <3>3. CASE DnsWrite(c) BY <1>t, <3>3 DEF DnsWrite, TaskRec
    <3>4. CASE RouteDel(c) BY <1>t, <3>4 DEF RouteDel, GoTask, TaskRec
    <3> QED BY <1>4, <3>1, <3>2, <3>3, <3>4
  <2>2. /\ UNCHANGED <<cliVars, answers>> /\ wire[c].link # "none" /\ Updating(c)
    BY <1>4 DEF DnsOpen, DnsFails, DnsRead, DnsWrite, RouteDel, At, Updating
  <2> QED BY <2>1, <2>2 DEF Updates, Updating, cliVars
<1>5. CASE Register(c)
  <2>0. PICK x : x = ToInt(ngReply'.ip) OBVIOUS
  <2>1. PICK p \in {"route", "dnsOpen"} : task' = [task EXCEPT ![c].ip = x, ![c].pc = p]
    BY <1>5, <2>0 DEF Register
  <2>2. /\ task'[c].pc = p /\ task'[c].req = task[c].req /\ task'[c].ans = task[c].ans
    BY <1>t, <2>1 DEF TaskRec
  <2> QED BY <1>5, <2>1, <2>2 DEF Register, At, Updates, Updating, cliVars
<1>6. CASE RegisterRefused(c) \/ RegisterEnds(c)
  <2>1. PICK code \in {200, 400} : /\ Reply(c, Own(c, code))
                                   /\ \/ RegisterRefused(c) /\ code = 400
                                      \/ RegisterEnds(c) /\ code = 200
    BY <1>6 DEF RegisterRefused, RegisterEnds
  <2>2. Own(c, code) \in Answer BY <2>1, Made DEF Codes
  <2>3. /\ At(c, "route") \/ At(c, "routeAdd")
        /\ Gw(c) = "NG" /\ UNCHANGED <<cli, sendMsg, recvMsg>>
    BY <1>6 DEF RegisterRefused, RegisterEnds
  <2>4. task'[c] = NewTask /\ Deliver(c, Own(c, code)) BY <2>1, ReplyFrame
  <2>5. Fit(c, Own(c, code)) /\ Outcome(c, Own(c, code))
    BY <2>1, <2>3 DEF Fit, Outcome
  <2>6. Replies(c, Own(c, code)) BY <2>2, <2>3, <2>4, <2>5 DEF Replies, At, Busy
  <2> QED BY <2>6
<1>7. CASE RequestEnds(c)
  <2>1. PICK code \in {200, 400, 405} : 
          /\ Reply(c, Own(c, code))
          /\ code = (IF Gw(c) = "OG" THEN 405 ELSE IF Accepted(Asked(c)) THEN 200 ELSE 400)
    BY <1>7, <1>g DEF RequestEnds
  <2>2. Own(c, code) \in Answer BY <2>1, Made DEF Codes
  <2>3. /\ At(c, "process") /\ UNCHANGED <<cli, sendMsg, recvMsg>>
    BY <1>7 DEF RequestEnds
  <2>4. task'[c] = NewTask /\ Deliver(c, Own(c, code)) BY <2>1, ReplyFrame
  <2>5. Fit(c, Own(c, code)) /\ Outcome(c, Own(c, code))
    BY <1>g, <1>7, <2>1, <2>3 DEF Fit, At, Outcome
  <2>6. Replies(c, Own(c, code)) BY <2>2, <2>3, <2>4, <2>5 DEF Replies, At, Busy
  <2> QED BY <2>6
<1>8. CASE Forwards(c)
  BY <1>8
<1>9. ASSUME Reply(c, Relayed(c)), task[c].pc \in {"response", "routeAdd", "inviteAdd"},
             Gw(c) = "OG", wire[c].link # "none",
             ResponseContact(c) \/ ResponseRoute(c) \/ InviteEnds(c) \/ ResponseOther(c),
             UNCHANGED <<cli, sendMsg, recvMsg>>
      PROVE  \E a : Replies(c, a)
  <2>1. Relayed(c) \in Answer BY Made
  <2>2. task'[c] = NewTask /\ Deliver(c, Relayed(c)) BY <1>9, ReplyFrame
  <2>3. Fit(c, Relayed(c)) /\ Outcome(c, Relayed(c)) BY <1>9 DEF Fit, Outcome
  <2>4. Replies(c, Relayed(c)) BY <1>9, <2>1, <2>2, <2>3 DEF Replies, Busy
  <2> QED BY <2>4
<1>10. CASE ResponseContact(c)
  <2>1. /\ At(c, "response") /\ Gw(c) = "OG" /\ UNCHANGED <<cli, sendMsg, recvMsg>>
    BY <1>10, <1>g DEF ResponseContact, At
  <2>2. CASE Reply(c, Relayed(c)) BY <1>9, <1>10, <2>1, <2>2 DEF At
  <2>3. CASE ~Reply(c, Relayed(c))
    <3>1. PICK x : task' = [task EXCEPT ![c].pc = "dnsOpen", ![c].ip = x]
                   /\ UNCHANGED <<wire, answers>>
      BY <1>10, <2>3 DEF ResponseContact
    <3>2. /\ task'[c].pc = "dnsOpen" /\ task'[c].req = task[c].req /\ task'[c].ans = task[c].ans
      BY <1>t, <3>1 DEF TaskRec
    <3> QED BY <2>1, <3>1, <3>2 DEF Updates, Updating, At
  <2> QED BY <2>2, <2>3
<1>11. CASE ResponseRoute(c) \/ InviteEnds(c)
  <2>1. /\ At(c, "routeAdd") \/ At(c, "inviteAdd")
        /\ Gw(c) = "OG" /\ UNCHANGED <<cli, sendMsg, recvMsg>> /\ Reply(c, Relayed(c))
    BY <1>11, <1>g DEF ResponseRoute, InviteEnds, At
  <2> QED BY <1>9, <1>11, <2>1 DEF At
<1>12. CASE ResponseOther(c)
  <2>1. /\ At(c, "response") /\ Gw(c) = "OG" /\ UNCHANGED <<cli, sendMsg, recvMsg>>
        /\ Reply(c, Relayed(c))
    BY <1>12, <1>g DEF ResponseOther, At
  <2> QED BY <1>9, <1>12, <2>1 DEF At
<1>13. CASE ResponseInvite(c)
  <2>1. PICK x : task' = [task EXCEPT ![c].pc = "inviteAdd", ![c].ip = x]
    BY <1>13 DEF ResponseInvite
  <2>2. /\ task'[c].pc = "inviteAdd" /\ task'[c].req = task[c].req /\ task'[c].ans = task[c].ans
    BY <1>t, <2>1 DEF TaskRec
  <2>3. task[c].pc = "response" /\ wire[c].link # "none" /\ UNCHANGED <<cliVars, answers>>
    BY <1>13 DEF ResponseInvite, At
  <2>4. Gw(c) = "OG" BY <1>g, <2>3
  <2> QED BY <2>2, <2>3, <2>4 DEF Updates, cliVars
<1> QED BY <1>1, <1>2, <1>3, <1>4, <1>5, <1>6, <1>7, <1>8, <1>10, <1>11, <1>12, <1>13
        DEF Task, Forwards

\* What a task at work, forwarding included, leaves alone.
Works(c) ==
  /\ Busy(c) /\ Busy(c)' /\ wire[c].link # "none"
  /\ UNCHANGED <<wire, answers>> /\ task'[c].req = task[c].req

\* A task that forwards works on its request.
LEMMA ForwardWorks ==
  ASSUME TypeOK, NEW c \in Conn, Forwards(c)
  PROVE  Works(c) /\ task'[c].pc \in {"pop", "process", "response"}
         /\ task[c].pc \in {"forward", "pop"}
<1>t. task \in [Conn -> TaskRec]
  BY TypeParts
<1>1. CASE ForwardPush(c)
  BY <1>1, <1>t DEF ForwardPush, Push, GoTask, At, Works, Busy, TaskRec
<1>2. CASE ForwardFails(c)
  BY <1>2, <1>t DEF ForwardFails, PopTimesOut, GoTask, At, Works, Busy, cliVars, TaskRec
<1>3. CASE ForwardPop(c)
  BY <1>3, <1>t DEF ForwardPop, Pop, At, Works, Busy, TaskRec
<1> QED BY <1>1, <1>2, <1>3 DEF Forwards

\* So does one that updates the hosts file or the routes.
LEMMA UpdateWorks ==
  ASSUME NEW c, Updates(c)
  PROVE  Works(c)
BY DEF Updates, Works, Busy, Updating

\* A task changes of a client only its flags stop, prompt and late.
Steady(s) ==
  /\ cli'[s].pc = cli[s].pc /\ cli'[s].conn = cli[s].conn /\ cli'[s].hears = cli[s].hears
  /\ cli'[s].some = cli[s].some /\ cli'[s].buf = cli[s].buf /\ cli'[s].got = cli[s].got
  /\ cli[s].late => cli'[s].late

\* A task's step leaves the clients alone, their queues aside.
LEMMA TaskSteady ==
  ASSUME TypeOK, NEW c \in Conn, Roles(c[1]), Task(c), NEW s \in OgSession
  PROVE  Steady(s) /\ Here(s)' = Here(s)
<1>t. cli \in [OgSession -> CliRec] BY TypeParts
<1>1. Steady(s)
  <2>1. CASE cli'[s] = cli[s] BY <2>1 DEF Steady
  <2>2. CASE Close(c) /\ cli'[s] # cli[s]
    <3>1. cli' = [cli EXCEPT ![c[1]].stop = TRUE] BY <2>2 DEF Close, Stop
    <3> QED BY <1>t, <3>1 DEF Steady, CliRec
  <2>3. CASE ForwardPush(c) BY <1>t, <2>3 DEF ForwardPush, Push, Steady, CliRec
  <2>4. CASE ForwardFails(c)
    BY <1>t, <2>4 DEF ForwardFails, PopTimesOut, Steady, CliRec, cliVars
  <2>5. CASE ~Close(c) /\ ~ForwardPush(c) /\ ~ForwardFails(c)
    <3>1. CASE \/ Recv(c) \/ Joined(c) \/ DnsOpen(c) \/ DnsFails(c) \/ DnsRead(c) \/ DnsWrite(c)
               \/ Register(c) \/ RouteDel(c) \/ ResponseInvite(c)
      BY <3>1, <2>1 DEF Recv, Joined, DnsOpen, DnsFails, DnsRead, DnsWrite, Register, RouteDel,
                        ResponseInvite, cliVars
    <3>2. CASE RegisterRefused(c) \/ RegisterEnds(c)
      BY <3>2, <2>1 DEF RegisterRefused, RegisterEnds
    <3>3. CASE RequestEnds(c) BY <3>3, <2>1 DEF RequestEnds
    <3>4. CASE ForwardPop(c) BY <3>4, <2>1 DEF ForwardPop, Pop
    <3>5. CASE ResponseContact(c) BY <3>5, <2>1 DEF ResponseContact
    <3>6. CASE ResponseRoute(c) \/ InviteEnds(c) BY <3>6, <2>1 DEF ResponseRoute, InviteEnds
    <3>7. CASE ResponseOther(c) BY <3>7, <2>1 DEF ResponseOther
    <3> QED BY <2>5, <3>1, <3>2, <3>3, <3>4, <3>5, <3>6, <3>7 DEF Task
  <2> QED BY <2>1, <2>2, <2>3, <2>4, <2>5
<1> QED BY <1>1 DEF Steady, Here

-----------------------------------------------------------------------------
(***************************************************************************)
(* A task's step keeps the parts of its session's invariant.               *)
(***************************************************************************)
\* What is left after a task of the session has taken a step.
LEMMA OthersOf ==
  ASSUME TypeOK, NEW c \in Conn, Roles(c[1]), Task(c)
  PROVE  /\ \A d \in Conn : d # c => task'[d] = task[d] /\ wire'[d] = wire[d]
         /\ \A d \in Conn : d # c => (Busy(d)' <=> Busy(d))
         /\ asked' = asked /\ Asks(c[1])' = Asks(c[1])
         /\ c # Base(c[1]) => answers' = answers
<1>1. Elsewhere(c) /\ Apart(c) BY TaskFrame
<1> QED BY <1>1, Conns DEF Elsewhere, Apart, Busy, Asks

\* The network gateway's tasks go on not to forward.
LEMMA TaskRoles ==
  ASSUME TypeOK, NEW c \in Conn, Roles(c[1]), Task(c)
  PROVE  Roles(c[1])'
<1>1. Gw(c) = "NG" => task[c].pc \notin {"forward", "pop", "response", "inviteAdd", "join"}
  BY Conns DEF Roles, Mine
<1>2. Gw(c) = "NG" =>
        task'[c].pc \in {"recv", "process", "dnsOpen", "dnsRead", "dnsWrite", "route", "routeAdd",
                         "over"}
  <2>1. CASE Accepts(c) BY <2>1 DEF Accepts
  <2>2. CASE Ends(c) BY <2>2 DEF Ends
  <2>3. CASE Updates(c) BY <2>3 DEF Updates, Updating
  <2>4. CASE Forwards(c) BY <1>1, <2>4, ForwardWorks
  <2>5. CASE \E a : Replies(c, a) BY <2>5 DEF Replies, NewTask
  <2> QED BY <2>1, <2>2, <2>3, <2>4, <2>5, TaskKinds
<1>3. \A d \in Conn : d # c => task'[d] = task[d] BY OthersOf
<1>4. \A d \in Mine(c[1]) : d \in Conn BY DEF Mine
<1> QED BY <1>2, <1>3, <1>4 DEF Roles, Mine, Gw

\* The request an answer of a network gateway's task is for, and where it goes.
LEMMA RepliesTo ==
  ASSUME TypeOK, NEW c \in Conn, NEW a, Replies(c, a)
  PROVE  /\ Gw(c) = "NG" => a.req = task[c].req
         /\ wire'[c].to = wire[c].to /\ wire'[c].link = wire[c].link
         /\ \/ wire'[c].back = wire[c].back
            \/ wire[c].link = "up" /\ wire'[c].back = Append(wire[c].back, a) /\ c[2] # 0
         /\ wire[c].link = "up" /\ c[2] # 0 => wire'[c].back = Append(wire[c].back, a)
         /\ c[2] = 0 => wire' = wire
         /\ c[2] = 0 => answers' = [answers EXCEPT ![c[1]] =
                          IF wire[c].link = "up" THEN Append(@, a) ELSE @]
         /\ task'[c] = NewTask /\ ~Busy(c)' /\ Busy(c)
<1>1. wire \in [Conn -> WireRec] BY TypeParts
<1>2. Gw(c) = "NG" => a.req = task[c].req BY DEF Replies, Fit, Own
<1>3. Deliver(c, a) BY DEF Replies
<1>4. /\ wire'[c].to = wire[c].to /\ wire'[c].link = wire[c].link
      /\ \/ wire'[c].back = wire[c].back
         \/ wire[c].link = "up" /\ wire'[c].back = Append(wire[c].back, a) /\ c[2] # 0
      /\ wire[c].link = "up" /\ c[2] # 0 => wire'[c].back = Append(wire[c].back, a)
  BY <1>1, <1>3 DEF Deliver, WireRec
<1> QED BY <1>2, <1>3, <1>4 DEF Replies, Deliver, Busy, NewTask

\* The elements of a sequence that one was appended to.
LEMMA Appended ==
  ASSUME NEW T, NEW x \in Seq(T), NEW a
  PROVE  \A i \in DOMAIN Append(x, a) : \/ i \in DOMAIN x /\ Append(x, a)[i] = x[i]
                                        \/ i = Len(x) + 1 /\ Append(x, a)[i] = a
OBVIOUS

\* The numbers on their way still stand for requests.
LEMMA TaskNumbers ==
  ASSUME TypeOK, NEW c \in Conn, Roles(c[1]), Numbers(c[1]), Task(c)
  PROVE  Numbers(c[1])'
<1> DEFINE s == c[1]
<1>m. c \in Mine(s) /\ Mine(s) \subseteq Conn /\ Mine(s)' = Mine(s) BY DEF Mine
<1>w. wire[c].to \in Seq(1 .. MaxReq) /\ wire[c].back \in Seq(Answer) BY WireFields
<1>n. /\ \A i \in DOMAIN wire[c].to : wire[c].to[i] \in Asks(s)
      /\ \A i \in DOMAIN wire[c].back : wire[c].back[i].req # 0
      /\ Busy(c) => task[c].req \in Asks(s)
  BY <1>m DEF Numbers
<1> DEFINE NumbersNext ==
             /\ \A i \in DOMAIN wire'[c].to : wire'[c].to[i] \in Asks(s)
             /\ \A i \in DOMAIN wire'[c].back : wire'[c].back[i].req # 0
             /\ Busy(c)' => task'[c].req \in Asks(s)
<1>1. NumbersNext
  <2>1. CASE Accepts(c)
    <3>1. /\ Head(wire[c].to) = wire[c].to[1] /\ 1 \in DOMAIN wire[c].to
          /\ \A i \in DOMAIN Tail(wire[c].to) :
               i + 1 \in DOMAIN wire[c].to /\ Tail(wire[c].to)[i] = wire[c].to[i + 1]
      BY <1>w, <2>1, HeadTail DEF Accepts
    <3> QED BY <1>n, <2>1, <3>1 DEF Accepts
  <2>2. CASE Ends(c) BY <1>n, <2>2 DEF Ends, Busy
  <2>3. CASE Works(c) BY <1>n, <2>3 DEF Works
  <2>4. ASSUME NEW a, Replies(c, a) PROVE NumbersNext
    <3>1. /\ wire'[c].to = wire[c].to /\ ~Busy(c)' BY <2>4, RepliesTo
    <3>2. CASE wire'[c].back = wire[c].back BY <1>n, <3>1, <3>2
    <3>3. CASE wire'[c].back = Append(wire[c].back, a) /\ c[2] # 0
      <4>1. Gw(c) = "NG" BY <3>3, Gateways, Conns
      <4>2. a.req \in Asks(s) BY <1>n, <2>4, <4>1, RepliesTo
      <4>3. a.req # 0 BY <4>2 DEF Asks
      <4> QED BY <1>n, <1>w, <3>1, <3>3, <4>3, Appended
    <3> QED BY <2>4, <3>2, <3>3, RepliesTo
  <2> QED BY <2>1, <2>2, <2>3, <2>4, TaskKinds, ForwardWorks, UpdateWorks
<1>2. \A d \in Mine(s) : d # c => /\ wire'[d] = wire[d] /\ task'[d] = task[d]
                                  /\ Busy(d)' <=> Busy(d)
  BY <1>m, OthersOf
<1>3. Asks(s)' = Asks(s) BY OthersOf
<1>4. ASSUME NEW d \in Mine(s)
      PROVE  /\ \A i \in DOMAIN wire'[d].to : wire'[d].to[i] \in Asks(s)
             /\ \A i \in DOMAIN wire'[d].back : wire'[d].back[i].req # 0
             /\ Busy(d)' => task'[d].req \in Asks(s)
  <2>1. CASE d = c BY <1>1, <2>1 DEF Busy
  <2>2. CASE d # c BY <1>2, <2>2 DEF Numbers
  <2> QED BY <2>1, <2>2
<1> QED BY <1>m, <1>3, <1>4 DEF Numbers

\* An agent and its task still take turns.
LEMMA TaskTurn ==
  ASSUME TypeOK, NEW c \in Conn, Roles(c[1]), Turn(c[1]), Task(c)
  PROVE  Turn(c[1])'
<1> DEFINE s == c[1]
<1>a. c[1] \in Session /\ Base(s) \in Conn BY Conns
<1>1. CASE c # Base(s)
  <2>1. /\ wire'[Base(s)] = wire[Base(s)] /\ task'[Base(s)] = task[Base(s)]
        /\ Busy(Base(s))' <=> Busy(Base(s))
        /\ asked' = asked /\ answers' = answers
    BY <1>a, <1>1, OthersOf
  <2> QED BY <2>1 DEF Turn, Base, Busy
<1>2. CASE c = Base(s)
  <2>t. /\ wire[c].to \in Seq(1 .. MaxReq) /\ answers \in [Session -> Seq(Answer)]
        /\ asked \in [Session -> Seq(Request)]
    BY WireFields, TypeParts
  <2>n. asked' = asked BY OthersOf
  <2>u. Turn(s) BY DEF Turn
  <2>i. /\ wire[c].to # << >> =>
             /\ wire[c].to = <<Len(asked[s])>> /\ ~Busy(c)
             /\ Len(asked[s]) = Len(answers[s]) + 1
        /\ Busy(c) => /\ wire[c].to = << >> /\ task[c].req = Len(asked[s])
                      /\ Len(asked[s]) = Len(answers[s]) + 1
        /\ wire[c].link = "up" /\ wire[c].to = << >> /\ ~Busy(c) => Len(asked[s]) = Len(answers[s])
        /\ task[c].pc \in {"join", "over"} => wire[c].link # "up"
    BY <1>2, <2>u, Zenon DEF Turn
  <2> DEFINE TurnNext ==
               /\ wire'[c].to # << >> =>
                    /\ wire'[c].to = <<Len(asked[s])>> /\ ~Busy(c)'
                    /\ Len(asked[s]) = Len(answers'[s]) + 1
               /\ Busy(c)' => /\ wire'[c].to = << >> /\ task'[c].req = Len(asked[s])
                              /\ Len(asked[s]) = Len(answers'[s]) + 1
               /\ wire'[c].link = "up" /\ wire'[c].to = << >> /\ ~Busy(c)'
                    => Len(asked[s]) = Len(answers'[s])
               /\ task'[c].pc \in {"join", "over"} => wire'[c].link # "up"
  <2>j. SUFFICES TurnNext
    BY <1>2, <2>n DEF Turn, Busy
  <2>1. CASE Accepts(c)
    <3>a. \A r : wire[c].to = <<r>> => Tail(wire[c].to) = << >> /\ Head(wire[c].to) = r
      OBVIOUS
    <3>b. wire[c].to = <<Len(asked[s])>> BY <2>i, <2>1 DEF Accepts
    <3>1. Tail(wire[c].to) = << >> /\ Head(wire[c].to) = Len(asked[s])
      BY <3>a, <3>b
    <3>2. task'[c].pc \in {"forward", "process"} BY <2>1 DEF Accepts
    <3>3. Len(asked[s]) = Len(answers[s]) + 1 /\ answers' = answers BY <2>i, <2>1 DEF Accepts
    <3>4. wire'[c].to = << >> /\ task'[c].req = Len(asked[s]) BY <2>1, <3>1 DEF Accepts
    <3> QED BY <3>2, <3>3, <3>4 DEF Busy
  <2>2. CASE Ends(c) BY <2>i, <2>2 DEF Ends, Busy
  <2>3. CASE Works(c) BY <2>i, <2>3 DEF Works, Busy
  <2>4. ASSUME NEW a, Replies(c, a) PROVE TurnNext
    <3>1. /\ wire' = wire /\ ~Busy(c)' /\ Busy(c) /\ task'[c] = NewTask
          /\ answers'[s] = IF wire[c].link = "up" THEN Append(answers[s], a) ELSE answers[s]
      BY <1>a, <1>2, <2>4, <2>t, Conns, RepliesTo
    <3>2. wire[c].link = "up" => Len(answers'[s]) = Len(answers[s]) + 1
      BY <1>a, <2>t, <3>1
    <3> QED BY <2>i, <3>1, <3>2 DEF NewTask
  <2> QED BY <2>1, <2>2, <2>3, <2>4, TaskKinds, ForwardWorks, UpdateWorks
<1> QED BY <1>1, <1>2

\* The later connections are still as new.
LEMMA TaskPlace ==
  ASSUME TypeOK, NEW c \in Conn, Roles(c[1]), c[1] \in OgSession, Place(c[1]), Task(c)
  PROVE  Place(c[1])'
<1> DEFINE s == c[1]
<1>c. Steady(s) /\ Here(s)' = Here(s) BY TaskSteady
<1>h. Here(s) \in Conn BY HereConn
<1>p. /\ cli[s].pc \notin {"connect", "ended"} => cli[s].conn # 0
      /\ cli[s].some => cli[s].pc = "recv" /\ wire[Here(s)].back # << >>
      /\ \A k \in cli[s].conn + 1 .. MaxConn :
           /\ wire[<<s, k>>].to = << >> /\ wire[<<s, k>>].back = << >>
           /\ wire[<<s, k>>].link = "none" /\ task[<<s, k>>] = NewTask
  BY DEF Place, Back
<1> DEFINE Left == wire[c].back # << >> => wire'[c].back # << >>
<1>b. Left
  <2>1. CASE Accepts(c) BY <2>1 DEF Accepts
  <2>2. CASE Ends(c) BY <2>2 DEF Ends
  <2>3. CASE Works(c) BY <2>3 DEF Works
  <2>4. ASSUME NEW a, Replies(c, a) PROVE Left
    <3>1. wire[c].back \in Seq(Answer) BY WireFields
    <3>2. Append(wire[c].back, a) # << >> BY <3>1
    <3>3. wire'[c].back \in {wire[c].back, Append(wire[c].back, a)} BY <2>4, RepliesTo
    <3> QED BY <3>2, <3>3
  <2> QED BY <2>1, <2>2, <2>3, <2>4, TaskKinds, ForwardWorks, UpdateWorks
<1>k. \A k \in cli[s].conn + 1 .. MaxConn : <<s, k>> \in Conn /\ <<s, k>> # c
  <2> SUFFICES ASSUME NEW k \in cli[s].conn + 1 .. MaxConn
               PROVE  <<s, k>> \in Conn /\ <<s, k>> # c
    OBVIOUS
  <2>1. cli[s].conn \in 0 .. MaxConn BY CliFields
  <2>2. k \in 0 .. MaxConn BY <2>1, Bounds
  <2>3. <<s, k>> \in Conn BY <2>2, Conns
  <2>4. CASE c = <<s, k>>
    <3>1. wire[c].link = "none" /\ task[c] = NewTask BY <1>p, <2>4
    <3>2. task[c].pc = "recv" BY <3>1 DEF NewTask
    <3>3. ~Accepts(c) /\ ~Ends(c) /\ ~Works(c) /\ \A a : ~Replies(c, a)
      BY <3>1, <3>2 DEF Accepts, Ends, Works, Replies
    <3> QED BY <3>3, TaskKinds, ForwardWorks, UpdateWorks
  <2> QED BY <2>3, <2>4
<1>o. \A d \in Conn : d # c => task'[d] = task[d] /\ wire'[d] = wire[d] BY OthersOf
<1>1. cli'[s].pc \notin {"connect", "ended"} => cli'[s].conn # 0 BY <1>c, <1>p DEF Steady
<1>2. cli'[s].some => cli'[s].pc = "recv" /\ wire'[Here(s)].back # << >>
  BY <1>c, <1>p, <1>b, <1>h, <1>o DEF Steady
<1>3. \A k \in cli'[s].conn + 1 .. MaxConn :
           /\ wire'[<<s, k>>].to = << >> /\ wire'[<<s, k>>].back = << >>
           /\ wire'[<<s, k>>].link = "none" /\ task'[<<s, k>>] = NewTask
  BY <1>c, <1>p, <1>k, <1>o DEF Steady
<1> QED BY <1>c, <1>1, <1>2, <1>3 DEF Place, Back

\* What waits to be sent still stands for a request.
LEMMA TaskPending ==
  ASSUME TypeOK, NEW c \in Conn, Roles(c[1]), c[1] \in OgSession, Numbers(c[1]),
         Pending(c[1]), Task(c)
  PROVE  Pending(c[1])'
<1> DEFINE s == c[1]
<1>c. Steady(s) BY TaskSteady
<1>a. Asks(s)' = Asks(s) BY OthersOf
<1>t. sendMsg \in [OgSession -> Seq(1 .. MaxReq)] BY TypeParts DEF SendType
<1>1. \A i \in DOMAIN sendMsg'[s] : sendMsg'[s][i] \in Asks(s)
  <2>1. CASE sendMsg'[s] = sendMsg[s] BY <2>1 DEF Pending
  <2>2. CASE ForwardPush(c) /\ sendMsg'[s] # sendMsg[s]
    <3>1. sendMsg'[s] = <<task[c].req>> BY <1>t, <2>2 DEF ForwardPush, Push
    <3>2. task[c].pc = "forward" BY <2>2 DEF ForwardPush, At
    <3>3. task[c].req \in Asks(s) BY <3>2 DEF Numbers, Mine, Busy
    <3> QED BY <3>1, <3>3
  <2>3. CASE ForwardFails(c) BY <2>1, <2>3 DEF ForwardFails, PopTimesOut, cliVars
  <2>4. CASE ForwardPop(c) BY <2>1, <2>4 DEF ForwardPop, Pop
  <2>5. CASE Accepts(c) \/ Ends(c) \/ Updates(c) BY <2>1, <2>5 DEF Accepts, Ends, Updates
  <2>6. CASE \E a : Replies(c, a) BY <2>1, <2>6 DEF Replies
  <2> QED BY <2>1, <2>2, <2>3, <2>4, <2>5, <2>6, TaskKinds DEF Forwards
<1>2. cli'[s].pc = "send" => cli'[s].buf \in Asks(s) BY <1>c DEF Steady, Pending
<1> QED BY <1>a, <1>1, <1>2 DEF Pending

\* Where the one request on a connection is goes on with the step.
LEMMA TaskSole ==
  ASSUME TypeOK, NEW c \in Conn, Roles(c[1]), Task(c), c[2] # 0
  PROVE  /\ Quiet(c) => Quiet(c)'
         /\ \A r : Sole(c, r) => Sole(c, r)' \/ Quiet(c)'
         /\ \A r, x : Sole(c, r) /\ Sole(c, x)' => x = r
         /\ \A x : Quiet(c) => ~Sole(c, x)'
<1>w. wire[c].to \in Seq(1 .. MaxReq) /\ wire[c].back \in Seq(Answer) BY WireFields
<1>1. CASE Accepts(c)
  <2>1. wire[c].to # << >> /\ ~Busy(c) /\ Busy(c)' BY <1>1 DEF Accepts, Busy
  <2>2. \A r : wire[c].to = <<r>> => Tail(wire[c].to) = << >> /\ Head(wire[c].to) = r
    OBVIOUS
  <2>q. wire'[c].back = wire[c].back BY <1>1 DEF Accepts
  <2>3. \A r : Sole(c, r) => wire[c].to = <<r>> /\ wire[c].back = << >>
    BY <2>1 DEF Sole
  <2>4. \A r : Sole(c, r) => wire'[c].to = << >> /\ task'[c].req = r /\ wire'[c].back = << >>
    BY <1>1, <2>2, <2>3 DEF Accepts
  <2>5. \A r : Sole(c, r) => Sole(c, r)' BY <2>1, <2>4 DEF Sole
  <2>6. \A r, x : Sole(c, r) /\ Sole(c, x)' => x = r BY <2>1, <2>4 DEF Sole
  <2> QED BY <2>1, <2>5, <2>6 DEF Quiet
<1>2. CASE Ends(c)
  BY <1>2 DEF Ends, Quiet, Sole, Busy
<1>3. CASE Works(c)
  BY <1>3 DEF Works, Quiet, Sole
<1>4. ASSUME NEW a, Replies(c, a)
      PROVE  /\ Quiet(c) => Quiet(c)'
             /\ \A r : Sole(c, r) => Sole(c, r)' \/ Quiet(c)'
             /\ \A r, x : Sole(c, r) /\ Sole(c, x)' => x = r
             /\ \A x : Quiet(c) => ~Sole(c, x)'
  <2>1. /\ Busy(c) /\ ~Busy(c)' /\ wire'[c].to = wire[c].to /\ a.req = task[c].req
        /\ \/ wire'[c].back = wire[c].back
           \/ wire'[c].back = Append(wire[c].back, a)
    BY <1>4, RepliesTo, Gateways, Conns
  <2>2. ~Quiet(c) BY <2>1 DEF Quiet
  <2>3. \A r : Sole(c, r) => wire[c].to = << >> /\ wire[c].back = << >> /\ task[c].req = r
    BY <2>1 DEF Sole
  <2>4. wire[c].back = << >> =>
          /\ Append(wire[c].back, a) # << >> /\ Len(Append(wire[c].back, a)) = 1
          /\ Append(wire[c].back, a)[1] = a
          /\ Len(wire[c].back) = 0
    BY <1>w
  <2>5. ASSUME NEW r, Sole(c, r)
        PROVE  /\ Sole(c, r)' \/ Quiet(c)'
               /\ \A x : Sole(c, x)' => x = r
    <3>1. wire'[c].to = << >> /\ wire[c].back = << >> /\ a.req = r BY <2>1, <2>3, <2>5
    <3>2. CASE wire'[c].back = wire[c].back
      <4>1. wire'[c].back = << >> /\ Len(wire'[c].back) = 0 BY <2>4, <3>1, <3>2
      <4> QED BY <2>1, <3>1, <4>1 DEF Quiet, Sole
    <3>3. CASE wire'[c].back = Append(wire[c].back, a)
      <4>1. wire'[c].back # << >> /\ Len(wire'[c].back) = 1 /\ wire'[c].back[1] = a
        BY <2>4, <3>1, <3>3
      <4> QED BY <2>1, <3>1, <4>1 DEF Sole
    <3> QED BY <2>1, <3>2, <3>3
  <2> QED BY <2>2, <2>5
<1> QED BY <1>1, <1>2, <1>3, <1>4, TaskKinds, ForwardWorks, UpdateWorks

\* A connection left alone has the same to hear.
LEMMA SoleStays ==
  ASSUME NEW h, wire'[h] = wire[h], task'[h] = task[h]
  PROVE  /\ Quiet(h)' <=> Quiet(h)
         /\ \A r : Sole(h, r)' <=> Sole(h, r)
BY DEF Quiet, Sole, Busy

\* The connection of a client, at the next state.
LEMMA SoleAt ==
  ASSUME NEW s, NEW h, Here(s)' = h
  PROVE  /\ Quiet(Here(s))' <=> Quiet(h)'
         /\ \A r : Sole(Here(s), r)' <=> Sole(h, r)'
BY DEF Quiet, Sole, Busy

\* What a task's step does to the connection of its session's client.
LEMMA TaskHere ==
  ASSUME TypeOK, NEW c \in Conn, Roles(c[1]), Task(c), c[1] \in OgSession,
         cli[c[1]].conn # 0
  PROVE  /\ Quiet(Here(c[1])) => Quiet(Here(c[1]))'
         /\ \A r : Sole(Here(c[1]), r) => Sole(Here(c[1]), r)' \/ Quiet(Here(c[1]))'
         /\ \A r, x : Sole(Here(c[1]), r) /\ Sole(Here(c[1]), x)' => x = r
         /\ \A x : Quiet(Here(c[1])) => ~Sole(Here(c[1]), x)'
<1>p. PICK h : h = Here(c[1]) OBVIOUS
<1>h. h \in Conn /\ h[2] # 0 /\ Here(c[1])' = h BY <1>p, HereConn, TaskSteady
<1>1. /\ Quiet(h) => Quiet(h)'
      /\ \A r : Sole(h, r) => Sole(h, r)' \/ Quiet(h)'
      /\ \A r, x : Sole(h, r) /\ Sole(h, x)' => x = r
      /\ \A x : Quiet(h) => ~Sole(h, x)'
  <2>1. CASE h = c
    <3>1. /\ Quiet(c) => Quiet(c)'
          /\ \A r : Sole(c, r) => Sole(c, r)' \/ Quiet(c)'
          /\ \A r, x : Sole(c, r) /\ Sole(c, x)' => x = r
          /\ \A x : Quiet(c) => ~Sole(c, x)'
      BY <1>h, <2>1, TaskSole
    <3>2. /\ Quiet(c)' <=> Quiet(h)'
          /\ \A r : Sole(c, r)' <=> Sole(h, r)'
      BY <2>1 DEF Quiet, Sole, Busy
    <3> QED BY <2>1, <3>1, <3>2
  <2>2. CASE h # c
    <3>1. wire'[h] = wire[h] /\ task'[h] = task[h] BY <1>h, <2>2, OthersOf
    <3>2. /\ Quiet(h)' <=> Quiet(h)
          /\ \A r : Sole(h, r)' <=> Sole(h, r)
      BY <3>1, SoleStays
    <3>3. \A r, x : Sole(h, r) /\ Sole(h, x) => x = r
      <4>1. ASSUME NEW r, NEW x, wire[h].to = <<r>>, wire[h].to = <<x>> PROVE x = r
        BY <4>1
      <4>2. ASSUME NEW r PROVE <<r>> # << >> OBVIOUS
      <4> QED BY <4>1, <4>2 DEF Sole
    <3>4. \A x : Quiet(h) => ~Sole(h, x)
      <4>1. ASSUME NEW x PROVE <<x>> # << >> OBVIOUS
      <4>2. ASSUME wire[h].back = << >> PROVE Len(wire[h].back) # 1 BY <4>2
      <4> QED BY <4>1, <4>2 DEF Sole, Quiet
    <3> QED BY <3>2, <3>3, <3>4
  <2> QED BY <2>1, <2>2
<1>2. /\ Quiet(Here(c[1]))' <=> Quiet(h)'
      /\ \A r : Sole(Here(c[1]), r)' <=> Sole(h, r)'
  BY <1>h, SoleAt
<1>3. /\ Quiet(Here(c[1])) <=> Quiet(h)
      /\ \A r : Sole(Here(c[1]), r) <=> Sole(h, r)
  BY <1>p
<1> QED BY <1>1, <1>2, <1>3

\* A client that hears still has one request at most to hear of.
LEMMA TaskHearing ==
  ASSUME TypeOK, NEW c \in Conn, Roles(c[1]), Task(c), c[1] \in OgSession,
         Place(c[1]), Hearing(c[1])
  PROVE  Hearing(c[1])'
<1> DEFINE s == c[1]
<1>c. Steady(s) BY TaskSteady
<1>1. CASE cli[s].hears /\ cli[s].pc \in {"pop", "waiting", "send", "push"}
  <2>1. Quiet(Here(s)) /\ cli[s].conn # 0 BY <1>1 DEF Hearing, Place
  <2>2. Quiet(Here(s))' BY <2>1, TaskHere
  <2> QED BY <1>1, <1>c, <2>2 DEF Hearing, Steady
<1>2. CASE cli[s].hears /\ cli[s].pc = "recv"
  <2>1. cli[s].conn # 0 BY <1>2 DEF Place
  <2>2. Quiet(Here(s)) \/ \E r \in 1 .. MaxReq : Sole(Here(s), r) BY <1>2 DEF Hearing
  <2>3. Quiet(Here(s))' \/ \E r \in 1 .. MaxReq : Sole(Here(s), r)' BY <2>1, <2>2, TaskHere
  <2> QED BY <1>2, <1>c, <2>3 DEF Hearing, Steady
<1> QED BY <1>c, <1>1, <1>2 DEF Hearing, Steady

\* No task's step puts another request into its client's hands.
LEMMA TaskHeld ==
  ASSUME TypeOK, NEW c \in Conn, Roles(c[1]), Task(c), c[1] \in OgSession,
         Place(c[1]), Hearing(c[1])
  PROVE  Held(c[1])' \subseteq Held(c[1])
<1> DEFINE s == c[1]
<1>c. Steady(s) BY TaskSteady
<1> SUFFICES ASSUME NEW r \in Held(s)' PROVE r \in Held(s)
  OBVIOUS
<1>1. r \in 1 .. MaxReq /\ \/ cli'[s].pc = "send" /\ cli'[s].buf = r
                           \/ cli'[s].pc = "recv" /\ cli'[s].hears /\ Sole(Here(s), r)'
                           \/ cli'[s].pc = "push" /\ cli'[s].got.req = r
  BY DEF Held
<1>2. CASE cli[s].pc = "recv" /\ cli[s].hears /\ Sole(Here(s), r)'
  <2>1. cli[s].conn # 0 BY <1>2 DEF Place
  <2>2. Quiet(Here(s)) \/ \E x \in 1 .. MaxReq : Sole(Here(s), x) BY <1>2 DEF Hearing
  <2>3. Sole(Here(s), r) BY <1>2, <2>1, <2>2, TaskHere
  <2> QED BY <1>1, <1>2, <2>3 DEF Held
<1>3. CASE ~(cli[s].pc = "recv" /\ cli[s].hears /\ Sole(Here(s), r)')
  BY <1>c, <1>1, <1>3 DEF Steady, Held
<1> QED BY <1>2, <1>3

(***************************************************************************)
(* How the requests of a session move on.                                  *)
(***************************************************************************)
\* Fewer requests are still in order.
LEMMA InTurnLess ==
  ASSUME NEW A, NEW B, NEW C, NEW D, NEW E, InTurn(A, B, C, D, E),
         NEW a, NEW b, NEW c, NEW d, NEW e,
         a \subseteq A, b \subseteq B, c \subseteq C, d \subseteq D, e \subseteq E
  PROVE  InTurn(a, b, c, d, e)
BY DEF InTurn, Below

\* An answer is told, fetched, kept; a request is taken by the client.
LEMMA InTurnMoves ==
  ASSUME NEW A, NEW B, NEW C, NEW D, NEW E, InTurn(A, B, C, D, E)
  PROVE  /\ InTurn(A \cup B, {}, C, D, E)
         /\ InTurn(A, C, {}, D, E) /\ InTurn(A, B, D, {}, E) /\ InTurn(A, B, C, E, {})
BY DEF InTurn, Below

\* A request later than all others comes in last.
LEMMA InTurnNew ==
  ASSUME NEW A, NEW B, NEW C, NEW D, NEW r, InTurn(A, B, C, D, {}),
         \A x \in A \cup B \cup C \cup D : x < r
  PROVE  InTurn(A, B, C, D, {r})
BY DEF InTurn, Below

\* What has been started of a session stays where it is or moves on.
Moves(s) ==
  \/ /\ Told(s)' \subseteq Told(s) /\ Fetched(s)' \subseteq Fetched(s) /\ Kept(s)' \subseteq Kept(s)
     /\ Held(s)' \subseteq Held(s) /\ Queued(s)' \subseteq Queued(s)
  \/ /\ Told(s)' \subseteq Told(s) \cup Fetched(s) /\ Fetched(s)' = {} /\ Kept(s)' \subseteq Kept(s)
     /\ Held(s)' \subseteq Held(s) /\ Queued(s)' \subseteq Queued(s)
  \/ /\ Told(s)' \subseteq Told(s) /\ Fetched(s)' \subseteq Kept(s) /\ Kept(s)' = {}
     /\ Held(s)' \subseteq Held(s) /\ Queued(s)' \subseteq Queued(s)
  \/ /\ Told(s)' \subseteq Told(s) /\ Fetched(s)' \subseteq Fetched(s) /\ Kept(s)' \subseteq Held(s)
     /\ Held(s)' = {} /\ Queued(s)' \subseteq Queued(s)
  \/ /\ Told(s)' \subseteq Told(s) /\ Fetched(s)' \subseteq Fetched(s) /\ Kept(s)' \subseteq Kept(s)
     /\ Held(s)' \subseteq Queued(s) /\ Queued(s)' = {}

\* Requests that move on stay in order, and none appears.
LEMMA MovesInTurn ==
  ASSUME NEW s, Moves(s), InTurn(Told(s), Fetched(s), Kept(s), Held(s), Queued(s))
  PROVE  /\ InTurn(Told(s), Fetched(s), Kept(s), Held(s), Queued(s))'
         /\ Started(s)' \subseteq Started(s)
<1> DEFINE A == Told(s)
           B == Fetched(s)
           C == Kept(s)
           D == Held(s)
           E == Queued(s)
           a == Told(s)'
           b == Fetched(s)'
           c == Kept(s)'
           d == Held(s)'
           e == Queued(s)'
<1>1. \/ a \subseteq A /\ b \subseteq B /\ c \subseteq C /\ d \subseteq D /\ e \subseteq E
      \/ a \subseteq A \cup B /\ b = {} /\ c \subseteq C /\ d \subseteq D /\ e \subseteq E
      \/ a \subseteq A /\ b \subseteq C /\ c = {} /\ d \subseteq D /\ e \subseteq E
      \/ a \subseteq A /\ b \subseteq B /\ c \subseteq D /\ d = {} /\ e \subseteq E
      \/ a \subseteq A /\ b \subseteq B /\ c \subseteq C /\ d \subseteq E /\ e = {}
  BY DEF Moves
<1>2. Started(s) = A \cup B \cup C \cup D \cup E /\ Started(s)' = a \cup b \cup c \cup d \cup e
  BY DEF Started
<1>3. InTurn(A, B, C, D, E) OBVIOUS
<1>4. InTurn(Told(s), Fetched(s), Kept(s), Held(s), Queued(s))' <=> InTurn(a, b, c, d, e)
  BY DEF InTurn, Below
<1> HIDE DEF A, B, C, D, E, a, b, c, d, e
<1>5. /\ InTurn(A \cup B, {}, C, D, E)
      /\ InTurn(A, C, {}, D, E) /\ InTurn(A, B, D, {}, E) /\ InTurn(A, B, C, E, {})
  BY <1>3, InTurnMoves
<1>6. InTurn(a, b, c, d, e)
  <2>1. CASE a \subseteq A /\ b \subseteq B /\ c \subseteq C /\ d \subseteq D /\ e \subseteq E
    BY <1>3, <2>1, InTurnLess
  <2>2. CASE a \subseteq A \cup B /\ b = {} /\ c \subseteq C /\ d \subseteq D /\ e \subseteq E
    BY <1>5, <2>2, InTurnLess
  <2>3. CASE a \subseteq A /\ b \subseteq C /\ c = {} /\ d \subseteq D /\ e \subseteq E
    BY <1>5, <2>3, InTurnLess
  <2>4. CASE a \subseteq A /\ b \subseteq B /\ c \subseteq D /\ d = {} /\ e \subseteq E
    BY <1>5, <2>4, InTurnLess
  <2>5. CASE a \subseteq A /\ b \subseteq B /\ c \subseteq C /\ d \subseteq E /\ e = {}
    BY <1>5, <2>5, InTurnLess
  <2> QED BY <1>1, <2>1, <2>2, <2>3, <2>4, <2>5
<1>7. Started(s)' \subseteq Started(s) BY <1>1, <1>2
<1> QED BY <1>4, <1>6, <1>7

\* What a task has pushed is the only request in its client's queue.
Pushes(c) ==
  /\ ForwardPush(c) /\ c = Base(c[1])
  /\ sendMsg[c[1]] = << >> /\ sendMsg'[c[1]] = <<task[c].req>>

\* What forwarding does to the two queues, branch by branch.
LEMMA ForwardEffect ==
  ASSUME TypeOK, NEW c \in Conn, c[1] \in OgSession, Forwards(c)
  PROVE  /\ ForwardPush(c) => /\ task[c].pc = "forward" /\ task'[c].pc = "pop"
                              /\ recvMsg' = recvMsg /\ task'[c].ans = task[c].ans
                              /\ \/ sendMsg' = sendMsg
                                 \/ sendMsg[c[1]] = << >> /\ sendMsg'[c[1]] = <<task[c].req>>
                              /\ sendMsg[c[1]] = << >> => sendMsg'[c[1]] = <<task[c].req>>
         /\ ForwardFails(c) => /\ task'[c].pc = "process" /\ UNCHANGED <<sendMsg, recvMsg>>
                               /\ task'[c].ans = task[c].ans
                               /\ \/ task[c].pc = "forward"
                                  \/ /\ task[c].pc = "pop" /\ recvMsg[c[1]] = << >>
                                     /\ ~cli'[c[1]].late =>
                                          ~Occupied(c[1]) /\ sendMsg[c[1]] = << >>
         /\ ForwardPop(c) => /\ task[c].pc = "pop" /\ task'[c].pc = "response"
                             /\ recvMsg[c[1]] # << >> /\ recvMsg'[c[1]] = << >>
                             /\ task'[c].ans = Head(recvMsg[c[1]]) /\ sendMsg' = sendMsg
<1>t. /\ task \in [Conn -> TaskRec] /\ cli \in [OgSession -> CliRec]
      /\ sendMsg \in [OgSession -> Seq(1 .. MaxReq)] /\ recvMsg \in [OgSession -> Seq(Answer)]
  BY TypeParts DEF SendType, RecvType
<1>1. ForwardPush(c) => /\ task[c].pc = "forward" /\ task'[c].pc = "pop"
                        /\ recvMsg' = recvMsg /\ task'[c].ans = task[c].ans
                        /\ \/ sendMsg' = sendMsg
                           \/ sendMsg[c[1]] = << >> /\ sendMsg'[c[1]] = <<task[c].req>>
                        /\ sendMsg[c[1]] = << >> => sendMsg'[c[1]] = <<task[c].req>>
  <2> SUFFICES ASSUME ForwardPush(c)
               PROVE  /\ task[c].pc = "forward" /\ task'[c].pc = "pop"
                      /\ recvMsg' = recvMsg /\ task'[c].ans = task[c].ans
                      /\ \/ sendMsg' = sendMsg
                         \/ sendMsg[c[1]] = << >> /\ sendMsg'[c[1]] = <<task[c].req>>
                      /\ sendMsg[c[1]] = << >> => sendMsg'[c[1]] = <<task[c].req>>
    OBVIOUS
  <2>1. /\ task[c].pc = "forward" /\ task'[c].pc = "pop"
        /\ recvMsg' = recvMsg /\ task'[c].ans = task[c].ans
    BY <1>t DEF ForwardPush, Push, GoTask, At, TaskRec
  <2>2. sendMsg' = [sendMsg EXCEPT ![c[1]] = IF @ = << >> THEN <<task[c].req>> ELSE @]
    BY DEF ForwardPush, Push
  <2> QED BY <1>t, <2>1, <2>2
<1>2. ForwardFails(c) => /\ task'[c].pc = "process" /\ UNCHANGED <<sendMsg, recvMsg>>
                         /\ task'[c].ans = task[c].ans
                         /\ \/ task[c].pc = "forward"
                            \/ /\ task[c].pc = "pop" /\ recvMsg[c[1]] = << >>
                               /\ ~cli'[c[1]].late =>
                                    ~Occupied(c[1]) /\ sendMsg[c[1]] = << >>
  <2> SUFFICES ASSUME ForwardFails(c)
               PROVE  /\ task'[c].pc = "process" /\ UNCHANGED <<sendMsg, recvMsg>>
                      /\ task'[c].ans = task[c].ans
                      /\ \/ task[c].pc = "forward"
                         \/ /\ task[c].pc = "pop" /\ recvMsg[c[1]] = << >>
                            /\ ~cli'[c[1]].late =>
                                 ~Occupied(c[1]) /\ sendMsg[c[1]] = << >>
    OBVIOUS
  <2>1. task'[c].pc = "process" /\ task'[c].ans = task[c].ans
    BY <1>t DEF ForwardFails, GoTask, TaskRec
  <2>2. CASE task[c].pc = "forward"
    BY <2>1, <2>2 DEF ForwardFails, PopTimesOut, cliVars
  <2>3. CASE task[c].pc # "forward"
    <3>1. task[c].pc = "pop" /\ PopTimesOut(c[1]) BY <2>3 DEF ForwardFails, At
    <3>2. cli'[c[1]].late = (\/ cli[c[1]].late
                             \/ cli[c[1]].pc \in {"send", "recv", "push"}
                             \/ sendMsg[c[1]] # << >>)
      BY <1>t, <3>1 DEF PopTimesOut, CliRec
    <3> QED BY <2>1, <3>1, <3>2 DEF PopTimesOut, Occupied
  <2> QED BY <2>2, <2>3
<1>3. ForwardPop(c) => /\ task[c].pc = "pop" /\ task'[c].pc = "response"
                       /\ recvMsg[c[1]] # << >> /\ recvMsg'[c[1]] = << >>
                       /\ task'[c].ans = Head(recvMsg[c[1]]) /\ sendMsg' = sendMsg
  BY <1>t DEF ForwardPop, Pop, At, TaskRec
<1> QED BY <1>1, <1>2, <1>3

\* The queues and what has been fetched, when another task of the session moves.
LEMMA TaskMoves ==
  ASSUME TypeOK, NEW c \in Conn, Roles(c[1]), Task(c), c[1] \in OgSession,
         Place(c[1]), Hearing(c[1])
  PROVE  Moves(c[1]) \/ Pushes(c)
<1> DEFINE s == c[1]
<1>h. Held(s)' \subseteq Held(s) BY TaskHeld
<1>b. Base(s) \in Conn /\ c[1] \in Session BY Conns
<1>q. sendMsg'[s] = sendMsg[s] => Queued(s)' = Queued(s)
  BY DEF Queued
<1>k. recvMsg'[s] = recvMsg[s] => Kept(s)' = Kept(s)
  BY DEF Kept
<1>t. answers'[s] = answers[s] => Told(s)' = Told(s)
  BY DEF Told
<1>1. CASE c # Base(s)
  <2>1. Gw(c) = "NG" /\ Apart(c) BY <1>1, Gateways, TaskFrame
  <2>2. task'[Base(s)] = task[Base(s)] /\ answers' = answers /\ UNCHANGED <<sendMsg, recvMsg>>
    BY <1>1, <1>b, <2>1, OthersOf DEF Apart
  <2>3. Fetched(s)' = Fetched(s) BY <2>2 DEF Fetched, Updating, Base
  <2> QED BY <1>h, <1>q, <1>k, <1>t, <2>2, <2>3 DEF Moves
<1>2. CASE c = Base(s)
  <2>g. Gw(c) = "OG" BY <1>2, Gateways
  <2>1. CASE Accepts(c) \/ Ends(c)
    <3>1. task'[c].pc \in {"forward", "join", "over"} /\ UNCHANGED <<answers, sendMsg, recvMsg>>
      BY <2>g, <2>1 DEF Accepts, Ends
    <3>2. Fetched(s)' = {} BY <1>2, <3>1 DEF Fetched, Updating, Base
    <3> QED BY <1>h, <1>q, <1>k, <1>t, <3>1, <3>2 DEF Moves
  <2>2. CASE Updates(c)
    <3>1. /\ UNCHANGED <<answers, sendMsg, recvMsg>> /\ task'[c].ans = task[c].ans
          /\ Updating(c) \/ task[c].pc = "response"
      BY <2>g, <2>2 DEF Updates
    <3>2. Fetched(s)' \subseteq Fetched(s)
      <4>1. task'[Base(s)].ans = task[Base(s)].ans
            /\ (Updating(Base(s)) \/ task[Base(s)].pc = "response")
        BY <1>2, <3>1
      <4> QED BY <4>1 DEF Fetched, Base
    <3> QED BY <1>h, <1>q, <1>k, <1>t, <3>1, <3>2 DEF Moves
  <2>3. CASE Forwards(c)
    <3>a. answers' = answers BY <2>3, ForwardWorks DEF Works
    <3>1. CASE ForwardPush(c)
      <4>1. /\ task'[c].pc = "pop" /\ recvMsg' = recvMsg
            /\ \/ sendMsg' = sendMsg
               \/ sendMsg[s] = << >> /\ sendMsg'[s] = <<task[c].req>>
        BY <2>3, <3>1, ForwardEffect
      <4>2. Fetched(s)' = {} BY <1>2, <4>1 DEF Fetched, Updating, Base
      <4>3. CASE sendMsg' = sendMsg
        BY <1>h, <1>q, <1>k, <1>t, <3>a, <4>1, <4>2, <4>3 DEF Moves
      <4>4. CASE sendMsg[s] = << >> /\ sendMsg'[s] = <<task[c].req>>
        BY <1>2, <3>1, <4>4 DEF Pushes
      <4> QED BY <4>1, <4>3, <4>4
    <3>2. CASE ForwardFails(c)
      <4>1. task'[c].pc = "process" /\ UNCHANGED <<sendMsg, recvMsg>>
        BY <2>3, <3>2, ForwardEffect
      <4>2. Fetched(s)' = {} BY <1>2, <4>1 DEF Fetched, Updating, Base
      <4> QED BY <1>h, <1>q, <1>k, <1>t, <3>a, <4>1, <4>2 DEF Moves
    <3>3. CASE ForwardPop(c)
      <4>1. /\ recvMsg[s] # << >> /\ recvMsg'[s] = << >>
            /\ task'[c].ans = Head(recvMsg[s]) /\ sendMsg' = sendMsg
        BY <2>3, <3>3, ForwardEffect
      <4>2. Kept(s)' = {} BY <4>1 DEF Kept
      <4>3. recvMsg[s] \in Seq(Answer) BY CliFields
      <4>4. 1 \in DOMAIN recvMsg[s] /\ Head(recvMsg[s]) = recvMsg[s][1]
        BY <4>1, <4>3, HeadTail
      <4>5. Fetched(s)' \subseteq Kept(s) BY <1>2, <4>1, <4>4 DEF Fetched, Kept, Base
      <4> QED BY <1>h, <1>q, <1>t, <3>a, <4>1, <4>2, <4>5 DEF Moves
    <3> QED BY <2>3, <3>1, <3>2, <3>3 DEF Forwards
  <2>4. ASSUME NEW a, Replies(c, a) PROVE Moves(s)
    <3>1. /\ UNCHANGED <<sendMsg, recvMsg>> /\ task'[c].pc = "recv" /\ Fit(c, a)
      BY <2>4 DEF Replies, NewTask
    <3>2. Fetched(s)' = {} BY <1>2, <3>1 DEF Fetched, Updating, Base
    <3>3. answers \in [Session -> Seq(Answer)] BY TypeParts
    <3>4. answers'[s] = answers[s] \/ answers'[s] = Append(answers[s], a)
      <4>1. c[2] = 0 BY <1>2 DEF Base
      <4>2. answers' = [answers EXCEPT ![c[1]] = IF wire[c].link = "up" THEN Append(@, a) ELSE @]
        BY <2>4, <4>1, RepliesTo
      <4> QED BY <1>b, <3>3, <4>2
    <3>5. a.code = 405 \/ (a.req = task[c].ans.req /\ task[c].pc \in {"response", "routeAdd", "inviteAdd"})
      <4>1. task[c].ans \in Answer BY TaskFields
      <4>2. Own(c, 405).code = 405 BY DEF Own
      <4>3. Relayed(c).req = task[c].ans.req BY <4>1 DEF Relayed, Answer
      <4> QED BY <2>g, <3>1, <4>2, <4>3 DEF Fit
    <3>6. Told(s)' \subseteq Told(s) \cup Fetched(s)
      <4>1. CASE answers'[s] = answers[s] BY <1>t, <4>1
      <4>2. CASE answers'[s] = Append(answers[s], a)
        <5> SUFFICES ASSUME NEW r \in Told(s)', r \notin Told(s) PROVE r \in Fetched(s)
          OBVIOUS
        <5>1. PICK i \in DOMAIN answers'[s] : answers'[s][i].req = r /\ answers'[s][i].code # 405
          BY DEF Told
        <5>r. r \in 1 .. MaxReq BY DEF Told
        <5>2. \/ i \in DOMAIN answers[s] /\ answers'[s][i] = answers[s][i]
              \/ answers'[s][i] = a
          BY <1>b, <3>3, <4>2, <5>1, Appended
        <5>3. a.req = r /\ a.code # 405 BY <5>1, <5>2, <5>r DEF Told
        <5> QED BY <1>2, <3>5, <5>3, <5>r DEF Fetched, Updating
      <4> QED BY <3>4, <4>1, <4>2
    <3> QED BY <1>h, <1>q, <1>k, <3>1, <3>2, <3>6 DEF Moves
  <2> QED BY <2>1, <2>2, <2>3, <2>4, TaskKinds
<1> QED BY <1>1, <1>2

\* A task's step keeps the requests in order.
LEMMA TaskOrdered ==
  ASSUME TypeOK, NEW c \in Conn, Roles(c[1]), Task(c), c[1] \in OgSession, Turn(c[1]),
         Place(c[1]), Hearing(c[1]), Ordered(c[1])
  PROVE  Ordered(c[1])'
<1> DEFINE s == c[1]
           b == Base(c[1])
<1>b. b \in Conn /\ s \in Session /\ b = Base(s) BY Conns
<1>a. asked' = asked BY OthersOf
<1>l. Len(asked[s]) \in Nat
  <2>1. asked[s] \in Seq(Request) BY <1>b, TypeParts
  <2> QED BY <2>1
<1>o. /\ InTurn(Told(s), Fetched(s), Kept(s), Held(s), Queued(s))
      /\ \A r \in Started(s) :
           /\ r <= Len(asked[s])
           /\ wire[b].to # << >> \/ task[b].pc = "forward" => r < Len(asked[s])
  BY DEF Ordered
<1>1. CASE Moves(s)
  <2>1. /\ InTurn(Told(s), Fetched(s), Kept(s), Held(s), Queued(s))'
        /\ Started(s)' \subseteq Started(s)
    BY <1>1, <1>o, MovesInTurn
  <2>2. wire'[b].to # << >> \/ task'[b].pc = "forward" =>
          wire[b].to # << >> \/ task[b].pc = "forward"
    <3>1. CASE c # b BY <1>b, <3>1, OthersOf
    <3>2. CASE c = b
      <4>1. CASE Accepts(c) BY <3>2, <4>1 DEF Accepts
      <4>2. CASE Ends(c) BY <3>2, <4>2 DEF Ends
      <4>3. CASE Updates(c) BY <3>2, <4>3 DEF Updates, Updating
      <4>4. CASE Forwards(c) BY <3>2, <4>4, ForwardWorks DEF Works
      <4>5. ASSUME NEW a, Replies(c, a)
            PROVE  wire'[b].to = wire[b].to /\ task'[b].pc = "recv"
        BY <3>2, <4>5, RepliesTo DEF NewTask
      <4> QED BY <4>1, <4>2, <4>3, <4>4, <4>5, TaskKinds
    <3> QED BY <3>1, <3>2
  <2>3. \A r \in Started(s)' :
           /\ r <= Len(asked'[s])
           /\ wire'[b].to # << >> \/ task'[b].pc = "forward" => r < Len(asked'[s])
    <3> HIDE DEF b
    <3> QED BY <1>a, <1>o, <2>1, <2>2
  <2> QED BY <2>1, <2>3 DEF Ordered, Base
<1>2. CASE Pushes(c)
  <2>1. /\ c = b /\ sendMsg[s] = << >> /\ sendMsg'[s] = <<task[c].req>>
        /\ recvMsg' = recvMsg /\ task[c].pc = "forward" /\ task'[c].pc = "pop"
    BY <1>2, ForwardEffect DEF Pushes, Forwards
  <2>2. answers' = answers /\ wire' = wire
    BY <1>2, ForwardWorks DEF Pushes, Forwards, Works
  <2>3. task[b].req = Len(asked[s]) /\ wire[b].to = << >> BY <2>1 DEF Turn, Busy
  <2>4. /\ Told(s)' = Told(s) /\ Kept(s)' = Kept(s) /\ Fetched(s)' = {}
    BY <2>1, <2>2 DEF Told, Kept, Fetched, Updating, Base
  <2>5. Held(s)' \subseteq Held(s) BY TaskHeld
  <2>6. Queued(s) = {} /\ Queued(s)' \subseteq {Len(asked[s])}
    BY <2>1, <2>3 DEF Queued
  <2>7. \A r \in Started(s) : r < Len(asked[s])
    BY <1>o, <2>1
  <2>8. \A r \in Told(s)' \cup Fetched(s)' \cup Kept(s)' \cup Held(s)' : r < Len(asked[s])
    BY <2>4, <2>5, <2>7 DEF Started
  <2>9. InTurn(Told(s)', Fetched(s)', Kept(s)', Held(s)', {})
    BY <1>o, <2>4, <2>5, InTurnLess
  <2>10. InTurn(Told(s)', Fetched(s)', Kept(s)', Held(s)', {Len(asked[s])})
    BY <2>8, <2>9, InTurnNew
  <2>11. InTurn(Told(s)', Fetched(s)', Kept(s)', Held(s)', Queued(s)')
    BY <2>6, <2>10, InTurnLess
  <2>12. \A r \in Started(s)' : r <= Len(asked[s])
    <3>1. Started(s)' \subseteq (Told(s)' \cup Fetched(s)' \cup Kept(s)' \cup Held(s)')
                                  \cup {Len(asked[s])}
      BY <2>6 DEF Started
    <3>2. \A r \in Started(s)' : r < Len(asked[s]) \/ r = Len(asked[s])
      BY <2>8, <3>1
    <3>3. \A r \in Started(s)' : r \in Int BY DEF Started, Told, Fetched, Kept, Held, Queued
    <3> QED BY <1>l, <3>2, <3>3
  <2>13. wire'[Base(s)].to = << >> /\ task'[Base(s)].pc = "pop" /\ asked' = asked
    BY <1>a, <2>1, <2>2, <2>3
  <2> QED BY <2>11, <2>12, <2>13 DEF Ordered, InTurn, Below, Base
<1> QED BY <1>1, <1>2, TaskMoves

\* As long as the client is punctual, it and the queues have nothing but what
\* the task waits for.
LEMMA Idle ==
  ASSUME NEW s
  PROVE  /\ sendMsg[s] = << >> => Queued(s) = {}
         /\ recvMsg[s] = << >> => Kept(s) = {}
         /\ ~Occupied(s) => Held(s) = {}
         /\ task[Base(s)].pc # "response" /\ ~Updating(Base(s)) /\ task[Base(s)].pc # "inviteAdd"
              => Fetched(s) = {}
BY DEF Queued, Kept, Held, Occupied, Fetched, Updating

\* It keeps what is on its way the request that the task waits for.
LEMMA TaskPunctual ==
  ASSUME TypeOK, NEW c \in Conn, Roles(c[1]), Task(c), c[1] \in OgSession,
         Place(c[1]), Hearing(c[1]), Punctual(c[1])
  PROVE  Punctual(c[1])'
<1> DEFINE s == c[1]
<1>b. Base(s) \in Conn /\ s \in Session BY Conns
<1>c. (cli[s].late => cli'[s].late) /\ (Occupied(s)' <=> Occupied(s))
  BY TaskSteady DEF Steady, Occupied
<1>h. Held(s)' \subseteq Held(s) BY TaskHeld
<1> SUFFICES ASSUME ~cli'[s].late
             PROVE  /\ Fetched(s)' \cup Kept(s)' \cup Held(s)' \cup Queued(s)'
                         \subseteq {task'[Base(s)].req}
                    /\ IF task'[Base(s)].pc = "pop"
                       THEN /\ ~(sendMsg'[s] # << >> /\ Occupied(s))
                            /\ ~(sendMsg'[s] # << >> /\ recvMsg'[s] # << >>)
                            /\ ~(recvMsg'[s] # << >> /\ Occupied(s))
                       ELSE sendMsg'[s] = << >> /\ recvMsg'[s] = << >> /\ ~Occupied(s)
  BY <1>c DEF Punctual, Base
<1>p. /\ Fetched(s) \cup Kept(s) \cup Held(s) \cup Queued(s) \subseteq {task[Base(s)].req}
      /\ IF task[Base(s)].pc = "pop"
         THEN /\ ~(sendMsg[s] # << >> /\ Occupied(s))
              /\ ~(sendMsg[s] # << >> /\ recvMsg[s] # << >>)
              /\ ~(recvMsg[s] # << >> /\ Occupied(s))
         ELSE sendMsg[s] = << >> /\ recvMsg[s] = << >> /\ ~Occupied(s)
  BY <1>c DEF Punctual
<1>q. /\ sendMsg'[s] = sendMsg[s] => Queued(s)' = Queued(s)
      /\ recvMsg'[s] = recvMsg[s] => Kept(s)' = Kept(s)
  BY DEF Queued, Kept
<1>i. /\ sendMsg'[s] = << >> => Queued(s)' = {}
      /\ recvMsg'[s] = << >> => Kept(s)' = {}
      /\ ~Occupied(s) => Held(s)' = {}
      /\ task'[Base(s)].pc \in {"forward", "process", "pop", "join", "over", "recv"}
           => Fetched(s)' = {}
  <2>1. ~Occupied(s) => Held(s)' = {} BY <1>h, Idle
  <2> QED BY <2>1 DEF Queued, Kept, Fetched, Updating, Base
<1>1. CASE c # Base(s)
  <2>1. Gw(c) = "NG" /\ Apart(c) BY <1>1, Gateways, TaskFrame
  <2>2. task'[Base(s)] = task[Base(s)] /\ UNCHANGED <<sendMsg, recvMsg>>
    BY <1>1, <1>b, <2>1, OthersOf DEF Apart
  <2>3. Fetched(s)' = Fetched(s) BY <2>2 DEF Fetched, Updating, Base
  <2> QED BY <1>h, <1>p, <1>q, <2>2, <2>3
<1>2. CASE c = Base(s)
  <2>g. Gw(c) = "OG" BY <1>2, Gateways
  <2>1. CASE Accepts(c) \/ Ends(c) \/ \E a : Replies(c, a)
    <3>1. /\ task'[c].pc \in {"forward", "join", "over", "recv"} /\ task[c].pc # "pop"
          /\ UNCHANGED <<sendMsg, recvMsg>>
      <4>1. CASE Accepts(c) BY <2>g, <4>1 DEF Accepts
      <4>2. CASE Ends(c) BY <4>2 DEF Ends
      <4>3. ASSUME NEW a, Replies(c, a) 
              PROVE  /\ task'[c].pc = "recv" /\ task[c].pc # "pop"
                     /\ UNCHANGED <<sendMsg, recvMsg>>
        BY <2>g, <4>3 DEF Replies, Fit, NewTask
      <4> QED BY <2>1, <4>1, <4>2, <4>3
    <3>3. sendMsg[s] = << >> /\ recvMsg[s] = << >> /\ ~Occupied(s) BY <1>2, <1>p, <3>1
    <3> QED BY <1>2, <1>i, <3>1, <3>3
  <2>2. CASE Updates(c)
    <3>1. /\ UNCHANGED <<sendMsg, recvMsg>> /\ task'[c].ans = task[c].ans
          /\ task'[c].req = task[c].req
          /\ Updating(c) \/ task[c].pc = "response"
          /\ task[c].pc # "pop" /\ task'[c].pc # "pop"
      BY <2>g, <2>2 DEF Updates, Updating
    <3>2. Fetched(s)' \subseteq Fetched(s)
      <4>1. task'[Base(s)].ans = task[Base(s)].ans
            /\ (Updating(Base(s)) \/ task[Base(s)].pc = "response")
        BY <1>2, <3>1
      <4> QED BY <4>1 DEF Fetched, Base
    <3> QED BY <1>2, <1>h, <1>p, <1>q, <3>1, <3>2
  <2>3. CASE Forwards(c)
    <3>a. task'[c].req = task[c].req BY <2>3, ForwardWorks DEF Works
    <3>1. CASE ForwardPush(c)
      <4>1. /\ task[c].pc = "forward" /\ task'[c].pc = "pop" /\ recvMsg' = recvMsg
            /\ sendMsg[s] = << >> => sendMsg'[s] = <<task[c].req>>
        BY <2>3, <3>1, ForwardEffect
      <4>2. sendMsg[s] = << >> /\ recvMsg[s] = << >> /\ ~Occupied(s) BY <1>2, <1>p, <4>1
      <4>3. Queued(s)' \subseteq {task[c].req} BY <4>1, <4>2 DEF Queued
      <4> QED BY <1>2, <1>i, <3>a, <4>1, <4>2, <4>3
    <3>2. CASE ForwardFails(c)
      <4>1. /\ task'[c].pc = "process" /\ UNCHANGED <<sendMsg, recvMsg>>
            /\ \/ task[c].pc = "forward"
               \/ recvMsg[s] = << >> /\ ~Occupied(s) /\ sendMsg[s] = << >>
        BY <2>3, <3>2, ForwardEffect
      <4>2. sendMsg[s] = << >> /\ recvMsg[s] = << >> /\ ~Occupied(s) BY <1>2, <1>p, <4>1
      <4> QED BY <1>2, <1>i, <4>1, <4>2
    <3>3. CASE ForwardPop(c)
      <4>1. /\ recvMsg[s] # << >> /\ recvMsg'[s] = << >> /\ task'[c].pc = "response"
            /\ task[c].pc = "pop"
            /\ task'[c].ans = Head(recvMsg[s]) /\ sendMsg' = sendMsg
        BY <2>3, <3>3, ForwardEffect
      <4>2. sendMsg[s] = << >> /\ ~Occupied(s) BY <1>2, <1>p, <4>1
      <4>3. recvMsg[s] \in Seq(Answer) BY CliFields
      <4>4. 1 \in DOMAIN recvMsg[s] /\ Head(recvMsg[s]) = recvMsg[s][1]
        BY <4>1, <4>3, HeadTail
      <4>5. Fetched(s)' \subseteq Kept(s) BY <1>2, <4>1, <4>4 DEF Fetched, Kept, Base
      <4> QED BY <1>2, <1>i, <1>p, <3>a, <4>1, <4>2, <4>5
    <3> QED BY <2>3, <3>1, <3>2, <3>3 DEF Forwards
  <2> QED BY <2>1, <2>2, <2>3, TaskKinds
<1> QED BY <1>1, <1>2

\* An answer is one to its agent's request, or comes from a client that is not
\* punctual, and in the order of the requests.
LEMMA TaskOwn ==
  ASSUME TypeOK, NEW c \in Conn, Roles(c[1]), Task(c), Turn(c[1]), Worths(c[1]),
         OwnAnswers(c[1]), c[1] \in OgSession => Ordered(c[1]) /\ Punctual(c[1])
  PROVE  OwnAnswers(c[1])'
<1> DEFINE s == c[1]
<1>b. Base(s) \in Conn /\ s \in Session BY Conns
<1>t. answers[s] \in Seq(Answer) /\ asked[s] \in Seq(Request) BY <1>b, TypeParts
<1>l. s \in OgSession /\ cli[s].late => cli'[s].late BY TaskSteady DEF Steady
<1>o. \A i \in DOMAIN answers[s] :
        /\ answers[s][i].req \in 0 .. i
        /\ answers[s][i].req = 0 => s \in OgSession /\ answers[s][i].code = 501
        /\ answers[s][i].req \notin {0, i} => s \in OgSession /\ cli[s].late
        /\ answers[s][i].req # 0 =>
             \A j \in 1 .. i - 1 : answers[s][j].code # 405 => answers[s][j].req < answers[s][i].req
  BY DEF OwnAnswers
<1>1. CASE answers'[s] = answers[s]
  BY <1>l, <1>o, <1>1 DEF OwnAnswers
<1>2. ASSUME NEW a, Replies(c, a), answers'[s] # answers[s]
      PROVE  OwnAnswers(s)'
  <2>1. c = Base(s) /\ c[2] = 0 BY <1>b, <1>2, Conns, OthersOf
  <2>2. answers'[s] = Append(answers[s], a)
    <3>1. answers \in [Session -> Seq(Answer)] BY TypeParts
    <3>2. answers' = [answers EXCEPT ![c[1]] = IF wire[c].link = "up" THEN Append(@, a) ELSE @]
      BY <1>2, <2>1, RepliesTo
    <3> QED BY <1>b, <1>2, <3>1, <3>2
  <2>3. Busy(c) /\ Fit(c, a) BY <1>2 DEF Replies
  <2>4. task[c].req = Len(answers[s]) + 1 /\ Len(asked[s]) = Len(answers[s]) + 1
    BY <2>1, <2>3 DEF Turn
  <2> DEFINE k == Len(answers[s]) + 1
  <2>k. k \in Nat /\ k # 0 /\ Len(answers[s]) \in Nat BY <1>t
  <2>5. /\ a.req \in 0 .. k
        /\ a.req = 0 => s \in OgSession /\ a.code = 501
        /\ a.req \notin {0, k} => s \in OgSession /\ cli[s].late
        /\ a.req # 0 =>
             \A j \in 1 .. k - 1 : answers[s][j].code # 405 => answers[s][j].req < a.req
    <3>1. CASE a.req = k
      <4>1. \A j \in 1 .. k - 1 : j \in DOMAIN answers[s] /\ j \in Nat /\ j < k
        BY <1>t, <2>k
      <4>2. \A j \in 1 .. k - 1 : answers[s][j].req \in 0 .. j
        BY <1>o, <4>1
      <4> HIDE DEF k
      <4>3. ASSUME NEW j \in 1 .. k - 1 PROVE answers[s][j].req < k
        BY <2>k, <4>1, <4>2
      <4> QED BY <2>k, <3>1, <4>3
    <3>2. CASE /\ a = Relayed(c) /\ Gw(c) = "OG"
               /\ task[c].pc \in {"response", "routeAdd", "inviteAdd"}
      <4>1. task[c].ans \in Answer BY TaskFields
      <4>2. a.req = task[c].ans.req /\ a.code = (IF task[c].ans.code = 0 THEN 501 ELSE task[c].ans.code)
        BY <3>2, <4>1 DEF Relayed, Answer
      <4>3. a.req \in 0 .. MaxReq BY <4>1, <4>2 DEF Answer
      <4>4. s \in OgSession BY <3>2, Gateways
      <4>5. CASE a.req = 0
        <5>1. task[c].ans.code = 0 BY <4>2, <4>5 DEF Worths, Sound, Mine
        <5> QED BY <2>k, <4>2, <4>4, <4>5, <5>1
      <4>6. CASE a.req # 0
        <5>1. a.req \in 1 .. MaxReq BY <4>3, <4>6, Bounds
        <5>2. a.req \in Fetched(s) BY <2>1, <3>2, <4>2, <5>1 DEF Fetched, Updating
        <5>3. a.req <= k BY <2>4, <4>4, <5>2 DEF Ordered, Started
        <5>4. a.req # k => cli[s].late BY <2>1, <2>4, <4>4, <5>2 DEF Punctual
        <5>5. ASSUME NEW j \in 1 .. k - 1, answers[s][j].code # 405
              PROVE  answers[s][j].req < a.req
          <6>1. j \in DOMAIN answers[s] BY <1>t, <2>k
          <6>2. answers[s][j] \in Answer BY <1>t, <6>1, Elements
          <6>3. CASE answers[s][j].req = 0 BY <5>1, <6>3
          <6>4. CASE answers[s][j].req # 0
            <7>1. answers[s][j].req \in 0 .. MaxReq BY <6>2 DEF Answer
            <7>2. answers[s][j].req \in 1 .. MaxReq BY <6>4, <7>1, Bounds
            <7>3. answers[s][j].req \in Told(s) BY <5>5, <6>1, <7>2 DEF Told
            <7>4. Below(Told(s), Fetched(s)) BY <4>4 DEF Ordered, InTurn
            <7> QED BY <5>2, <7>3, <7>4 DEF Below
          <6> QED BY <6>3, <6>4
        <5>6. a.req \in 0 .. k BY <2>k, <5>1, <5>3
        <5> HIDE DEF k
        <5> QED BY <4>4, <4>6, <5>4, <5>5, <5>6
      <4> QED BY <4>5, <4>6
    <3>3. \/ a.req = task[c].req
          \/ /\ a = Relayed(c) /\ Gw(c) = "OG"
             /\ task[c].pc \in {"response", "routeAdd", "inviteAdd"}
      BY <2>3 DEF Fit, Own
    <3> QED BY <2>4, <3>1, <3>2, <3>3
  <2>6. ASSUME NEW i \in DOMAIN answers'[s]
        PROVE  /\ answers'[s][i].req \in 0 .. i
               /\ answers'[s][i].req = 0 => s \in OgSession /\ answers'[s][i].code = 501
               /\ answers'[s][i].req \notin {0, i} => s \in OgSession /\ cli'[s].late
               /\ answers'[s][i].req # 0 =>
                    \A j \in 1 .. i - 1 :
                       answers'[s][j].code # 405 => answers'[s][j].req < answers'[s][i].req
    <3>1. \/ i \in DOMAIN answers[s] /\ answers'[s][i] = answers[s][i]
          \/ i = k /\ answers'[s][i] = a
      BY <1>t, <2>2, Appended
    <3>2. \A j \in 1 .. i - 1 : answers'[s][j] = answers[s][j]
      <4>1. i \in Nat /\ i <= Len(answers[s]) + 1 BY <1>t, <2>2
      <4>2. \A j \in 1 .. Len(answers[s]) : answers'[s][j] = answers[s][j] BY <1>t, <2>2
      <4>3. \A j \in 1 .. i - 1 : j \in 1 .. Len(answers[s]) BY <2>k, <4>1
      <4> QED BY <4>2, <4>3
    <3>3. CASE i \in DOMAIN answers[s] /\ answers'[s][i] = answers[s][i]
      BY <1>l, <1>o, <3>2, <3>3
    <3>4. CASE i = k /\ answers'[s][i] = a
      <4> HIDE DEF k
      <4> QED BY <1>l, <2>5, <3>2, <3>4
    <3> QED BY <3>1, <3>3, <3>4
  <2> QED BY <2>6 DEF OwnAnswers
<1>3. CASE ~\E a : Replies(c, a)
  <2>1. answers' = answers
    BY <1>3, TaskKinds, ForwardWorks DEF Accepts, Ends, Updates, Works
  <2> QED BY <1>1, <2>1
<1> QED BY <1>1, <1>2, <1>3

-----------------------------------------------------------------------------
(***************************************************************************)
(* A task's step keeps what the answers are worth.                         *)
(***************************************************************************)
\* An address stays the one its name has, and a range exhausted.
LEMMA RoutedStays ==
  ASSUME TypeOK, Grows, NEW d \in Conn, Numbers(d[1]), Worths(d[1]), Updating(d), Routed(d),
         task'[d].ip = task[d].ip, task'[d].req = task[d].req, task'[d].ans = task[d].ans
  PROVE  Routed(d)'
<1>1. CASE Gw(d) = "NG"
  <2>1. d[1] \in Session /\ task[d].req \in Asks(d[1]) /\ Asked(d).contact \in Name
    BY Conns, AskedType DEF Numbers, Mine, Busy, Updating
  <2>2. asked'[d[1]][task[d].req] = asked[d[1]][task[d].req] BY <2>1 DEF Grows
  <2>3. Asked(d)' = Asked(d) BY <2>2 DEF Asked
  <2>4. /\ task[d].ip = ToInt(ngNames[Asked(d).contact])
        /\ ngNames[Asked(d).contact] = NoIp => Full(ngAddrs, ngTime)
    BY <1>1 DEF Routed
  <2>5. ngNames'[Asked(d).contact] = ngNames[Asked(d).contact]
        /\ (Full(ngAddrs, ngTime) => Full(ngAddrs, ngTime)')
    BY <2>1, <2>4 DEF Grows
  <2>6. /\ task'[d].ip = ToInt(ngNames[Asked(d).contact])'
        /\ ngNames'[Asked(d)'.contact] = NoIp => Full(ngAddrs, ngTime)'
    BY <2>3, <2>4, <2>5 DEF ToInt
  <2> QED BY <1>1, <2>6 DEF Routed, Gw
<1>2. CASE Gw(d) # "NG"
  <2>1. /\ task[d].ans.req # 0
        /\ task[d].ip = ogNames[Echo(d).contact] /\ task[d].ip \notin {0, NoIp}
    BY <1>2 DEF Routed
  <2>2. d[1] \in Session /\ task[d].ans.req \in Asks(d[1]) /\ Echo(d).contact \in Name
    BY <2>1, Conns, EchoType DEF Worths, Sound, Mine
  <2>3. asked'[d[1]][task[d].ans.req] = asked[d[1]][task[d].ans.req] BY <2>2 DEF Grows
  <2>4. Echo(d)' = Echo(d) BY <2>3 DEF Echo
  <2>5. ogNames'[Echo(d).contact] = ogNames[Echo(d).contact]
    BY <2>1, <2>2 DEF Grows
  <2>6. /\ task'[d].ans.req # 0
        /\ task'[d].ip = ogNames'[Echo(d)'.contact] /\ task'[d].ip \notin {0, NoIp}
    BY <2>1, <2>4, <2>5
  <2> QED BY <1>2, <2>6 DEF Routed, Gw
<1> QED BY <1>1, <1>2

\* The address a task routes to is still the one its name has.
LEMMA TaskRouting ==
  ASSUME TypeOK, NG!IInv, OG!IInv, NEW c \in Conn, SessionInv(c[1]), Task(c)
  PROVE  Routing(c[1])'
<1> DEFINE s == c[1]
<1>s. Roles(s) /\ Numbers(s) /\ Worths(s) /\ Routing(s) BY DEF SessionInv
<1>t. task \in [Conn -> TaskRec] BY TypeParts
<1>g. Grows BY GrowsTask
<1>i. ASSUME NEW d \in Mine(s), task'[d].pc = "inviteAdd" PROVE Invited(d)'
  <2>1. d \in Conn /\ d[1] = s /\ c \in Mine(s) BY Conns DEF Mine
  <2>a. asked' = asked BY <1>s, OthersOf
  <2>2. CASE task'[d] = task[d]
    <3>1. Invited(d) BY <1>i, <1>s, <2>2 DEF Routing
    <3> QED BY <2>2, <2>a, <3>1 DEF Invited, Echo
  <2>3. CASE d = c
    <3>1. CASE Updates(c)
      <4>1. task[c].pc = "response" BY <1>i, <2>3, <3>1 DEF Updates, Updating
      <4>2. ResponseInvite(c)
        <5>1. CASE ResponseContact(c)
          <6>1. ~Reply(c, Relayed(c)) BY <1>i, <2>3, ReplyFrame DEF NewTask
          <6>2. PICK x : task' = [task EXCEPT ![c].pc = "dnsOpen", ![c].ip = x]
            BY <5>1, <6>1 DEF ResponseContact
          <6> QED BY <1>t, <1>i, <2>3, <6>2 DEF TaskRec
        <5>2. CASE ResponseOther(c) BY <1>i, <2>3, <5>2, ReplyFrame DEF ResponseOther, NewTask
        <5>3. CASE \/ Recv(c) \/ Close(c) \/ Joined(c) \/ DnsOpen(c) \/ DnsFails(c) \/ DnsRead(c)
                   \/ DnsWrite(c) \/ RouteDel(c) \/ Register(c) \/ RegisterRefused(c)
                   \/ RegisterEnds(c) \/ RequestEnds(c) \/ ForwardPush(c) \/ ForwardFails(c)
                   \/ ForwardPop(c) \/ ResponseRoute(c) \/ InviteEnds(c)
          BY <4>1, <5>3 DEF Recv, Close, Joined, DnsOpen, DnsFails, DnsRead, DnsWrite, RouteDel,
             Register, RegisterRefused, RegisterEnds, RequestEnds, ForwardPush, ForwardFails,
             ForwardPop, ResponseRoute, InviteEnds, At
        <5> QED BY <5>1, <5>2, <5>3 DEF Task
      <4>3. Invited(c) BY <4>2 DEF ResponseInvite, ForInvite, HasContact, Invited
      <4>4. task'[c].ans = task[c].ans BY <3>1 DEF Updates
      <4>5. Invited(c)' BY <2>a, <4>3, <4>4 DEF Invited, Echo
      <4> QED BY <2>3, <4>5 DEF Invited, Echo
    <3>2. CASE Accepts(c) \/ Ends(c) BY <1>i, <2>3, <3>2 DEF Accepts, Ends
    <3>3. CASE Forwards(c) BY <1>i, <2>1, <2>3, <3>3, ForwardWorks
    <3>4. CASE \E a : Replies(c, a) BY <1>i, <2>3, <3>4 DEF Replies, NewTask
    <3> QED BY <1>s, <2>1, <2>3, <3>1, <3>2, <3>3, <3>4, TaskKinds
  <2> QED BY <1>s, <2>1, <2>2, <2>3, OthersOf
<1>1. ASSUME NEW d \in Mine(s), d # c, Updating(d)' PROVE Routed(d)'
  <2>1. d \in Conn /\ d[1] = s BY DEF Mine
  <2>2. task'[d] = task[d] BY <1>1, <1>s, <2>1, OthersOf
  <2>3. Updating(d) BY <1>1, <2>2 DEF Updating
  <2>4. Routed(d) BY <1>s, <2>3 DEF Routing
  <2> QED BY <1>s, <1>g, <2>1, <2>2, <2>3, <2>4, RoutedStays
<1>2. ASSUME Updating(c)' PROVE Routed(c)'
  <2>1. CASE DnsOpen(c) \/ DnsFails(c) \/ DnsRead(c) \/ DnsWrite(c) \/ RouteDel(c)
    <3>1. /\ task'[c].ip = task[c].ip /\ task'[c].req = task[c].req
          /\ task'[c].ans = task[c].ans
      BY <1>t, <2>1 DEF DnsOpen, DnsFails, DnsRead, DnsWrite, RouteDel, GoTask, TaskRec
    <3>2. Updating(c)
      BY <2>1 DEF DnsOpen, DnsFails, DnsRead, DnsWrite, RouteDel, At, Updating
    <3>3. Routed(c) BY <1>s, <3>2 DEF Routing, Mine
    <3> QED BY <1>s, <1>g, <3>1, <3>2, <3>3, RoutedStays
  <2>2. CASE Register(c)
    <3>1. PICK p : task' = [task EXCEPT ![c].ip = ToInt(ngReply'.ip), ![c].pc = p]
      BY <2>2 DEF Register
    <3>2. task'[c].ip = ToInt(ngReply'.ip) /\ task'[c].req = task[c].req
      BY <1>t, <3>1 DEF TaskRec
    <3>3. /\ asked' = asked /\ NG!Generate(Asked(c).contact) /\ Gw(c) = "NG"
          /\ task[c].pc = "process"
      BY <2>2 DEF Register, At
    <3>4. Asked(c).contact \in Name BY <1>s, <3>3, AskedType DEF Busy
    <3>5. /\ ngTime' # << >> /\ ngReply'.ip = ngNames'[Asked(c).contact]
          /\ ngNames'[Asked(c).contact] = NoIp => RangeFull(ngAddrs)'
      BY <3>3, <3>4, NgGenerate DEF RangeFull
    <3>6. Asked(c)' = Asked(c) BY <3>2, <3>3 DEF Asked
    <3>7. /\ task'[c].ip = ToInt(ngNames[Asked(c).contact])'
          /\ ngNames'[Asked(c)'.contact] = NoIp => Full(ngAddrs, ngTime)'
      BY <3>2, <3>5, <3>6 DEF Full, ToInt
    <3> QED BY <3>3, <3>7 DEF Routed, Gw
  <2>3. CASE ResponseContact(c)
    <3>0. task'[c].pc # "recv" BY <1>2 DEF Updating
    <3>1. /\ ToInt(ogReply'.ip) # 0
          /\ task' = [task EXCEPT ![c].pc = "dnsOpen", ![c].ip = ToInt(ogReply'.ip)]
      <4>1. ~Reply(c, Relayed(c)) BY <3>0, ReplyFrame DEF NewTask
      <4> QED BY <2>3, <4>1 DEF ResponseContact
    <3>2. task'[c].ip = ToInt(ogReply'.ip) /\ task'[c].ans = task[c].ans
      BY <1>t, <3>1 DEF TaskRec
    <3>3. /\ asked' = asked /\ OG!Generate(Echo(c).contact) /\ TRUE \in HasContact(c)
          /\ task[c].pc = "response"
      BY <2>3 DEF ResponseContact, At
    <3>4. task[c].ans.req # 0 BY <3>3 DEF HasContact
    <3>5. Echo(c).contact \in Name BY <1>s, <3>4, EchoType
    <3>6. ogReply'.ip = ogNames'[Echo(c).contact] BY <3>3, <3>5, OgGenerate
    <3>7. Echo(c)' = Echo(c) BY <3>2, <3>3 DEF Echo
    <3>8. Gw(c) # "NG" BY <1>s, <3>3 DEF Roles, Mine
    <3>i. ToInt(ogReply'.ip) = ogReply'.ip /\ ogReply'.ip \notin {0, NoIp}
      BY <3>1 DEF ToInt
    <3>9. /\ task'[c].ans.req # 0
          /\ task'[c].ip = ogNames'[Echo(c)'.contact] /\ task'[c].ip \notin {0, NoIp}
      BY <3>i, <3>2, <3>4, <3>6, <3>7
    <3> QED BY <3>8, <3>9 DEF Routed, Gw
  <2>4. CASE Recv(c) \/ Close(c) \/ Joined(c)
    BY <1>t, <1>2, <2>4 DEF Recv, Close, Joined, GoTask, Updating, TaskRec
  <2>7. CASE ResponseInvite(c)
    <3>1. PICK ip : task' = [task EXCEPT ![c].pc = "inviteAdd", ![c].ip = ip]
      BY <2>7 DEF ResponseInvite
    <3>2. task'[c].pc = "inviteAdd" BY <1>t, <3>1 DEF TaskRec
    <3> QED BY <1>2, <3>2 DEF Updating
  <2>5. CASE Forwards(c) BY <1>2, <2>5, ForwardWorks DEF Updating
  <2>6. CASE \/ RegisterRefused(c) \/ RegisterEnds(c) \/ RequestEnds(c) \/ ResponseRoute(c)
             \/ InviteEnds(c) \/ ResponseOther(c)
    <3>1. \E a : Reply(c, a)
      <4>1. CASE RegisterRefused(c) \/ RegisterEnds(c) BY <4>1 DEF RegisterRefused, RegisterEnds
      <4>2. CASE RequestEnds(c) BY <4>2 DEF RequestEnds
      <4> QED BY <2>6, <4>1, <4>2 DEF ResponseRoute, InviteEnds, ResponseOther
    <3> QED BY <1>2, <3>1, ReplyFrame DEF NewTask, Updating
  <2> QED BY <2>1, <2>2, <2>3, <2>4, <2>5, <2>6, <2>7 DEF Task, Forwards
<1>3. ASSUME NEW d \in Mine(s), Updating(d)' PROVE Routed(d)'
  <2>1. CASE d # c BY <1>1, <1>3, <2>1
  <2>2. CASE d = c
    <3>1. (Updating(d)' => Updating(c)') /\ (Routed(c)' => Routed(d)')
      BY <2>2 DEF Updating, Routed, Asked, Echo, Gw
    <3> QED BY <1>2, <1>3, <3>1
  <2> QED BY <2>1, <2>2
<1> QED BY <1>3, <1>i DEF Routing, Mine

\* What the reply of a task is worth when it is sent.
Worthy(c, a) ==
  /\ a.req \in Asks(c[1]) \cup {0} /\ NgWorth(c[1], a)'
  /\ c[2] = 0 => OgWorth(c[1], a)'
  /\ c[2] # 0 => Sound(c[1], a)'

\* An answer that registers nothing is worth anything.
LEMMA Unregistered ==
  ASSUME NEW s, NEW a, a.code # 200 \/ a.req = 0
  PROVE  NgWorth(s, a)' /\ OgWorth(s, a)'
BY DEF NgWorth, OgWorth, Registers

\* The network gateway's own answers.
LEMMA WorthyOwn ==
  ASSUME TypeOK, NG!IInv, OG!IInv, NEW c \in Conn, SessionInv(c[1]), Task(c),
         NEW a, Replies(c, a), RegisterRefused(c) \/ RegisterEnds(c) \/ RequestEnds(c),
         NEW code, a = Own(c, code),
         code = 200 => \/ RegisterEnds(c)
                       \/ Gw(c) = "NG" /\ ~IsRegister(Asked(c)) /\ Accepted(Asked(c))
  PROVE  Worthy(c, a)
<1> DEFINE s == c[1]
<1>s. Roles(s) /\ Numbers(s) /\ Worths(s) /\ Routing(s) /\ s \in Session /\ c \in Mine(s)
  BY Conns DEF SessionInv, Mine
<1>b. Busy(c) BY DEF Replies
<1>r. a.req = task[c].req /\ a.code = code BY DEF Own
<1>a. a.req \in Asks(s) /\ a.req # 0 BY <1>s, <1>b, <1>r DEF Numbers, Asks
<1>n. asked' = asked /\ Asks(s)' = Asks(s) BY <1>s, OthersOf
<1>1. NgWorth(s, a)'
  <2>1. CASE code # 200 BY <1>r, <2>1, Unregistered
  <2>2. CASE Gw(c) = "NG" /\ ~IsRegister(Asked(c)) /\ Accepted(Asked(c))
    <3>1. asked'[s][a.req].method = "invite" BY <1>n, <1>r, <2>2 DEF Accepted, Asked
    <3> QED BY <3>1 DEF NgWorth, Registers
  <2>3. CASE RegisterEnds(c)
    <3>p. PICK ip : ip = task[c].ip OBVIOUS
    <3>3. Gw(c) = "NG" /\ task[c].pc = "routeAdd" /\ UNCHANGED ngVars
      BY <2>3 DEF RegisterEnds, At
    <3>1. PICK via : AddRoute(Gw(c), ip, via) BY <2>3, <3>3, <3>p DEF RegisterEnds
    <3>f. \A d \in Conn : d # c => task'[d] = task[d] BY <1>s, OthersOf
    <3>2. Reached("NG", ip)' BY <3>1, <3>3, <3>p, <3>f, RouteAdded
    <3>4. /\ task[c].ip = ToInt(ngNames[Asked(c).contact])
          /\ ngNames[Asked(c).contact] = NoIp => Full(ngAddrs, ngTime)
      BY <1>s, <3>3 DEF Routing, Routed, Updating
    <3>5. ngNames' = ngNames /\ (Full(ngAddrs, ngTime) => Full(ngAddrs, ngTime)')
      BY <3>3 DEF ngVars, Full, RangeFull
    <3>6. PICK n : n = Asked(c).contact OBVIOUS
    <3>7. IF ngNames'[n] = NoIp THEN Full(ngAddrs, ngTime)' ELSE ngNames'[n] = ip
      BY <3>4, <3>5, <3>6, <3>p DEF ToInt
    <3>9. NgServes(n)' BY <3>2, <3>7 DEF NgServes, Reached, HasRoute
    <3>10. asked'[s][a.req].contact = n BY <1>n, <1>r, <3>6 DEF Asked
    <3> QED BY <3>9, <3>10 DEF NgWorth, NgServes, Reached, HasRoute
  <2> QED BY <2>1, <2>2, <2>3
<1>2. c[2] = 0 => OgWorth(s, a)'
  <2>1. CASE Gw(c) = "NG" BY <2>1, Gateways, Conns DEF OgWorth
  <2>2. CASE Gw(c) # "NG"
    <3>1. code # 200 BY <2>2 DEF RegisterRefused, RegisterEnds
    <3> QED BY <1>r, <3>1, Unregistered
  <2> QED BY <2>1, <2>2
<1>3. Sound(s, a)' BY <1>1, <1>a, <1>n DEF Sound
<1> QED BY <1>1, <1>2, <1>3, <1>a DEF Worthy

\* The operator gateway's answers.
LEMMA WorthyRelayed ==
  ASSUME TypeOK, NG!IInv, OG!IInv, NEW c \in Conn, SessionInv(c[1]), Task(c),
         NEW a, Replies(c, a), a = Relayed(c),
         ResponseContact(c) \/ ResponseRoute(c) \/ InviteEnds(c) \/ ResponseOther(c)
  PROVE  Worthy(c, a)
<1> DEFINE s == c[1]
<1>s. Roles(s) /\ Numbers(s) /\ Worths(s) /\ Routing(s) /\ s \in Session /\ c \in Mine(s)
  BY Conns DEF SessionInv, Mine
<1>g. Grows /\ asked' = asked /\ Asks(s)' = Asks(s) BY <1>s, GrowsTask, OthersOf
<1>p. Gw(c) = "OG" /\ c[2] = 0
  <2>1. ResponseRoute(c) => Gw(c) = "OG" BY DEF ResponseRoute
  <2>2. ResponseContact(c) \/ InviteEnds(c) \/ ResponseOther(c)
          => task[c].pc \in {"response", "inviteAdd"}
    BY DEF ResponseContact, InviteEnds, ResponseOther, At
  <2>3. Gw(c) = "OG" BY <1>s, <2>1, <2>2, Gateways DEF Roles
  <2> QED BY <2>3, Gateways, Conns DEF Base
<1>a. task[c].ans \in Answer BY TaskFields
<1>r. /\ a.req = task[c].ans.req /\ a.whole = task[c].ans.whole
      /\ a.code = (IF task[c].ans.code = 0 THEN 501 ELSE task[c].ans.code)
  BY <1>a DEF Relayed, Answer
<1>0. PICK b : b = task[c].ans OBVIOUS
<1>1. Sound(s, b) BY <1>s, <1>0 DEF Worths
<1>2. Sound(s, b)' BY <1>s, <1>g, <1>1, SoundGrows
<1>3. a.req \in Asks(s) \cup {0} BY <1>0, <1>1, <1>r DEF Sound
<1>4. NgWorth(s, a)'
  <2>1. b.req = a.req /\ (a.code = 200 => b.code = 200) BY <1>0, <1>r
  <2> QED BY <1>2, <2>1 DEF Sound, NgWorth, Registers
<1>5. OgWorth(s, a)'
  <2>0. PICK n : n = asked[s][a.req].contact OBVIOUS
  <2>1. asked'[s][a.req].contact = n /\ n = Echo(c).contact BY <1>g, <1>r, <2>0 DEF Echo
  <2> SUFFICES ASSUME a.req # 0, a.code = 200, a.whole, n # Absent
               PROVE  OgServes(n)'
    BY <2>1 DEF OgWorth, Registers, OgServes, Reached, HasRoute
  <2>2. task[c].ans.req # 0 /\ task[c].ans.code = 200 /\ task[c].ans.whole
    BY <1>r
  <2>3. n \in Name BY <1>s, <2>1, <2>2, EchoType
  <2>4. CASE ResponseContact(c)
    <3>1. OG!Generate(n) BY <2>1, <2>4 DEF ResponseContact
    <3>2. /\ ogTime' # << >> /\ ogReply'.ip = ogNames'[n]
          /\ ogNames'[n] = NoIp => RangeFull(ogAddrs)'
      BY <2>3, <3>1, OgGenerate DEF RangeFull
    <3>3. ogReply'.ip \in {0, NoIp}
      <4>1. task'[c].pc = "recv" BY DEF Replies, NewTask
      <4>2. ~(task' = [task EXCEPT ![c].pc = "dnsOpen", ![c].ip = ToInt(ogReply'.ip)])
        BY <4>1, TypeParts DEF TaskRec
      <4>3. ToInt(ogReply'.ip) = 0 BY <2>2, <2>4, <4>2 DEF ResponseContact
      <4> QED BY <4>3 DEF ToInt
    <3> QED BY <3>2, <3>3 DEF OgServes, Full
  <2>5. CASE ResponseRoute(c)
    <3>p. PICK ip : ip = task[c].ip OBVIOUS
    <3>1. AddRoute(Gw(c), ip, "peer") /\ UNCHANGED ogVars /\ task[c].pc = "routeAdd"
      BY <1>p, <2>5, <3>p DEF ResponseRoute, At
    <3>f. \A d \in Conn : d # c => task'[d] = task[d] BY <1>s, OthersOf
    <3>2. Reached("OG", ip)' BY <1>p, <3>1, <3>p, <3>f, RouteAdded
    <3>3. task[c].ip = ogNames[n] /\ task[c].ip # NoIp
      BY <1>s, <1>p, <2>1, <3>1 DEF Routing, Routed, Updating
    <3>4. ogNames'[n] = ip /\ ip # NoIp BY <3>1, <3>3, <3>p DEF ogVars
    <3> QED BY <3>2, <3>4 DEF OgServes, Reached, HasRoute
  <2>6. CASE ResponseOther(c)
    <3>1. FALSE \in HasContact(c) BY <2>6 DEF ResponseOther
    <3> QED BY <2>1, <2>2, <3>1 DEF HasContact
  <2>7. CASE InviteEnds(c)
    <3>1. Invited(c) BY <1>s, <2>7 DEF InviteEnds, At, Routing
    <3> QED BY <2>1, <2>2, <3>1 DEF Invited
  <2> QED BY <2>4, <2>5, <2>6, <2>7
<1> QED BY <1>3, <1>4, <1>5, <1>p DEF Worthy

\* Whatever a task replies is worth its code.
LEMMA RepliesWorthy ==
  ASSUME TypeOK, NG!IInv, OG!IInv, NEW c \in Conn, SessionInv(c[1]), Task(c),
         NEW a, Replies(c, a)
  PROVE  Worthy(c, a)
<1>o. Outcome(c, a) /\ Fit(c, a) /\ Busy(c) BY DEF Replies
<1>s. Roles(c[1]) /\ c \in Mine(c[1]) BY DEF SessionInv, Mine
<1>1. CASE \/ RegisterRefused(c) /\ a = Own(c, 400)
           \/ RegisterEnds(c) /\ a = Own(c, 200)
  <2>1. PICK code : /\ a = Own(c, code)
                    /\ \/ RegisterRefused(c) /\ code = 400
                       \/ RegisterEnds(c) /\ code = 200
    BY <1>1
  <2> QED BY <2>1, WorthyOwn
<1>2. CASE /\ RequestEnds(c)
           /\ a = Own(c, IF Gw(c) = "OG" THEN 405 ELSE IF Accepted(Asked(c)) THEN 200 ELSE 400)
  <2>1. PICK code : code = IF Gw(c) = "OG" THEN 405 ELSE IF Accepted(Asked(c)) THEN 200 ELSE 400
    OBVIOUS
  <2>2. a = Own(c, code) BY <1>2, <2>1
  <2>3. code = 200 => Gw(c) = "NG" /\ ~IsRegister(Asked(c)) /\ Accepted(Asked(c))
    BY <1>2, <2>1 DEF RequestEnds
  <2> QED BY <1>2, <2>2, <2>3, WorthyOwn
<1>3. CASE ResponseContact(c) \/ ResponseRoute(c) \/ InviteEnds(c) \/ ResponseOther(c)
  <2>1. task[c].pc \in {"response", "routeAdd", "inviteAdd"} /\ Gw(c) = "OG"
    <3>1. ResponseRoute(c) => task[c].pc = "routeAdd" /\ Gw(c) = "OG" BY DEF ResponseRoute, At
    <3>2. ResponseContact(c) \/ InviteEnds(c) \/ ResponseOther(c)
            => task[c].pc \in {"response", "inviteAdd"}
      BY DEF ResponseContact, InviteEnds, ResponseOther, At
    <3> QED BY <1>3, <1>s, <3>1, <3>2, Gateways DEF Roles
  <2>2. a = Relayed(c) BY <1>o, <2>1 DEF Fit
  <2> QED BY <1>3, <2>2, WorthyRelayed
<1> QED BY <1>o, <1>1, <1>2, <1>3 DEF Outcome

\* The worths at the next state, one answer at a time.
LEMMA WorthsNext ==
  ASSUME NEW s,
         \A d \in Mine(s) : \A a : a = task'[d].ans => Sound(s, a)',
         \A d \in Mine(s) : \A i \in DOMAIN wire'[d].back :
            \A a : a = wire'[d].back[i] => Sound(s, a)',
         \A i \in DOMAIN answers'[s] : \A a : a = answers'[s][i] =>
            a.req \in Asks(s)' \cup {0} /\ NgWorth(s, a)' /\ OgWorth(s, a)'
  PROVE  Worths(s)'
<1>1. ASSUME NEW d \in Mine(s) PROVE Sound(s, task[d].ans)'
  <2>1. PICK a : a = task'[d].ans OBVIOUS
  <2>2. Sound(s, a)' BY <2>1
  <2> QED BY <2>1, <2>2 DEF Sound, NgWorth, Registers
<1>2. ASSUME NEW d \in Mine(s), NEW i \in DOMAIN wire'[d].back PROVE Sound(s, wire[d].back[i])'
  <2>1. PICK a : a = wire'[d].back[i] OBVIOUS
  <2>2. Sound(s, a)' BY <2>1
  <2> QED BY <2>1, <2>2 DEF Sound, NgWorth, Registers
<1>3. ASSUME NEW i \in DOMAIN answers'[s]
      PROVE  /\ answers'[s][i].req \in Asks(s)' \cup {0}
             /\ NgWorth(s, answers[s][i])' /\ OgWorth(s, answers[s][i])'
  <2>1. PICK a : a = answers'[s][i] OBVIOUS
  <2>2. a.req \in Asks(s)' \cup {0} /\ NgWorth(s, a)' /\ OgWorth(s, a)' BY <2>1
  <2> QED BY <2>1, <2>2 DEF NgWorth, OgWorth, Registers
<1> QED BY <1>1, <1>2, <1>3 DEF Worths, Mine

\* What is worth something stays so.
LEMMA WorthsStay ==
  ASSUME TypeOK, Grows, NEW s \in Session, Worths(s)
  PROVE  /\ \A d \in Mine(s) : \A a : a = task[d].ans => Sound(s, a)'
         /\ \A d \in Mine(s) : \A i \in DOMAIN wire[d].back :
              \A a : a = wire[d].back[i] => Sound(s, a)'
         /\ \A i \in DOMAIN answers[s] : \A a : a = answers[s][i] =>
              a.req \in Asks(s)' \cup {0} /\ NgWorth(s, a)' /\ OgWorth(s, a)'
<1>1. ASSUME NEW d \in Mine(s), NEW a, a = task[d].ans PROVE Sound(s, a)'
  <2>1. Sound(s, a) BY <1>1 DEF Worths
  <2> QED BY <2>1, SoundGrows
<1>2. ASSUME NEW d \in Mine(s), NEW i \in DOMAIN wire[d].back, NEW a, a = wire[d].back[i]
      PROVE  Sound(s, a)'
  <2>1. Sound(s, a) BY <1>2 DEF Worths
  <2> QED BY <2>1, SoundGrows
<1>3. ASSUME NEW i \in DOMAIN answers[s], NEW a, a = answers[s][i]
      PROVE  a.req \in Asks(s)' \cup {0} /\ NgWorth(s, a)' /\ OgWorth(s, a)'
  <2>1. a.req \in Asks(s) \cup {0} /\ NgWorth(s, a) /\ OgWorth(s, a) BY <1>3 DEF Worths
  <2>2. NgWorth(s, a)' /\ OgWorth(s, a)' BY <2>1, SoundGrows
  <2> QED BY <2>1, <2>2 DEF Grows
<1> QED BY <1>1, <1>2, <1>3

\* The empty answer is sound.
LEMMA EmptySound == ASSUME NEW s PROVE Sound(s, EmptyAnswer) /\ Sound(s, EmptyAnswer)'
BY DEF Sound, EmptyAnswer, NgWorth, Registers

\* A task's step keeps every answer of the session worth its code.
LEMMA TaskWorths ==
  ASSUME TypeOK, NG!IInv, OG!IInv, NEW c \in Conn, SessionInv(c[1]), Task(c),
         c[1] \in OgSession => Relayable(c[1])
  PROVE  Worths(c[1])'
<1> DEFINE s == c[1]
<1>s. Roles(s) /\ Worths(s) /\ s \in Session /\ c \in Mine(s) /\ Mine(s) \subseteq Conn
  BY Conns DEF SessionInv, Mine
<1>g. Grows BY GrowsTask
<1>w. /\ \A d \in Mine(s) : \A a : a = task[d].ans => Sound(s, a)'
      /\ \A d \in Mine(s) : \A i \in DOMAIN wire[d].back :
           \A a : a = wire[d].back[i] => Sound(s, a)'
      /\ \A i \in DOMAIN answers[s] : \A a : a = answers[s][i] =>
           a.req \in Asks(s)' \cup {0} /\ NgWorth(s, a)' /\ OgWorth(s, a)'
  BY <1>g, <1>s, WorthsStay
<1>o. \A d \in Mine(s) : d # c => task'[d] = task[d] /\ wire'[d] = wire[d]
  BY <1>s, OthersOf
<1>1. ASSUME NEW a, a = task'[c].ans PROVE Sound(s, a)'
  <2>1. CASE task'[c].ans = task[c].ans BY <1>1, <1>s, <1>w, <2>1
  <2>2. CASE ForwardPop(c)
    <3>1. s \in OgSession
      <4>1. task[c].pc = "pop" BY <2>2 DEF ForwardPop, At
      <4> QED BY <1>s, <4>1, Gateways DEF Roles
    <3>2. recvMsg[s] # << >> /\ task'[c].ans = Head(recvMsg[s]) BY <2>2, <3>1, ForwardEffect DEF Forwards
    <3>3. recvMsg[s] \in Seq(Answer) BY <3>1, CliFields
    <3>4. 1 \in DOMAIN recvMsg[s] /\ Head(recvMsg[s]) = recvMsg[s][1] BY <3>2, <3>3, HeadTail
    <3>5. Sound(s, a) BY <1>1, <3>1, <3>2, <3>4 DEF Relayable
    <3> QED BY <1>g, <1>s, <3>5, SoundGrows
  <2>3. CASE \E x : Replies(c, x)
    <3>1. a = EmptyAnswer BY <1>1, <2>3 DEF Replies, NewTask
    <3> QED BY <3>1, EmptySound DEF Sound, NgWorth, Registers
  <2>4. CASE Accepts(c) \/ Ends(c) \/ Updates(c)
    BY <2>1, <2>4 DEF Accepts, Ends, Updates
  <2>5. CASE ForwardPush(c) \/ ForwardFails(c)
    <3>1. task[c].pc \in {"forward", "pop"} BY <2>5 DEF ForwardPush, ForwardFails, At
    <3>2. s \in OgSession BY <1>s, <3>1, Gateways DEF Roles
    <3> QED BY <2>1, <2>5, <3>2, ForwardEffect DEF Forwards
  <2> QED BY <1>s, <2>2, <2>3, <2>4, <2>5, TaskKinds DEF Forwards
<1>2. \A d \in Mine(s) : \A a : a = task'[d].ans => Sound(s, a)'
  BY <1>1, <1>o, <1>w
<1>3. ASSUME NEW i \in DOMAIN wire'[c].back, NEW a, a = wire'[c].back[i] PROVE Sound(s, a)'
  <2>1. CASE wire'[c].back = wire[c].back BY <1>3, <1>s, <1>w, <2>1
  <2>2. ASSUME NEW x, Replies(c, x) PROVE Sound(s, a)'
    <3>1. CASE wire'[c].back = Append(wire[c].back, x) /\ c[2] # 0
      <4>1. wire[c].back \in Seq(Answer) BY WireFields
      <4>2. (i \in DOMAIN wire[c].back /\ a = wire[c].back[i]) \/ a = x
        BY <1>3, <3>1, <4>1, Appended
      <4>3. CASE i \in DOMAIN wire[c].back /\ a = wire[c].back[i] BY <1>s, <1>w, <4>3
      <4>4. CASE a = x
        <5>1. Worthy(c, a) BY <2>2, <4>4, RepliesWorthy
        <5> QED BY <3>1, <5>1 DEF Worthy
      <4> QED BY <4>2, <4>3, <4>4
    <3> QED BY <2>1, <2>2, <3>1, RepliesTo
  <2>3. CASE ~\E x : Replies(c, x)
    <3>1. wire'[c].back = wire[c].back
      BY <1>s, <2>3, TaskKinds, ForwardWorks DEF Accepts, Ends, Updates, Works
    <3> QED BY <2>1, <3>1
  <2> QED BY <2>2, <2>3
<1>4. \A d \in Mine(s) : \A i \in DOMAIN wire'[d].back :
        \A a : a = wire'[d].back[i] => Sound(s, a)'
  <2> SUFFICES ASSUME NEW d \in Mine(s), NEW i \in DOMAIN wire'[d].back,
                      NEW a, a = wire'[d].back[i]
               PROVE  Sound(s, a)'
    OBVIOUS
  <2>1. CASE d = c BY <1>3, <2>1
  <2>2. CASE d # c BY <1>o, <1>w, <2>2
  <2> QED BY <2>1, <2>2
<1>5. ASSUME NEW i \in DOMAIN answers'[s], NEW a, a = answers'[s][i]
      PROVE  a.req \in Asks(s)' \cup {0} /\ NgWorth(s, a)' /\ OgWorth(s, a)'
  <2>1. CASE answers'[s] = answers[s] BY <1>5, <1>w, <2>1
  <2>2. ASSUME NEW x, Replies(c, x)
        PROVE  a.req \in Asks(s)' \cup {0} /\ NgWorth(s, a)' /\ OgWorth(s, a)'
    <3>1. answers \in [Session -> Seq(Answer)] BY TypeParts
    <3>2. CASE c[2] = 0
      <4>1. answers' = [answers EXCEPT ![c[1]] = IF wire[c].link = "up" THEN Append(@, x) ELSE @]
        BY <2>2, <3>2, RepliesTo
      <4>2. answers'[s] = answers[s] \/ answers'[s] = Append(answers[s], x)
        BY <1>s, <3>1, <4>1
      <4>3. CASE answers'[s] = Append(answers[s], x)
        <5>1. answers[s] \in Seq(Answer) BY <1>s, <3>1
        <5>2. (i \in DOMAIN answers[s] /\ a = answers[s][i]) \/ a = x
          BY <1>5, <4>3, <5>1, Appended
        <5>3. CASE i \in DOMAIN answers[s] /\ a = answers[s][i] BY <1>w, <5>3
        <5>4. CASE a = x
          <6>1. Worthy(c, a) BY <2>2, <5>4, RepliesWorthy
          <6>2. Asks(s)' = Asks(s) BY <1>s, OthersOf
          <6> QED BY <3>2, <6>1, <6>2 DEF Worthy
        <5> QED BY <5>2, <5>3, <5>4
      <4> QED BY <2>1, <4>2, <4>3
    <3>3. CASE c[2] # 0
      <4>1. c # Base(s) BY <1>s, <3>3, Conns
      <4> QED BY <1>s, <2>1, <4>1, OthersOf
    <3> QED BY <3>2, <3>3
  <2>3. CASE ~\E x : Replies(c, x)
    <3>1. answers' = answers
      BY <1>s, <2>3, TaskKinds, ForwardWorks DEF Accepts, Ends, Updates, Works
    <3> QED BY <2>1, <3>1
  <2> QED BY <2>2, <2>3
<1> QED BY <1>2, <1>4, <1>5, WorthsNext

\* The same of the answers on their way through a client.
LEMMA RelayableNext ==
  ASSUME NEW s,
         \A a : a = cli'[s].got => Sound(s, a)',
         \A i \in DOMAIN recvMsg'[s] : \A a : a = recvMsg'[s][i] => Sound(s, a)'
  PROVE  Relayable(s)'
<1>1. Sound(s, cli[s].got)'
  <2>1. PICK a : a = cli'[s].got OBVIOUS
  <2>2. Sound(s, a)' BY <2>1
  <2> QED BY <2>1, <2>2 DEF Sound, NgWorth, Registers
<1>2. ASSUME NEW i \in DOMAIN recvMsg'[s] PROVE Sound(s, recvMsg[s][i])'
  <2>1. PICK a : a = recvMsg'[s][i] OBVIOUS
  <2>2. Sound(s, a)' BY <2>1
  <2> QED BY <2>1, <2>2 DEF Sound, NgWorth, Registers
<1> QED BY <1>1, <1>2 DEF Relayable

\* What a client has to relay stays worth its code.
LEMMA RelayableStays ==
  ASSUME TypeOK, Grows, NEW s \in Session, Relayable(s)
  PROVE  /\ \A a : a = cli[s].got => Sound(s, a)'
         /\ \A i \in DOMAIN recvMsg[s] : \A a : a = recvMsg[s][i] => Sound(s, a)'
<1>1. ASSUME NEW a, a = cli[s].got PROVE Sound(s, a)'
  <2>1. Sound(s, a) BY <1>1 DEF Relayable
  <2> QED BY <2>1, SoundGrows
<1>2. ASSUME NEW i \in DOMAIN recvMsg[s], NEW a, a = recvMsg[s][i] PROVE Sound(s, a)'
  <2>1. Sound(s, a) BY <1>2 DEF Relayable
  <2> QED BY <2>1, SoundGrows
<1> QED BY <1>1, <1>2

\* A task's step keeps what its client has to relay worth its code.
LEMMA TaskRelayable ==
  ASSUME TypeOK, NG!IInv, OG!IInv, NEW c \in Conn, SessionInv(c[1]), Task(c),
         c[1] \in OgSession, Relayable(c[1])
  PROVE  Relayable(c[1])'
<1> DEFINE s == c[1]
<1>s. Roles(s) /\ s \in Session BY Conns DEF SessionInv
<1>g. Grows BY GrowsTask
<1>w. /\ \A a : a = cli[s].got => Sound(s, a)'
      /\ \A i \in DOMAIN recvMsg[s] : \A a : a = recvMsg[s][i] => Sound(s, a)'
  BY <1>g, <1>s, RelayableStays
<1>1. cli'[s].got = cli[s].got BY <1>s, TaskSteady DEF Steady
<1>2. recvMsg'[s] = recvMsg[s] \/ recvMsg'[s] = << >>
  <2>1. CASE Accepts(c) \/ Ends(c) \/ Updates(c) BY <2>1 DEF Accepts, Ends, Updates
  <2>2. CASE Forwards(c)
    <3>1. ForwardPush(c) => recvMsg'[s] = recvMsg[s] BY <2>2, ForwardEffect
    <3>2. ForwardFails(c) => recvMsg'[s] = recvMsg[s] BY <2>2, ForwardEffect
    <3>3. ForwardPop(c) => recvMsg'[s] = << >> BY <2>2, ForwardEffect
    <3> QED BY <2>2, <3>1, <3>2, <3>3 DEF Forwards
  <2>3. CASE \E a : Replies(c, a) BY <2>3 DEF Replies
  <2> QED BY <1>s, <2>1, <2>2, <2>3, TaskKinds
<1> QED BY <1>w, <1>1, <1>2, RelayableNext

\* A task's step keeps its session's invariant and its client's.
LEMMA TaskSession ==
  ASSUME TypeOK, NG!IInv, OG!IInv, NEW c \in Conn, SessionInv(c[1]), Task(c),
         c[1] \in OgSession => ClientInv(c[1])
  PROVE  SessionInv(c[1])' /\ (c[1] \in OgSession => ClientInv(c[1])')
<1>1. /\ Roles(c[1]) /\ Numbers(c[1]) /\ Turn(c[1]) /\ OwnAnswers(c[1]) /\ Worths(c[1])
      /\ Routing(c[1])
  BY DEF SessionInv
<1>2. c[1] \in OgSession => /\ Place(c[1]) /\ Pending(c[1]) /\ Hearing(c[1]) /\ Ordered(c[1])
                            /\ Punctual(c[1]) /\ Relayable(c[1])
  BY DEF ClientInv
<1>3. Roles(c[1])' BY <1>1, TaskRoles
<1>4. Numbers(c[1])' BY <1>1, TaskNumbers
<1>5. Turn(c[1])' BY <1>1, TaskTurn
<1>6. OwnAnswers(c[1])' BY <1>1, <1>2, TaskOwn
<1>7. Worths(c[1])' BY <1>2, TaskWorths
<1>8. Routing(c[1])' BY TaskRouting
<1>9. ASSUME c[1] \in OgSession PROVE ClientInv(c[1])'
  <2>1. Place(c[1])' BY <1>1, <1>2, <1>9, TaskPlace
  <2>2. Pending(c[1])' BY <1>1, <1>2, <1>9, TaskPending
  <2>3. Hearing(c[1])' BY <1>1, <1>2, <1>9, TaskHearing
  <2>4. Ordered(c[1])' BY <1>1, <1>2, <1>9, TaskOrdered
  <2>5. Punctual(c[1])' BY <1>1, <1>2, <1>9, TaskPunctual
  <2>6. Relayable(c[1])' BY <1>2, <1>9, TaskRelayable
  <2> QED BY <2>1, <2>2, <2>3, <2>4, <2>5, <2>6 DEF ClientInv
<1> QED BY <1>3, <1>4, <1>5, <1>6, <1>7, <1>8, <1>9 DEF SessionInv
=============================================================================
