-------------------------- MODULE SipServer_proofs --------------------------
(***************************************************************************)
(* Proofs about SipServer, concluded: the steps of the clients (SipClient, *)
(* with the server's task beside it), of the agents and of the hosts file  *)
(* keep the inductive invariant of SipTask_proofs, and TypeOK, OwnAnswer,  *)
(* Registered and HostsComplete follow from it, for every number of        *)
(* sessions, connections, requests, names and every lease range.           *)
(***************************************************************************)
EXTENDS SipTask_proofs

-----------------------------------------------------------------------------
(***************************************************************************)
(* The sessions a step leaves alone.                                       *)
(***************************************************************************)
Untouched(x) ==
  /\ asked'[x] = asked[x] /\ answers'[x] = answers[x]
  /\ \A d \in Mine(x) : task'[d] = task[d] /\ wire'[d] = wire[d]
  /\ x \in OgSession => cli'[x] = cli[x] /\ sendMsg'[x] = sendMsg[x] /\ recvMsg'[x] = recvMsg[x]

\* The connections of a session.
LEMMA MineConns ==
  ASSUME TypeOK, NEW x \in Session
  PROVE  /\ Base(x) \in Mine(x) /\ Mine(x) \subseteq Conn
         /\ x \in OgSession => /\ Here(x) \in Mine(x)
                               /\ \A k \in cli[x].conn + 1 .. MaxConn : <<x, k>> \in Mine(x)
<1>1. Base(x) \in Mine(x) /\ Mine(x) \subseteq Conn BY Conns DEF Mine
<1>2. ASSUME x \in OgSession PROVE Here(x) \in Mine(x) BY <1>2, HereConn DEF Mine
<1>3. ASSUME x \in OgSession, NEW k \in cli[x].conn + 1 .. MaxConn PROVE <<x, k>> \in Mine(x)
  <2>1. cli[x].conn \in 0 .. MaxConn BY <1>3, CliFields
  <2>2. k \in 0 .. MaxConn BY <2>1, Bounds
  <2> QED BY <1>3, <2>2, Conns DEF Mine
<1> QED BY <1>1, <1>2, <1>3

\* The addresses of tasks that a step leaves alone.
LEMMA RoutingStays ==
  ASSUME TypeOK, Grows, NEW x \in Session, Numbers(x), Worths(x), Routing(x),
         \A d \in Mine(x) : task'[d] = task[d]
  PROVE  Routing(x)'
<1>m. Mine(x) \subseteq Conn /\ \A d \in Mine(x) : d[1] = x BY MineConns DEF Mine
<1>1. ASSUME NEW d \in Mine(x), Updating(d)' PROVE Routed(d)'
  <2>1. d \in Conn /\ d[1] = x /\ task'[d] = task[d] BY <1>m, <1>1
  <2>2. Updating(d) BY <1>1, <2>1 DEF Updating
  <2>3. Routed(d) BY <1>1, <2>2 DEF Routing
  <2> QED BY <2>1, <2>2, <2>3, RoutedStays
<1>2. ASSUME NEW d \in Mine(x), task'[d].pc = "inviteAdd" PROVE Invited(d)'
  <2>1. d[1] = x /\ task'[d] = task[d] /\ Invited(d) BY <1>m, <1>2 DEF Routing
  <2>2. task[d].ans.req \in Asks(x)
    BY <2>1, <1>2 DEF Invited, Worths, Sound
  <2>3. asked'[x][task[d].ans.req] = asked[x][task[d].ans.req] BY <2>2 DEF Grows
  <2>4. Echo(d)' = Echo(d) BY <2>1, <2>3 DEF Echo
  <2> QED BY <2>1, <2>4 DEF Invited
<1> QED BY <1>1, <1>2 DEF Routing, Mine

\* A session that a step leaves alone keeps its invariant.
LEMMA UntouchedSession ==
  ASSUME TypeOK, Grows, NEW x \in Session, Untouched(x), SessionInv(x)
  PROVE  SessionInv(x)'
<1>m. Base(x) \in Mine(x) /\ Mine(x) \subseteq Conn /\ \A d \in Mine(x) : d[1] = x
  BY MineConns DEF Mine
<1>u. \A d \in Mine(x) : /\ task'[d] = task[d] /\ wire'[d] = wire[d]
                         /\ Busy(d)' <=> Busy(d)
                         /\ Updating(d)' <=> Updating(d)
  BY DEF Untouched, Busy, Updating
<1>s. Roles(x) /\ Numbers(x) /\ Turn(x) /\ OwnAnswers(x) /\ Worths(x) /\ Routing(x)
  BY DEF SessionInv
<1>a. asked'[x] = asked[x] /\ answers'[x] = answers[x] /\ Asks(x)' = Asks(x)
  BY DEF Untouched, Asks
<1>1. Roles(x)' BY <1>u, <1>s DEF Roles, Mine, Gw
<1>2. Numbers(x)'
  <2>1. ASSUME NEW d \in Mine(x)
        PROVE  /\ \A i \in DOMAIN wire'[d].to : wire'[d].to[i] \in Asks(x)
               /\ \A i \in DOMAIN wire'[d].back : wire'[d].back[i].req # 0
               /\ Busy(d)' => task'[d].req \in Asks(x)
    BY <1>u, <1>s DEF Numbers
  <2> QED BY <1>a, <2>1 DEF Numbers, Mine
<1>3. Turn(x)'
  <2>1. task'[Base(x)] = task[Base(x)] /\ wire'[Base(x)] = wire[Base(x)] BY <1>m, <1>u
  <2> QED BY <1>a, <1>s, <2>1 DEF Turn, Busy, Base
<1>4. OwnAnswers(x)' BY <1>a, <1>s DEF OwnAnswers, Untouched
<1>5. Worths(x)'
  <2>1. /\ \A d \in Mine(x) : \A a : a = task[d].ans => Sound(x, a)'
        /\ \A d \in Mine(x) : \A i \in DOMAIN wire[d].back :
             \A a : a = wire[d].back[i] => Sound(x, a)'
        /\ \A i \in DOMAIN answers[x] : \A a : a = answers[x][i] =>
             a.req \in Asks(x)' \cup {0} /\ NgWorth(x, a)' /\ OgWorth(x, a)'
    BY <1>s, WorthsStay
  <2>2. \A d \in Mine(x) : \A a : a = task'[d].ans => Sound(x, a)' BY <1>u, <2>1
  <2>3. \A d \in Mine(x) : \A i \in DOMAIN wire'[d].back :
             \A a : a = wire'[d].back[i] => Sound(x, a)'
    BY <1>u, <2>1
  <2>4. \A i \in DOMAIN answers'[x] : \A a : a = answers'[x][i] =>
             a.req \in Asks(x)' \cup {0} /\ NgWorth(x, a)' /\ OgWorth(x, a)'
    BY <1>a, <2>1
  <2> QED BY <2>2, <2>3, <2>4, WorthsNext
<1>6. Routing(x)' BY <1>u, <1>s, RoutingStays
<1> QED BY <1>1, <1>2, <1>3, <1>4, <1>5, <1>6 DEF SessionInv

\* So does its client.
LEMMA UntouchedClient ==
  ASSUME TypeOK, Grows, NEW x \in OgSession, Untouched(x), ClientInv(x)
  PROVE  ClientInv(x)'
<1>x. x \in Session BY Bounds
<1>m. /\ Base(x) \in Mine(x) /\ Here(x) \in Mine(x)
      /\ \A k \in cli[x].conn + 1 .. MaxConn : <<x, k>> \in Mine(x)
  BY <1>x, MineConns
<1>u. /\ \A d \in Mine(x) : task'[d] = task[d] /\ wire'[d] = wire[d]
      /\ cli'[x] = cli[x] /\ sendMsg'[x] = sendMsg[x] /\ recvMsg'[x] = recvMsg[x]
      /\ asked'[x] = asked[x] /\ answers'[x] = answers[x] /\ Asks(x)' = Asks(x)
  BY DEF Untouched, Asks
<1>s. Place(x) /\ Pending(x) /\ Hearing(x) /\ Ordered(x) /\ Punctual(x) /\ Relayable(x)
  BY DEF ClientInv
<1>h. PICK h : h = Here(x) OBVIOUS
<1>e. Here(x)' = h BY <1>h, <1>u DEF Here
<1>b. task'[Base(x)] = task[Base(x)] /\ wire'[Base(x)] = wire[Base(x)] BY <1>m, <1>u
<1>w. task'[h] = task[h] /\ wire'[h] = wire[h] BY <1>m, <1>u, <1>h
<1>q. /\ Quiet(Here(x))' <=> Quiet(Here(x))
      /\ \A r : Sole(Here(x), r)' <=> Sole(Here(x), r)
  <2>1. /\ Quiet(Here(x))' <=> Quiet(h)'
        /\ \A r : Sole(Here(x), r)' <=> Sole(h, r)'
    BY <1>e, SoleAt
  <2>2. /\ Quiet(h)' <=> Quiet(h)
        /\ \A r : Sole(h, r)' <=> Sole(h, r)
    BY <1>w, SoleStays
  <2> QED BY <1>h, <2>1, <2>2
<1>1. Place(x)'
  <2>1. Back(x)' = Back(x) BY <1>e, <1>h, <1>w DEF Back
  <2>2. \A k \in cli[x].conn + 1 .. MaxConn :
           /\ wire'[<<x, k>>].to = << >> /\ wire'[<<x, k>>].back = << >>
           /\ wire'[<<x, k>>].link = "none" /\ task'[<<x, k>>] = NewTask
    BY <1>m, <1>u, <1>s DEF Place
  <2> QED BY <1>u, <1>s, <2>1, <2>2 DEF Place
<1>2. Pending(x)' BY <1>u, <1>s DEF Pending
<1>3. Hearing(x)' BY <1>u, <1>s, <1>q DEF Hearing
<1>t. /\ Told(x)' = Told(x) /\ Kept(x)' = Kept(x) /\ Queued(x)' = Queued(x)
      /\ Fetched(x)' = Fetched(x) /\ Held(x)' = Held(x)
  <2>1. Told(x)' = Told(x) /\ Kept(x)' = Kept(x) /\ Queued(x)' = Queued(x)
    BY <1>u DEF Told, Kept, Queued
  <2>2. Fetched(x)' = Fetched(x) BY <1>b DEF Fetched, Updating, Base
  <2>3. Held(x)' = Held(x) BY <1>u, <1>q DEF Held
  <2> QED BY <2>1, <2>2, <2>3
<1>4. Ordered(x)'
  <2>1. Started(x)' = Started(x) BY <1>t DEF Started
  <2>2. /\ InTurn(Told(x), Fetched(x), Kept(x), Held(x), Queued(x))
        /\ \A r \in Started(x) :
             /\ r <= Len(asked[x])
             /\ wire[Base(x)].to # << >> \/ task[Base(x)].pc = "forward" => r < Len(asked[x])
    BY <1>s DEF Ordered
  <2>3. \A r \in Started(x)' :
             /\ r <= Len(asked'[x])
             /\ wire'[Base(x)].to # << >> \/ task'[Base(x)].pc = "forward" => r < Len(asked'[x])
    BY <1>u, <1>b, <2>1, <2>2
  <2>4. InTurn(Told(x), Fetched(x), Kept(x), Held(x), Queued(x))'
    BY <1>t, <2>2 DEF InTurn, Below
  <2> QED BY <2>3, <2>4 DEF Ordered, Base
<1>5. Punctual(x)' BY <1>u, <1>s, <1>b, <1>t DEF Punctual, Occupied, Base
<1>6. Relayable(x)'
  <2>1. /\ \A a : a = cli[x].got => Sound(x, a)'
        /\ \A i \in DOMAIN recvMsg[x] : \A a : a = recvMsg[x][i] => Sound(x, a)'
    BY <1>x, <1>s, RelayableStays
  <2> QED BY <1>u, <2>1, RelayableNext
<1> QED BY <1>1, <1>2, <1>3, <1>4, <1>5, <1>6 DEF ClientInv

\* A task touches its own session alone.
LEMMA UntouchedByTask ==
  ASSUME TypeOK, NEW c \in Conn, Roles(c[1]), Task(c), NEW x \in Session, x # c[1]
  PROVE  Untouched(x)
<1>1. Elsewhere(c) BY TaskFrame
<1>2. \A d \in Mine(x) : d \in Conn /\ d # c BY DEF Mine
<1> QED BY <1>1, <1>2 DEF Elsewhere, Untouched

\* So does a client.
LEMMA UntouchedByClient ==
  ASSUME TypeOK, NEW s \in OgSession, Place(s), Client(s) \/ Wake(s), UNCHANGED serverVars,
         NEW x \in Session, x # s
  PROVE  Untouched(x)
<1>1. ClientFrame(s) BY ClientFrames
<1>2. \A d \in Mine(x) : d \in Conn /\ d \notin {Here(s), <<s, cli[s].conn + 1>>}
  BY DEF Mine, Here
<1> QED BY <1>1, <1>2 DEF ClientFrame, serverVars, Untouched

\* So does an agent.
LEMMA UntouchedByAgent ==
  ASSUME TypeOK, NEW s \in Session, AgentSend(s) \/ AgentCloses(s), NEW x \in Session, x # s
  PROVE  Untouched(x)
<1>1. /\ UNCHANGED <<cli, sendMsg, recvMsg, task, answers>>
      /\ asked'[x] = asked[x]
  <2>1. asked \in [Session -> Seq(Request)] BY TypeParts
  <2>2. CASE AgentCloses(s) BY <2>2 DEF AgentCloses
  <2>3. CASE AgentSend(s) BY <2>1, <2>3 DEF AgentSend
  <2> QED BY <2>2, <2>3
<1>2. \A d \in Conn : d # Base(s) => wire'[d] = wire[d]
  <2>1. wire \in [Conn -> WireRec] BY TypeParts
  <2>2. CASE AgentCloses(s) BY <2>1, <2>2 DEF AgentCloses, Base
  <2>3. CASE AgentSend(s) BY <2>1, <2>3 DEF AgentSend, Base
  <2> QED BY <2>2, <2>3
<1>3. \A d \in Mine(x) : d \in Conn /\ d # Base(s) BY DEF Mine, Base
<1> QED BY <1>1, <1>2, <1>3 DEF Untouched

-----------------------------------------------------------------------------
(***************************************************************************)
(* The kinds of a client's steps.                                          *)
(***************************************************************************)
Stays(s) == /\ cli'[s].conn = cli[s].conn /\ cli'[s].late = cli[s].late
            /\ sendMsg'[s] = sendMsg[s] /\ recvMsg'[s] = recvMsg[s]

Connects(s) ==
  /\ cli[s].pc = "connect" /\ cli'[s].pc = "pop" /\ cli[s].conn < MaxConn
  /\ cli'[s].conn = cli[s].conn + 1 /\ cli'[s].late = cli[s].late
  /\ cli'[s].some = cli[s].some /\ cli'[s].got = cli[s].got
  /\ sendMsg'[s] = sendMsg[s] /\ recvMsg'[s] = recvMsg[s]
  /\ Still(s) /\ \A d \in Conn : d # <<s, cli[s].conn + 1>> => wire'[d] = wire[d]

Leaves(s) ==
  /\ cli'[s].pc \in {"connect", "ended"} /\ cli'[s].conn = cli[s].conn
  /\ cli'[s].some = FALSE /\ cli'[s].got = EmptyAnswer /\ cli'[s].late = cli[s].late
  /\ sendMsg'[s] \in {sendMsg[s], << >>} /\ recvMsg'[s] = recvMsg[s]
  /\ Still(s) /\ \A d \in Conn : d # Here(s) \/ d[2] = 0 => wire'[d] = wire[d]

Waits(s) ==
  /\ cli[s].pc \in {"pop", "waiting"} /\ cli'[s].pc \in {"pop", "waiting"}
  /\ cli'[s].hears = cli[s].hears /\ cli'[s].some = cli[s].some /\ cli'[s].got = cli[s].got
  /\ Stays(s) /\ wire' = wire

Takes(s) ==
  /\ cli[s].pc \in {"pop", "waiting"} /\ cli'[s].pc = "send"
  /\ sendMsg[s] # << >> /\ cli'[s].buf = Head(sendMsg[s]) /\ sendMsg'[s] = << >>
  /\ cli'[s].hears = cli[s].hears /\ cli'[s].some = cli[s].some /\ cli'[s].got = cli[s].got
  /\ cli'[s].conn = cli[s].conn /\ cli'[s].late = cli[s].late
  /\ recvMsg'[s] = recvMsg[s] /\ wire' = wire

Sends(s) ==
  /\ cli[s].pc = "send" /\ cli'[s].pc = "recv"
  /\ cli'[s].hears = cli[s].hears /\ cli'[s].some = cli[s].some /\ cli'[s].got = cli[s].got
  /\ Stays(s)
  /\ \A d \in Conn : d # Here(s) => wire'[d] = wire[d]
  /\ wire'[Here(s)].back = wire[Here(s)].back
  /\ \/ wire'[Here(s)].to = wire[Here(s)].to
     \/ wire'[Here(s)].to = Append(wire[Here(s)].to, cli[s].buf)

Begins(s) ==
  /\ cli[s].pc = "recv" /\ cli'[s].pc = "recv" /\ cli[s].hears /\ Back(s) # << >>
  /\ cli'[s].hears = cli[s].hears /\ cli'[s].got = cli[s].got
  /\ Stays(s) /\ wire' = wire

Reads(s) ==
  /\ cli[s].pc = "recv" /\ cli'[s].pc = "push" /\ cli[s].hears /\ Back(s) # << >>
  /\ cli'[s].got = Head(Back(s)) /\ cli'[s].some = FALSE
  /\ Stays(s)
  /\ \A d \in Conn : d # Here(s) => wire'[d] = wire[d]
  /\ wire'[Here(s)].to = wire[Here(s)].to
  /\ wire'[Here(s)].back = Tail(wire[Here(s)].back)

GivesUp(s) ==
  /\ cli[s].pc = "recv" /\ cli'[s].pc = "push" /\ ~cli'[s].hears /\ cli'[s].some = FALSE
  /\ \/ cli'[s].got = EmptyAnswer
     \/ /\ cli[s].hears /\ cli[s].some
        /\ cli'[s].got = [Head(Back(s)) EXCEPT !.whole = FALSE]
  /\ Stays(s) /\ wire' = wire

Hands(s) ==
  /\ cli[s].pc = "push" /\ cli'[s].pc = "pop"
  /\ recvMsg[s] = << >> /\ recvMsg'[s] = <<cli[s].got>>
  /\ cli'[s].hears = cli[s].hears /\ cli'[s].some = cli[s].some /\ cli'[s].got = EmptyAnswer
  /\ cli'[s].conn = cli[s].conn /\ cli'[s].late = cli[s].late
  /\ sendMsg'[s] = sendMsg[s] /\ wire' = wire

Kinds(s) == \/ Connects(s) \/ Leaves(s) \/ Waits(s) \/ Takes(s) \/ Sends(s)
            \/ Begins(s) \/ Reads(s) \/ GivesUp(s) \/ Hands(s)

\* A client's step is of one of these kinds.
LEMMA ClientKinds ==
  ASSUME TypeOK, NEW s \in OgSession, Place(s), Client(s) \/ Wake(s)
  PROVE  Kinds(s)
<1>t. /\ cli \in [OgSession -> CliRec] /\ wire \in [Conn -> WireRec]
      /\ sendMsg \in [OgSession -> Seq(1 .. MaxReq)] /\ recvMsg \in [OgSession -> Seq(Answer)]
  BY TypeParts DEF SendType, RecvType
<1>h. Here(s) \in Conn BY HereConn
<1>l. ASSUME NEW p \in {"connect", "ended"}, Leave(s, p),
             sendMsg'[s] \in {sendMsg[s], << >>}, recvMsg'[s] = recvMsg[s]
      PROVE  Leaves(s)
  <2>1. /\ cli' = [cli EXCEPT ![s] = [cli[s] EXCEPT !.pc = p, !.connected = FALSE,
                       !.some = FALSE, !.buf = 0, !.got = EmptyAnswer]]
        /\ \A d \in Conn : d # Here(s) \/ d[2] = 0 => wire'[d] = wire[d]
        /\ Still(s)
    BY <1>l, LeaveEffect, Zenon
  <2>2. /\ cli'[s].pc = p /\ cli'[s].conn = cli[s].conn /\ cli'[s].some = FALSE
        /\ cli'[s].got = EmptyAnswer /\ cli'[s].late = cli[s].late
    <3>1. cli'[s] = [cli[s] EXCEPT !.pc = p, !.connected = FALSE,
                       !.some = FALSE, !.buf = 0, !.got = EmptyAnswer]
      BY <1>t, <2>1
    <3> QED BY <1>t, <3>1 DEF CliRec
  <2> QED BY <1>l, <2>1, <2>2 DEF Leaves
<1>1. CASE Connect(s)
  <2>1. /\ cli'[s].pc = "pop" /\ cli'[s].conn = cli[s].conn + 1 /\ cli'[s].late = cli[s].late
        /\ cli'[s].some = cli[s].some /\ cli'[s].got = cli[s].got
    BY <1>1, <1>t DEF Connect, CliRec
  <2>2. wire' = [wire EXCEPT ![<<s, cli[s].conn + 1>>].link = "up"] BY <1>1 DEF Connect
  <2>3. Still(s) /\ \A d \in Conn : d # <<s, cli[s].conn + 1>> => wire'[d] = wire[d]
    <3>1. PICK e : e = <<s, cli[s].conn + 1>> OBVIOUS
    <3>2. wire' = [wire EXCEPT ![e].link = "up"] BY <2>2, <3>1
    <3>3. \A d \in Conn : /\ wire'[d].to = wire[d].to /\ wire'[d].back = wire[d].back
                          /\ d # e => wire'[d] = wire[d]
      BY <1>t, <3>2 DEF WireRec
    <3> QED BY <3>1, <3>3 DEF Still
  <2>4. cli[s].pc = "connect" /\ cli[s].conn < MaxConn /\ UNCHANGED <<sendMsg, recvMsg>>
    BY <1>1 DEF Connect
  <2> QED BY <2>1, <2>3, <2>4 DEF Connects, Kinds
<1>2. CASE Quit(s) \/ SendFails(s) \/ PushFull(s)
  <2>1. UNCHANGED <<sendMsg, recvMsg>> BY <1>2 DEF Quit, SendFails, PushFull
  <2>2. PICK p \in {"connect", "ended"} : Leave(s, p) BY <1>2 DEF Quit, SendFails, PushFull
  <2> QED BY <1>l, <2>1, <2>2 DEF Kinds
<1>3. CASE Wait(s) \/ Wake(s)
  <2>1. /\ UNCHANGED <<sendMsg, recvMsg, wire>> /\ cli[s].pc \in {"pop", "waiting"}
        /\ \E p \in {"pop", "waiting"} : cli' = [cli EXCEPT ![s].pc = p]
    BY <1>3 DEF Wait, Wake, Goto
  <2> QED BY <1>t, <2>1 DEF Waits, Stays, Kinds, CliRec
<1>4. CASE Take(s)
  <2>1. /\ UNCHANGED recvMsg /\ sendMsg[s] # << >> /\ cli[s].pc \in {"pop", "waiting"}
        /\ sendMsg'[s] = << >>
    BY <1>4, <1>t DEF Take
  <2>2. CASE Leave(s, "ended") BY <1>l, <2>1, <2>2 DEF Kinds
  <2>3. CASE ~Leave(s, "ended")
    <3>1. /\ cli' = [cli EXCEPT ![s].pc = "send", ![s].buf = Head(sendMsg[s])]
          /\ UNCHANGED wire
      BY <1>4, <2>3 DEF Take
    <3>2. /\ cli'[s].pc = "send" /\ cli'[s].buf = Head(sendMsg[s])
          /\ cli'[s].hears = cli[s].hears /\ cli'[s].some = cli[s].some /\ cli'[s].got = cli[s].got
          /\ cli'[s].conn = cli[s].conn /\ cli'[s].late = cli[s].late
      BY <1>t, <3>1 DEF CliRec
    <3> QED BY <2>1, <3>1, <3>2 DEF Takes, Kinds
  <2> QED BY <2>2, <2>3
<1>5. CASE Send(s)
  <2>1. /\ UNCHANGED <<sendMsg, recvMsg>> /\ cli[s].pc = "send"
        /\ cli' = [cli EXCEPT ![s].pc = "recv", ![s].buf = 0]
        /\ \/ wire' = [wire EXCEPT ![Here(s)].to = Append(wire[Here(s)].to, cli[s].buf)]
           \/ wire' = [wire EXCEPT ![Here(s)].link = "rst"]
    BY <1>5, <1>t, <1>h DEF Send, WireRec
  <2>2. /\ cli'[s].pc = "recv" /\ cli'[s].hears = cli[s].hears /\ cli'[s].some = cli[s].some
        /\ cli'[s].got = cli[s].got /\ Stays(s)
    BY <1>t, <2>1 DEF CliRec, Stays
  <2>3. PICK h \in Conn : h = Here(s) BY <1>h
  <2>4. /\ \A d \in Conn : d # h => wire'[d] = wire[d]
        /\ wire'[h].back = wire[h].back
        /\ \/ wire'[h].to = wire[h].to
           \/ wire'[h].to = Append(wire[h].to, cli[s].buf)
    BY <1>t, <2>1, <2>3 DEF WireRec
  <2> QED BY <2>1, <2>2, <2>3, <2>4 DEF Sends, Kinds
<1>6. CASE RecvSome(s)
  <2>1. /\ UNCHANGED <<sendMsg, recvMsg, wire>> /\ cli[s].pc = "recv" /\ cli[s].hears
        /\ Back(s) # << >> /\ cli' = [cli EXCEPT ![s].some = TRUE]
    BY <1>6 DEF RecvSome
  <2> QED BY <1>t, <2>1 DEF Begins, Stays, Kinds, CliRec
<1>g. ASSUME NEW a, NEW up, Got(s, a, up), UNCHANGED <<sendMsg, recvMsg>>
      PROVE  /\ cli'[s].pc = "push" /\ cli'[s].got = a /\ cli'[s].hears = up
             /\ cli'[s].some = FALSE /\ Stays(s)
  BY <1>t, <1>g DEF Got, CliRec, Stays
<1>7. CASE RecvAll(s)
  <2>1. /\ UNCHANGED <<sendMsg, recvMsg>> /\ Back(s) # << >> /\ cli[s].pc = "recv" /\ cli[s].hears
        /\ Got(s, Head(Back(s)), TRUE)
        /\ wire' = [wire EXCEPT ![Here(s)].back = Tail(wire[Here(s)].back)]
    BY <1>7, <1>t, <1>h DEF RecvAll, WireRec
  <2>2. cli'[s].pc = "push" /\ cli'[s].got = Head(Back(s)) /\ cli'[s].some = FALSE /\ Stays(s)
    BY <1>g, <2>1
  <2>3. PICK h \in Conn : h = Here(s) BY <1>h
  <2>4. /\ \A d \in Conn : d # h => wire'[d] = wire[d]
        /\ wire'[h].to = wire[h].to /\ wire'[h].back = Tail(wire[h].back)
    BY <1>t, <2>1, <2>3 DEF WireRec
  <2> QED BY <2>1, <2>2, <2>3, <2>4 DEF Reads, Kinds
<1>8. CASE RecvTimesOut(s) \/ RecvClosed(s)
  <2>1. /\ UNCHANGED <<sendMsg, recvMsg, wire>> /\ cli[s].pc = "recv"
        /\ \/ Got(s, EmptyAnswer, FALSE)
           \/ /\ cli[s].hears /\ cli[s].some
              /\ Got(s, [Head(Back(s)) EXCEPT !.whole = FALSE], FALSE)
    BY <1>8 DEF RecvTimesOut, RecvClosed
  <2>2. CASE Got(s, EmptyAnswer, FALSE)
    BY <1>g, <2>1, <2>2 DEF GivesUp, Kinds
  <2>3. CASE /\ cli[s].hears /\ cli[s].some
             /\ Got(s, [Head(Back(s)) EXCEPT !.whole = FALSE], FALSE)
    BY <1>g, <2>1, <2>3 DEF GivesUp, Kinds
  <2> QED BY <2>1, <2>2, <2>3
<1>9. CASE PushAnswer(s)
  <2>1. /\ UNCHANGED <<sendMsg, wire>> /\ recvMsg[s] = << >> /\ cli[s].pc = "push"
        /\ recvMsg'[s] = <<cli[s].got>>
        /\ cli' = [cli EXCEPT ![s].pc = "pop", ![s].got = EmptyAnswer]
    BY <1>9, <1>t DEF PushAnswer
  <2> QED BY <1>t, <2>1 DEF Hands, Kinds, CliRec
<1> QED BY <1>1, <1>2, <1>3, <1>4, <1>5, <1>6, <1>7, <1>8, <1>9 DEF Client

-----------------------------------------------------------------------------
(***************************************************************************)
(* A client's step keeps the parts of its session's invariant.             *)
(***************************************************************************)
\* What a client puts on a connection is the request in its hands; of what is on
\* a connection it may take away.
LEMMA ClientWire ==
  ASSUME TypeOK, NEW s \in OgSession, Kinds(s), NEW d \in Conn
  PROVE  /\ \A i \in DOMAIN wire'[d].back :
              \E j \in DOMAIN wire[d].back : wire'[d].back[i] = wire[d].back[j]
         /\ \A i \in DOMAIN wire'[d].to :
              \/ \E j \in DOMAIN wire[d].to : wire'[d].to[i] = wire[d].to[j]
              \/ cli[s].pc = "send" /\ wire'[d].to[i] = cli[s].buf
<1>w. wire[d].to \in Seq(1 .. MaxReq) /\ wire[d].back \in Seq(Answer) BY WireFields
<1> DEFINE Backs == \A i \in DOMAIN wire'[d].back :
                      \E j \in DOMAIN wire[d].back : wire'[d].back[i] = wire[d].back[j]
           Tos == \A i \in DOMAIN wire'[d].to :
                    \/ \E j \in DOMAIN wire[d].to : wire'[d].to[i] = wire[d].to[j]
                    \/ cli[s].pc = "send" /\ wire'[d].to[i] = cli[s].buf
<1>1. CASE Still(s)
  <2>1. wire'[d].to = wire[d].to /\ wire'[d].back = wire[d].back BY <1>1 DEF Still
  <2> QED BY <2>1
<1>2. CASE wire'[d] = wire[d] BY <1>2
<1>3. CASE Sends(s) /\ d = Here(s)
  <2>1. /\ wire'[d].back = wire[d].back /\ cli[s].pc = "send"
        /\ \/ wire'[d].to = wire[d].to
           \/ wire'[d].to = Append(wire[d].to, cli[s].buf)
    BY <1>3 DEF Sends
  <2>2. Backs BY <2>1
  <2>3. Tos BY <1>w, <2>1, Appended
  <2> QED BY <2>2, <2>3
<1>4. CASE Reads(s) /\ d = Here(s)
  <2>1. /\ wire'[d].to = wire[d].to /\ wire'[d].back = Tail(wire[d].back) /\ wire[d].back # << >>
    BY <1>4 DEF Reads, Back
  <2>2. Backs BY <1>w, <2>1, HeadTail
  <2>3. Tos BY <2>1
  <2> QED BY <2>2, <2>3
<1>5. \/ Still(s) \/ wire'[d] = wire[d]
      \/ Sends(s) /\ d = Here(s)
      \/ Reads(s) /\ d = Here(s)
  <2>1. Connects(s) \/ Leaves(s) => Still(s) BY DEF Connects, Leaves
  <2>2. Waits(s) \/ Takes(s) \/ Begins(s) \/ GivesUp(s) \/ Hands(s) => wire' = wire
    BY DEF Waits, Takes, Begins, GivesUp, Hands
  <2>3. Sends(s) \/ Reads(s) => d = Here(s) \/ wire'[d] = wire[d] BY DEF Sends, Reads
  <2> QED BY <2>1, <2>2, <2>3 DEF Kinds
<1> QED BY <1>1, <1>2, <1>3, <1>4, <1>5

\* A client's own step does not make it late.
LEMMA ClientLate == ASSUME NEW s, Kinds(s) PROVE cli'[s].late = cli[s].late
BY DEF Kinds, Connects, Leaves, Waits, Takes, Sends, Begins, Reads, GivesUp, Hands, Stays

\* A client's step keeps its session's invariant.
LEMMA ClientSession ==
  ASSUME TypeOK, NEW s \in OgSession, SessionInv(s), ClientInv(s), Kinds(s), ClientFrame(s)
  PROVE  SessionInv(s)'
<1>x. s \in Session BY Bounds
<1>m. Base(s) \in Mine(s) /\ Mine(s) \subseteq Conn /\ \A d \in Mine(s) : d[1] = s
  BY <1>x, MineConns DEF Mine
<1>u. UNCHANGED <<task, asked, answers, routes, ngVars, ogVars>>
  BY DEF ClientFrame, serverVars
<1>f. \A d \in Mine(s) : (Busy(d)' <=> Busy(d)) /\ (Updating(d)' <=> Updating(d))
  BY <1>u DEF Busy, Updating
<1>s. Roles(s) /\ Numbers(s) /\ Turn(s) /\ OwnAnswers(s) /\ Worths(s) /\ Routing(s) /\ Pending(s)
  BY DEF SessionInv, ClientInv
<1>a. Asks(s)' = Asks(s) BY <1>u DEF Asks
<1>g. Grows BY GrowsClient DEF ClientFrame
<1>1. Roles(s)' BY <1>u, <1>s DEF Roles, Mine, Gw
<1>2. Numbers(s)'
  <2> SUFFICES ASSUME NEW d \in Mine(s)
               PROVE  /\ \A i \in DOMAIN wire'[d].to : wire'[d].to[i] \in Asks(s)
                      /\ \A i \in DOMAIN wire'[d].back : wire'[d].back[i].req # 0
                      /\ Busy(d)' => task'[d].req \in Asks(s)
    BY <1>a DEF Numbers, Mine
  <2>1. /\ \A i \in DOMAIN wire[d].to : wire[d].to[i] \in Asks(s)
        /\ \A i \in DOMAIN wire[d].back : wire[d].back[i].req # 0
        /\ Busy(d) => task[d].req \in Asks(s)
    BY <1>s DEF Numbers
  <2>2. cli[s].pc = "send" => cli[s].buf \in Asks(s) BY <1>s DEF Pending
  <2>3. d \in Conn BY <1>m
  <2>4. \A i \in DOMAIN wire'[d].to : wire'[d].to[i] \in Asks(s)
    BY <2>1, <2>2, <2>3, ClientWire
  <2>5. \A i \in DOMAIN wire'[d].back : wire'[d].back[i].req # 0
    BY <2>1, <2>3, ClientWire
  <2> QED BY <1>f, <1>u, <2>1, <2>4, <2>5
<1>3. Turn(s)'
  <2>1. Base(s) \in Conn /\ Base(s)[2] = 0 BY <1>x, Conns
  <2>2. wire'[Base(s)] = wire[Base(s)] /\ task'[Base(s)] = task[Base(s)]
    BY <1>u, <2>1 DEF ClientFrame
  <2> QED BY <1>u, <1>s, <2>2 DEF Turn, Busy, Base
<1>4. OwnAnswers(s)' BY <1>u, <1>s, ClientLate DEF OwnAnswers
<1>5. Worths(s)'
  <2>1. /\ \A d \in Mine(s) : \A a : a = task[d].ans => Sound(s, a)'
        /\ \A d \in Mine(s) : \A i \in DOMAIN wire[d].back :
             \A a : a = wire[d].back[i] => Sound(s, a)'
        /\ \A i \in DOMAIN answers[s] : \A a : a = answers[s][i] =>
             a.req \in Asks(s)' \cup {0} /\ NgWorth(s, a)' /\ OgWorth(s, a)'
    BY <1>x, <1>g, <1>s, WorthsStay
  <2>2. \A d \in Mine(s) : \A a : a = task'[d].ans => Sound(s, a)' BY <1>u, <2>1
  <2>3. ASSUME NEW d \in Mine(s), NEW i \in DOMAIN wire'[d].back, NEW a, a = wire'[d].back[i]
        PROVE  Sound(s, a)'
    <3>1. PICK j \in DOMAIN wire[d].back : wire'[d].back[i] = wire[d].back[j]
      BY <1>m, ClientWire
    <3> QED BY <2>1, <2>3, <3>1
  <2>4. \A i \in DOMAIN answers'[s] : \A a : a = answers'[s][i] =>
             a.req \in Asks(s)' \cup {0} /\ NgWorth(s, a)' /\ OgWorth(s, a)'
    BY <1>u, <2>1
  <2> QED BY <2>2, <2>3, <2>4, WorthsNext
<1>6. Routing(s)' BY <1>x, <1>g, <1>s, <1>u, RoutingStays
<1> QED BY <1>1, <1>2, <1>3, <1>4, <1>5, <1>6 DEF SessionInv

\* The connection of a client, and the connections it has not used yet.
LEMMA ClientHere ==
  ASSUME TypeOK, NEW s \in OgSession, Kinds(s), ClientFrame(s), Place(s)
  PROVE  /\ ~Connects(s) => cli'[s].conn = cli[s].conn /\ Here(s)' = Here(s)
         /\ Connects(s) => Quiet(Here(s))'
         /\ Waits(s) \/ Takes(s) \/ Begins(s) \/ GivesUp(s) \/ Hands(s) =>
              wire' = wire
         /\ task' = task
<1>t. task' = task BY DEF ClientFrame, serverVars
<1>1. ~Connects(s) => cli'[s].conn = cli[s].conn
  BY DEF Kinds, Leaves, Waits, Takes, Sends, Begins, Reads, GivesUp, Hands, Stays
<1>2. cli'[s].conn = cli[s].conn => Here(s)' = Here(s) BY DEF Here
<1>3. ASSUME Connects(s) PROVE Quiet(Here(s))'
  <2>1. Here(s)' = <<s, cli[s].conn + 1>> BY <1>3 DEF Connects, Here
  <2>2. PICK h : h = Here(s)' OBVIOUS
  <2>3. cli[s].conn + 1 \in cli[s].conn + 1 .. MaxConn /\ cli[s].conn + 1 \in 0 .. MaxConn
    <3>1. cli[s].conn \in 0 .. MaxConn /\ cli[s].conn < MaxConn BY <1>3, CliFields DEF Connects
    <3> QED BY <3>1, Bounds
  <2>4. h \in Conn /\ wire[h].to = << >> /\ wire[h].back = << >> /\ task[h] = NewTask
    BY <2>1, <2>2, <2>3, Conns DEF Place
  <2>5. wire'[h].to = << >> /\ wire'[h].back = << >> /\ task'[h].pc = "recv"
    BY <1>3, <1>t, <2>4 DEF Connects, Still, NewTask
  <2>6. Quiet(h)' BY <2>5 DEF Quiet, Busy
  <2> QED BY <2>2, <2>6, SoleAt
<1>4. Waits(s) \/ Takes(s) \/ Begins(s) \/ GivesUp(s) \/ Hands(s) => wire' = wire
  BY DEF Waits, Takes, Begins, GivesUp, Hands
<1> QED BY <1>t, <1>1, <1>2, <1>3, <1>4

\* The later connections are still as new.
LEMMA ClientPlace ==
  ASSUME TypeOK, NEW s \in OgSession, Kinds(s), ClientFrame(s), Place(s)
  PROVE  Place(s)'
<1>t. task' = task BY DEF ClientFrame, serverVars
<1>c. cli[s].conn \in 0 .. MaxConn /\ cli'[s].conn \in {cli[s].conn, cli[s].conn + 1}
  BY ClientHere, CliFields DEF Connects
<1>1. cli'[s].pc \notin {"connect", "ended"} => cli'[s].conn # 0
  <2>1. CASE Connects(s)
    <3>1. cli'[s].conn = cli[s].conn + 1 BY <2>1 DEF Connects
    <3> QED BY <1>c, <3>1, Bounds
  <2>2. CASE ~Connects(s)
    <3>1. cli'[s].conn = cli[s].conn BY <2>2, ClientHere
    <3>2. cli'[s].pc \notin {"connect", "ended"} => cli[s].pc \notin {"connect", "ended"}
      BY <2>2 DEF Kinds, Leaves, Waits, Takes, Sends, Begins, Reads, GivesUp, Hands
    <3> QED BY <3>1, <3>2 DEF Place
  <2> QED BY <2>1, <2>2
<1>2. cli'[s].some => cli'[s].pc = "recv" /\ Back(s)' # << >>
  <2>1. CASE Begins(s)
    <3>1. Back(s)' = Back(s) BY <2>1, ClientHere DEF Back, Begins, Stays, Here
    <3> QED BY <2>1, <3>1 DEF Begins
  <2>2. CASE ~Begins(s)
    <3>1. ~cli'[s].some
      <4>1. CASE Leaves(s) \/ Reads(s) \/ GivesUp(s) BY <4>1 DEF Leaves, Reads, GivesUp
      <4>2. CASE Connects(s) \/ Waits(s) \/ Takes(s) \/ Sends(s) \/ Hands(s)
        <5>1. cli'[s].some = cli[s].some /\ cli[s].pc # "recv"
          BY <4>2 DEF Connects, Waits, Takes, Sends, Hands
        <5> QED BY <5>1 DEF Place
      <4> QED BY <2>2, <4>1, <4>2 DEF Kinds
    <3> QED BY <3>1
  <2> QED BY <2>1, <2>2
<1>3. \A k \in cli'[s].conn + 1 .. MaxConn :
           /\ wire'[<<s, k>>].to = << >> /\ wire'[<<s, k>>].back = << >>
           /\ wire'[<<s, k>>].link = "none" /\ task'[<<s, k>>] = NewTask
  <2> SUFFICES ASSUME NEW k \in cli'[s].conn + 1 .. MaxConn
               PROVE  /\ wire'[<<s, k>>].to = << >> /\ wire'[<<s, k>>].back = << >>
                      /\ wire'[<<s, k>>].link = "none" /\ task'[<<s, k>>] = NewTask
    OBVIOUS
  <2>1. k \in cli[s].conn + 1 .. MaxConn /\ k \in 0 .. MaxConn /\ k # cli[s].conn
    BY <1>c, Bounds
  <2>2. <<s, k>> \in Conn /\ <<s, k>> # Here(s) BY <2>1, Conns DEF Here
  <2>3. wire'[<<s, k>>] = wire[<<s, k>>]
    <3>1. CASE Connects(s)
      <4>1. k # cli[s].conn + 1
        <5>1. cli'[s].conn = cli[s].conn + 1 BY <3>1 DEF Connects
        <5> QED BY <1>c, <5>1, Bounds
      <4> QED BY <2>2, <3>1, <4>1 DEF Connects
    <3>2. CASE Leaves(s) \/ Sends(s) \/ Reads(s) BY <2>2, <3>2 DEF Leaves, Sends, Reads
    <3> QED BY <3>1, <3>2, ClientHere DEF Kinds
  <2> QED BY <1>t, <2>1, <2>3 DEF Place
<1> QED BY <1>1, <1>2, <1>3 DEF Place

\* What waits to be sent still stands for a request.
LEMMA ClientPending ==
  ASSUME TypeOK, NEW s \in OgSession, Kinds(s), ClientFrame(s), Pending(s)
  PROVE  Pending(s)'
<1>a. Asks(s)' = Asks(s) BY DEF ClientFrame, serverVars, Asks
<1>1. sendMsg'[s] \in {sendMsg[s], << >>}
  BY DEF Kinds, Connects, Leaves, Waits, Takes, Sends, Begins, Reads, GivesUp, Hands, Stays
<1>2. \A i \in DOMAIN sendMsg'[s] : sendMsg'[s][i] \in Asks(s) BY <1>1 DEF Pending
<1>3. cli'[s].pc = "send" => cli'[s].buf \in Asks(s)
  <2>1. cli'[s].pc = "send" => Takes(s)
    BY DEF Kinds, Connects, Leaves, Waits, Sends, Begins, Reads, GivesUp, Hands
  <2>2. ASSUME Takes(s) PROVE cli'[s].buf \in Asks(s)
    <3>1. sendMsg[s] \in Seq(1 .. MaxReq) BY CliFields
    <3>2. 1 \in DOMAIN sendMsg[s] /\ Head(sendMsg[s]) = sendMsg[s][1]
      BY <2>2, <3>1, HeadTail DEF Takes
    <3> QED BY <2>2, <3>2 DEF Takes, Pending
  <2> QED BY <2>1, <2>2
<1> QED BY <1>a, <1>2, <1>3 DEF Pending

\* An answer that has begun to arrive is the only one.
LEMMA HearsOne ==
  ASSUME TypeOK, NEW s \in OgSession, Hearing(s),
         cli[s].pc = "recv", cli[s].hears, Back(s) # << >>
  PROVE  /\ wire[Here(s)].to = << >> /\ ~Busy(Here(s)) /\ Tail(Back(s)) = << >>
         /\ Head(Back(s)).req \in 1 .. MaxReq /\ Sole(Here(s), Head(Back(s)).req)
<1>w. Back(s) \in Seq(Answer) BY HereConn, WireFields DEF Back
<1>1. PICK r \in 1 .. MaxReq : Sole(Here(s), r)
  BY DEF Hearing, Quiet, Back
<1>2. wire[Here(s)].to = << >> /\ ~Busy(Here(s)) /\ Len(Back(s)) = 1 /\ Back(s)[1].req = r
  BY <1>1 DEF Sole, Back
<1>3. Tail(Back(s)) = << >> /\ Head(Back(s)) = Back(s)[1]
  <2>1. Tail(Back(s)) \in Seq(Answer) /\ Len(Tail(Back(s))) = 0 /\ Head(Back(s)) = Back(s)[1]
    BY <1>w, <1>2, HeadTailProperties
  <2> QED BY <2>1, EmptySeq
<1> QED BY <1>1, <1>2, <1>3

\* A client that hears still has one request at most to hear of.
LEMMA ClientHearing ==
  ASSUME TypeOK, NEW s \in OgSession, Kinds(s), ClientFrame(s),
         Place(s), Pending(s), Hearing(s)
  PROVE  Hearing(s)'
<1>p. PICK h : h = Here(s) OBVIOUS
<1>h. h \in Conn BY <1>p, HereConn
<1>t. task' = task /\ (Busy(h)' <=> Busy(h)) BY DEF ClientFrame, serverVars, Busy
<1>q. ~Connects(s) => /\ Quiet(Here(s))' <=> Quiet(h)'
                      /\ \A r : Sole(Here(s), r)' <=> Sole(h, r)'
  BY <1>p, ClientHere, SoleAt
<1>b. /\ Quiet(Here(s)) <=> Quiet(h)
      /\ \A r : Sole(Here(s), r) <=> Sole(h, r)
  BY <1>p
<1>1. CASE Connects(s)
  <2>1. Quiet(Here(s))' BY <1>1, ClientHere
  <2> QED BY <1>1, <2>1 DEF Connects, Hearing
<1>2. CASE Leaves(s) \/ GivesUp(s) BY <1>2 DEF Leaves, GivesUp, Hearing
<1>3. CASE Waits(s) \/ Takes(s) \/ Hands(s)
  <2>1. wire'[h] = wire[h] /\ task'[h] = task[h] /\ ~Connects(s)
    BY <1>3, <1>t, ClientHere DEF Waits, Takes, Hands, Connects
  <2>2. /\ cli[s].pc \in {"pop", "waiting", "push"} /\ cli'[s].hears = cli[s].hears
        /\ cli'[s].pc \in {"pop", "waiting", "send"}
    BY <1>3 DEF Waits, Takes, Hands
  <2>3. Quiet(Here(s)) => Quiet(Here(s))' BY <1>q, <1>b, <2>1, SoleStays
  <2> QED BY <2>2, <2>3 DEF Hearing
<1>4. CASE Begins(s)
  <2>1. wire'[h] = wire[h] /\ task'[h] = task[h] /\ ~Connects(s)
    BY <1>4, <1>t, ClientHere DEF Begins, Connects
  <2>2. cli[s].pc = "recv" /\ cli[s].hears /\ cli'[s].pc = "recv" BY <1>4 DEF Begins
  <2>3. Quiet(Here(s)) => Quiet(Here(s))' BY <1>q, <1>b, <2>1, SoleStays
  <2>4. \A r : Sole(Here(s), r) => Sole(Here(s), r)' BY <1>q, <1>b, <2>1, SoleStays
  <2> QED BY <2>2, <2>3, <2>4 DEF Hearing
<1>5. CASE Sends(s)
  <2>1. ~Connects(s) /\ cli[s].pc = "send" /\ cli'[s].pc = "recv" /\ cli'[s].hears = cli[s].hears
    BY <1>5 DEF Sends, Connects
  <2>2. /\ wire'[h].back = wire[h].back
        /\ \/ wire'[h].to = wire[h].to
           \/ wire'[h].to = Append(wire[h].to, cli[s].buf)
    BY <1>5, <1>p DEF Sends
  <2> SUFFICES ASSUME cli[s].hears
               PROVE  Quiet(h)' \/ \E r \in 1 .. MaxReq : Sole(h, r)'
    BY <1>q, <2>1 DEF Hearing
  <2>3. wire[h].to = << >> /\ wire[h].back = << >> /\ ~Busy(h)
    BY <1>b, <2>1 DEF Hearing, Quiet
  <2>4. cli[s].buf \in 1 .. MaxReq
    <3>1. cli[s].buf \in Asks(s) /\ cli[s].buf \in 0 .. MaxReq
      BY <2>1, CliFields DEF Pending
    <3>2. cli[s].buf # 0 BY <3>1 DEF Asks
    <3> QED BY <3>1, <3>2, Bounds
  <2>5. Append(<< >>, cli[s].buf) = <<cli[s].buf>> OBVIOUS
  <2>6. CASE wire'[h].to = wire[h].to BY <1>t, <2>2, <2>3, <2>6 DEF Quiet
  <2>7. CASE wire'[h].to = Append(wire[h].to, cli[s].buf)
    <3>1. wire'[h].to = <<cli[s].buf>> /\ wire'[h].back = << >> BY <2>2, <2>3, <2>5, <2>7
    <3>2. PICK r : r = cli[s].buf OBVIOUS
    <3>3. Sole(h, r)' BY <1>t, <2>3, <3>1, <3>2 DEF Sole
    <3> QED BY <2>4, <3>2, <3>3
  <2> QED BY <2>2, <2>6, <2>7
<1>6. CASE Reads(s)
  <2>1. /\ ~Connects(s) /\ cli[s].pc = "recv" /\ cli'[s].pc = "push" /\ cli[s].hears
        /\ Back(s) # << >>
    BY <1>6 DEF Reads, Connects
  <2>2. wire'[h].to = wire[h].to /\ wire'[h].back = Tail(wire[h].back)
    BY <1>6, <1>p DEF Reads
  <2>3. wire[h].to = << >> /\ ~Busy(h) /\ Tail(wire[h].back) = << >>
    BY <1>p, <2>1, HearsOne DEF Back
  <2>4. Quiet(h)' BY <1>t, <2>2, <2>3 DEF Quiet
  <2> QED BY <1>q, <2>1, <2>4 DEF Hearing
<1> QED BY <1>1, <1>2, <1>3, <1>4, <1>5, <1>6 DEF Kinds

\* A client's step only moves the requests on.
LEMMA ClientMoves ==
  ASSUME TypeOK, NEW s \in OgSession, Kinds(s), ClientFrame(s), Place(s), Hearing(s)
  PROVE  Moves(s)
<1>p. PICK h : h = Here(s) OBVIOUS
<1>u. task' = task /\ answers' = answers /\ (Busy(h)' <=> Busy(h))
  BY DEF ClientFrame, serverVars, Busy
<1>t. Told(s)' = Told(s) BY <1>u DEF Told
<1>f. Fetched(s)' = Fetched(s) BY <1>u DEF Fetched, Updating, Base
<1>k. recvMsg'[s] = recvMsg[s] => Kept(s)' = Kept(s) BY DEF Kept
<1>q. sendMsg'[s] \in {sendMsg[s], << >>} => Queued(s)' \subseteq Queued(s) BY DEF Queued
<1>e. cli'[s].pc \in {"connect", "ended", "pop", "waiting"} => Held(s)' = {} BY DEF Held
<1>w. ~Connects(s) => \A r : Sole(Here(s), r)' <=> Sole(h, r)'
  BY <1>p, ClientHere, SoleAt
<1>1. CASE Connects(s) \/ Leaves(s) \/ Waits(s)
  <2>1. /\ recvMsg'[s] = recvMsg[s] /\ sendMsg'[s] \in {sendMsg[s], << >>}
        /\ cli'[s].pc \in {"connect", "ended", "pop", "waiting"}
    BY <1>1 DEF Connects, Leaves, Waits, Stays
  <2> QED BY <1>t, <1>f, <1>k, <1>q, <1>e, <2>1 DEF Moves
<1>2. CASE Takes(s)
  <2>1. Queued(s)' = {} /\ recvMsg'[s] = recvMsg[s] BY <1>2 DEF Takes, Queued
  <2>2. sendMsg[s] \in Seq(1 .. MaxReq) BY CliFields
  <2>3. 1 \in DOMAIN sendMsg[s] /\ Head(sendMsg[s]) = sendMsg[s][1] BY <1>2, <2>2, HeadTail DEF Takes
  <2>4. Held(s)' \subseteq Queued(s)
    <3>1. cli'[s].pc = "send" /\ cli'[s].buf = sendMsg[s][1] BY <1>2, <2>3 DEF Takes
    <3> QED BY <2>3, <3>1 DEF Held, Queued
  <2> QED BY <1>t, <1>f, <1>k, <2>1, <2>4 DEF Moves
<1>3. CASE Hands(s)
  <2>1. Held(s)' = {} /\ sendMsg'[s] = sendMsg[s] BY <1>3, <1>e DEF Hands
  <2>2. Kept(s)' \subseteq Held(s)
    <3>1. cli[s].pc = "push" /\ recvMsg'[s] = <<cli[s].got>> BY <1>3 DEF Hands
    <3> QED BY <3>1 DEF Kept, Held
  <2> QED BY <1>t, <1>f, <1>q, <2>1, <2>2 DEF Moves
<1>4. CASE Sends(s) \/ Begins(s) \/ Reads(s) \/ GivesUp(s)
  <2>1. /\ recvMsg'[s] = recvMsg[s] /\ sendMsg'[s] = sendMsg[s] /\ ~Connects(s)
        /\ cli[s].pc \in {"send", "recv"}
    BY <1>4 DEF Sends, Begins, Reads, GivesUp, Stays, Connects
  <2>2. Held(s)' \subseteq Held(s)
    <3> SUFFICES ASSUME NEW r \in Held(s)' PROVE r \in Held(s)
      OBVIOUS
    <3>r. r \in 1 .. MaxReq /\ r # 0 BY DEF Held
    <3>1. \/ cli'[s].pc = "send"
          \/ cli'[s].pc = "recv" /\ cli'[s].hears /\ Sole(h, r)'
          \/ cli'[s].pc = "push" /\ cli'[s].got.req = r
      BY <1>w, <2>1 DEF Held
    <3>2. CASE Sends(s)
      <4>1. cli[s].pc = "send" /\ cli[s].hears /\ Sole(h, r)'
        BY <3>1, <3>2 DEF Sends
      <4>2. wire[h].to = << >> /\ wire[h].back = << >> /\ ~Busy(h)
        BY <1>p, <4>1 DEF Hearing, Quiet
      <4>3. /\ wire'[h].back = wire[h].back
            /\ wire'[h].to = wire[h].to \/ wire'[h].to = Append(wire[h].to, cli[s].buf)
        BY <1>p, <3>2 DEF Sends
      <4>4. Len(<< >>) # 1 /\ Append(<< >>, cli[s].buf) = <<cli[s].buf>> OBVIOUS
      <4>5. wire'[h].to = <<r>> BY <1>u, <4>1, <4>2, <4>3, <4>4 DEF Sole
      <4>6. \A x, y : <<x>> # << >> /\ (<<x>> = <<y>> => x = y) OBVIOUS
      <4>7. cli[s].buf = r BY <4>2, <4>3, <4>4, <4>5, <4>6
      <4> QED BY <3>r, <4>1, <4>7 DEF Held
    <3>3. CASE Begins(s)
      <4>1. wire'[h] = wire[h] /\ task'[h] = task[h] BY <1>u, <3>3 DEF Begins
      <4>2. cli[s].pc = "recv" /\ cli[s].hears /\ Sole(h, r)
        BY <3>1, <3>3, <4>1, SoleStays DEF Begins
      <4> QED BY <1>p, <3>r, <4>2 DEF Held
    <3>4. CASE Reads(s)
      <4>1. /\ cli[s].pc = "recv" /\ cli[s].hears /\ Back(s) # << >>
            /\ Head(Back(s)).req = r
        BY <3>1, <3>4 DEF Reads
      <4>2. Sole(Here(s), r) BY <4>1, HearsOne
      <4> QED BY <3>r, <4>1, <4>2 DEF Held
    <3>5. CASE GivesUp(s)
      <4>1. cli[s].pc = "recv" /\ cli'[s].got.req = r BY <3>1, <3>5 DEF GivesUp
      <4>2. cli'[s].got # EmptyAnswer BY <3>r, <4>1 DEF EmptyAnswer
      <4>3. /\ cli[s].hears /\ cli[s].some /\ Back(s) # << >>
            /\ cli'[s].got = [Head(Back(s)) EXCEPT !.whole = FALSE]
        BY <3>5, <4>2 DEF GivesUp, Place
      <4>4. Back(s) \in Seq(Answer) BY HereConn, WireFields DEF Back
      <4>5. Head(Back(s)) \in Answer BY <4>3, <4>4, HeadTail
      <4>6. Head(Back(s)).req = r BY <4>1, <4>3, <4>5 DEF Answer
      <4>7. Sole(Here(s), r) BY <4>1, <4>3, <4>6, HearsOne
      <4> QED BY <3>r, <4>1, <4>3, <4>7 DEF Held
    <3> QED BY <1>4, <3>2, <3>3, <3>4, <3>5
  <2> QED BY <1>t, <1>f, <1>k, <1>q, <2>1, <2>2 DEF Moves
<1> QED BY <1>1, <1>2, <1>3, <1>4 DEF Kinds

\* So it keeps them in order.
LEMMA ClientOrdered ==
  ASSUME TypeOK, NEW s \in OgSession, Kinds(s), ClientFrame(s), Place(s), Hearing(s),
         Ordered(s)
  PROVE  Ordered(s)'
<1>b. Base(s) \in Conn /\ Base(s)[2] = 0 BY Bounds, Conns
<1>u. task' = task /\ asked' = asked /\ wire'[Base(s)] = wire[Base(s)]
  BY <1>b DEF ClientFrame, serverVars
<1>1. /\ InTurn(Told(s), Fetched(s), Kept(s), Held(s), Queued(s))'
      /\ Started(s)' \subseteq Started(s)
  BY ClientMoves, MovesInTurn DEF Ordered
<1>2. \A r \in Started(s)' :
           /\ r <= Len(asked'[s])
           /\ wire'[Base(s)].to # << >> \/ task'[Base(s)].pc = "forward" => r < Len(asked'[s])
  BY <1>u, <1>1 DEF Ordered
<1> QED BY <1>1, <1>2 DEF Ordered, Base

\* It keeps what is on its way the request that the task waits for.
LEMMA ClientPunctual ==
  ASSUME TypeOK, NEW s \in OgSession, Kinds(s), ClientFrame(s), Place(s), Hearing(s),
         Punctual(s)
  PROVE  Punctual(s)'
<1>u. task' = task /\ task'[Base(s)] = task[Base(s)] BY DEF ClientFrame, serverVars
<1>l. cli'[s].late = cli[s].late BY ClientLate
<1>m. Fetched(s)' \cup Kept(s)' \cup Held(s)' \cup Queued(s)'
        \subseteq Fetched(s) \cup Kept(s) \cup Held(s) \cup Queued(s)
  BY ClientMoves DEF Moves
<1>1. \/ Occupied(s)' = FALSE /\ recvMsg'[s] = recvMsg[s] /\ sendMsg'[s] \in {sendMsg[s], << >>}
      \/ Occupied(s) /\ recvMsg'[s] = recvMsg[s] /\ sendMsg'[s] = sendMsg[s]
      \/ sendMsg[s] # << >> /\ sendMsg'[s] = << >> /\ recvMsg'[s] = recvMsg[s]
      \/ Occupied(s) /\ Occupied(s)' = FALSE /\ sendMsg'[s] = sendMsg[s]
  BY DEF Kinds, Connects, Leaves, Waits, Takes, Sends, Begins, Reads, GivesUp, Hands, Stays, Occupied
<1> QED BY <1>u, <1>l, <1>m, <1>1 DEF Punctual, Base

\* It keeps what it has to relay worth its code.
LEMMA ClientRelayable ==
  ASSUME TypeOK, NEW s \in OgSession, Kinds(s), ClientFrame(s), Place(s), Worths(s),
         Relayable(s)
  PROVE  Relayable(s)'
<1>x. s \in Session BY Bounds
<1>g. Grows BY GrowsClient DEF ClientFrame
<1>w. /\ \A a : a = cli[s].got => Sound(s, a)'
      /\ \A i \in DOMAIN recvMsg[s] : \A a : a = recvMsg[s][i] => Sound(s, a)'
  BY <1>g, <1>x, RelayableStays
<1>b. ASSUME Back(s) # << >>
      PROVE  Head(Back(s)) \in Answer /\ Sound(s, Head(Back(s)))
  <2>1. Here(s) \in Mine(s) BY <1>x, MineConns
  <2>2. Back(s) \in Seq(Answer) BY HereConn, WireFields DEF Back
  <2>3. Head(Back(s)) \in Answer /\ Head(Back(s)) = Back(s)[1] /\ 1 \in DOMAIN Back(s)
    BY <1>b, <2>2, HeadTail
  <2> QED BY <2>1, <2>3 DEF Worths, Back
<1>1. ASSUME NEW a, a = cli'[s].got PROVE Sound(s, a)'
  <2>1. CASE a = cli[s].got BY <1>w, <2>1
  <2>2. CASE a = EmptyAnswer BY <2>2, EmptySound DEF Sound, NgWorth, Registers
  <2>3. CASE Reads(s)
    <3>1. a = Head(Back(s)) /\ Back(s) # << >> BY <1>1, <2>3 DEF Reads
    <3>2. Sound(s, a) BY <1>b, <3>1
    <3> QED BY <1>g, <1>x, <3>2, SoundGrows
  <2>4. CASE GivesUp(s) /\ a # EmptyAnswer
    <3>1. a = [Head(Back(s)) EXCEPT !.whole = FALSE] /\ Back(s) # << >>
      BY <1>1, <2>4 DEF GivesUp, Place
    <3>2. PICK b : b = Head(Back(s)) OBVIOUS
    <3>3. a.req = b.req /\ a.code = b.code BY <1>b, <3>1, <3>2 DEF Answer
    <3>4. Sound(s, b) BY <1>b, <3>1, <3>2
    <3>5. Sound(s, a) BY <3>3, <3>4 DEF Sound, NgWorth, Registers
    <3> QED BY <1>g, <1>x, <3>5, SoundGrows
  <2> QED BY <1>1, <2>1, <2>2, <2>3, <2>4
       DEF Kinds, Connects, Leaves, Waits, Takes, Sends, Begins, Hands
<1>2. ASSUME NEW i \in DOMAIN recvMsg'[s], NEW a, a = recvMsg'[s][i] PROVE Sound(s, a)'
  <2>1. CASE recvMsg'[s] = recvMsg[s] BY <1>2, <1>w, <2>1
  <2>2. CASE Hands(s)
    <3>1. recvMsg'[s] = <<cli[s].got>> BY <2>2 DEF Hands
    <3>2. a = cli[s].got BY <1>2, <3>1
    <3> QED BY <1>w, <3>2
  <2> QED BY <2>1, <2>2
       DEF Kinds, Connects, Leaves, Waits, Takes, Sends, Begins, Reads, GivesUp, Stays
<1> QED BY <1>1, <1>2, RelayableNext

\* A client's step keeps the client's invariant.
LEMMA ClientClient ==
  ASSUME TypeOK, NEW s \in OgSession, SessionInv(s), ClientInv(s), Kinds(s), ClientFrame(s)
  PROVE  ClientInv(s)'
<1>1. Place(s) /\ Pending(s) /\ Hearing(s) /\ Ordered(s) /\ Punctual(s) /\ Relayable(s)
      /\ Worths(s)
  BY DEF ClientInv, SessionInv
<1>2. Place(s)' BY <1>1, ClientPlace
<1>3. Pending(s)' BY <1>1, ClientPending
<1>4. Hearing(s)' BY <1>1, ClientHearing
<1>5. Ordered(s)' BY <1>1, ClientOrdered
<1>6. Punctual(s)' BY <1>1, ClientPunctual
<1>7. Relayable(s)' BY <1>1, ClientRelayable
<1> QED BY <1>2, <1>3, <1>4, <1>5, <1>6, <1>7 DEF ClientInv

-----------------------------------------------------------------------------
(***************************************************************************)
(* An agent's step keeps its session's invariant.                          *)
(***************************************************************************)
Asking(s) ==
  /\ wire[Base(s)].to = << >> /\ ~Busy(Base(s)) /\ Len(asked[s]) = Len(answers[s])
  /\ Len(asked'[s]) = Len(asked[s]) + 1 /\ wire'[Base(s)].to = <<Len(asked'[s])>>
  /\ wire'[Base(s)].link = wire[Base(s)].link /\ wire[Base(s)].link = "up"
Closing(s) ==
  /\ asked'[s] = asked[s] /\ wire'[Base(s)].to = wire[Base(s)].to
  /\ wire'[Base(s)].link = "closed"

\* What an agent's step does: it asks or it closes.
LEMMA AgentEffect ==
  ASSUME TypeOK, NEW s \in Session, Turn(s), AgentSend(s) \/ AgentCloses(s)
  PROVE  /\ UNCHANGED <<cli, sendMsg, recvMsg, task, answers>>
         /\ \A d \in Conn : d # Base(s) => wire'[d] = wire[d]
         /\ wire'[Base(s)].back = wire[Base(s)].back
         /\ Len(asked[s]) \in Nat /\ Asks(s) \subseteq Asks(s)'
         /\ Asking(s) \/ Closing(s)
<1>b. PICK b \in Conn : b = Base(s) BY Conns
<1>t. wire \in [Conn -> WireRec] /\ asked \in [Session -> Seq(Request)] BY TypeParts
<1>l. Len(asked[s]) \in Nat
  <2>1. asked[s] \in Seq(Request) BY <1>t
  <2> QED BY <2>1
<1>1. CASE AgentCloses(s)
  <2>1. /\ UNCHANGED <<cli, sendMsg, recvMsg, task, answers, asked>>
        /\ wire' = [wire EXCEPT ![b].link = "closed"]
    BY <1>1, <1>b DEF AgentCloses, Base
  <2>2. /\ \A d \in Conn : d # b => wire'[d] = wire[d]
        /\ wire'[b].back = wire[b].back /\ wire'[b].to = wire[b].to /\ wire'[b].link = "closed"
    BY <1>t, <2>1 DEF WireRec
  <2> QED BY <1>b, <1>l, <2>1, <2>2 DEF Closing, Asks
<1>2. CASE AgentSend(s)
  <2>1. /\ UNCHANGED <<cli, sendMsg, recvMsg, task, answers>>
        /\ wire[b].link = "up" /\ Len(asked[s]) = Len(answers[s])
        /\ wire' = [wire EXCEPT ![b].to = Append(wire[b].to, Len(asked[s]) + 1)]
    BY <1>2, <1>t, <1>b DEF AgentSend, Base, WireRec
  <2>2. PICK q \in Wish[s] : asked' = [asked EXCEPT ![s] = Append(asked[s], q)]
    BY <1>2, <1>t DEF AgentSend
  <2>3. wire[b].to = << >> /\ ~Busy(b) BY <1>b, <1>l, <2>1 DEF Turn
  <2>4. Append(<< >>, Len(asked[s]) + 1) = <<Len(asked[s]) + 1>> OBVIOUS
  <2>5. /\ \A d \in Conn : d # b => wire'[d] = wire[d]
        /\ wire'[b].back = wire[b].back /\ wire'[b].link = wire[b].link
        /\ wire'[b].to = <<Len(asked[s]) + 1>>
    BY <1>t, <2>1, <2>3, <2>4 DEF WireRec
  <2>6. Len(asked'[s]) = Len(asked[s]) + 1
    <3>1. asked'[s] = Append(asked[s], q) BY <1>t, <2>2
    <3>2. q \in Request BY DEF Request
    <3>3. asked[s] \in Seq(Request) BY <1>t
    <3> QED BY <3>1, <3>2, <3>3
  <2>7. Asks(s) \subseteq Asks(s)' BY <1>l, <2>6 DEF Asks
  <2> QED BY <1>b, <1>l, <2>1, <2>3, <2>5, <2>6, <2>7 DEF Asking
<1> QED BY <1>1, <1>2

\* An agent's step keeps its session's invariant.
LEMMA AgentSession ==
  ASSUME TypeOK, NEW s \in Session, SessionInv(s), AgentSend(s) \/ AgentCloses(s)
  PROVE  SessionInv(s)'
<1>m. Base(s) \in Mine(s) /\ Mine(s) \subseteq Conn /\ \A d \in Mine(s) : d[1] = s
  BY MineConns DEF Mine
<1>s. Roles(s) /\ Numbers(s) /\ Turn(s) /\ OwnAnswers(s) /\ Worths(s) /\ Routing(s)
  BY DEF SessionInv
<1>e. /\ UNCHANGED <<cli, sendMsg, recvMsg, task, answers>>
      /\ \A d \in Conn : d # Base(s) => wire'[d] = wire[d]
      /\ wire'[Base(s)].back = wire[Base(s)].back
      /\ Len(asked[s]) \in Nat /\ Asks(s) \subseteq Asks(s)'
      /\ Asking(s) \/ Closing(s)
  BY <1>s, AgentEffect
<1>u. \A d \in Mine(s) : /\ task'[d] = task[d] /\ wire'[d].back = wire[d].back
                         /\ d # Base(s) => wire'[d] = wire[d]
                         /\ Busy(d)' <=> Busy(d)
                         /\ Updating(d)' <=> Updating(d)
  BY <1>m, <1>e DEF Busy, Updating
<1>g. Grows BY GrowsAgent
<1>1. Roles(s)' BY <1>e, <1>s DEF Roles, Mine, Gw
<1>2. Numbers(s)'
  <2> SUFFICES ASSUME NEW d \in Mine(s)
               PROVE  /\ \A i \in DOMAIN wire'[d].to : wire'[d].to[i] \in Asks(s)'
                      /\ \A i \in DOMAIN wire'[d].back : wire'[d].back[i].req # 0
                      /\ Busy(d)' => task'[d].req \in Asks(s)'
    BY DEF Numbers, Mine
  <2>1. /\ \A i \in DOMAIN wire[d].to : wire[d].to[i] \in Asks(s)
        /\ \A i \in DOMAIN wire[d].back : wire[d].back[i].req # 0
        /\ Busy(d) => task[d].req \in Asks(s)
    BY <1>s DEF Numbers
  <2>2. \A i \in DOMAIN wire'[d].to : wire'[d].to[i] \in Asks(s)'
    <3>1. CASE wire'[d].to = wire[d].to BY <1>e, <2>1, <3>1
    <3>2. CASE Asking(s) /\ d = Base(s)
      <4>1. wire'[d].to = <<Len(asked'[s])>> /\ Len(asked'[s]) \in Asks(s)'
        BY <1>e, <3>2 DEF Asking, Asks
      <4> QED BY <4>1
    <3> QED BY <1>e, <1>u, <3>1, <3>2 DEF Closing
  <2> QED BY <1>u, <1>e, <2>1, <2>2
<1>3. Turn(s)'
  <2>1. /\ wire'[Base(s)].to # << >> =>
             /\ wire'[Base(s)].to = <<Len(asked'[s])>> /\ ~Busy(Base(s))
             /\ Len(asked'[s]) = Len(answers[s]) + 1
        /\ Busy(Base(s)) => /\ wire'[Base(s)].to = << >> /\ task[Base(s)].req = Len(asked'[s])
                            /\ Len(asked'[s]) = Len(answers[s]) + 1
        /\ wire'[Base(s)].link = "up" /\ wire'[Base(s)].to = << >> /\ ~Busy(Base(s))
             => Len(asked'[s]) = Len(answers[s])
        /\ task[Base(s)].pc \in {"join", "over"} => wire'[Base(s)].link # "up"
    <3>1. CASE Asking(s)
      <4>1. <<Len(asked'[s])>> # << >> OBVIOUS
      <4> QED BY <1>s, <3>1, <4>1 DEF Turn, Asking
    <3>2. CASE Closing(s) BY <1>s, <3>2 DEF Turn, Closing
    <3> QED BY <1>e, <3>1, <3>2
  <2> QED BY <1>e, <2>1 DEF Turn, Busy, Base
<1>4. OwnAnswers(s)' BY <1>e, <1>s DEF OwnAnswers
<1>5. Worths(s)'
  <2>1. /\ \A d \in Mine(s) : \A a : a = task[d].ans => Sound(s, a)'
        /\ \A d \in Mine(s) : \A i \in DOMAIN wire[d].back :
             \A a : a = wire[d].back[i] => Sound(s, a)'
        /\ \A i \in DOMAIN answers[s] : \A a : a = answers[s][i] =>
             a.req \in Asks(s)' \cup {0} /\ NgWorth(s, a)' /\ OgWorth(s, a)'
    BY <1>g, <1>s, WorthsStay
  <2>2. \A d \in Mine(s) : \A a : a = task'[d].ans => Sound(s, a)' BY <1>u, <2>1
  <2>3. \A d \in Mine(s) : \A i \in DOMAIN wire'[d].back :
             \A a : a = wire'[d].back[i] => Sound(s, a)'
    BY <1>u, <2>1
  <2>4. \A i \in DOMAIN answers'[s] : \A a : a = answers'[s][i] =>
             a.req \in Asks(s)' \cup {0} /\ NgWorth(s, a)' /\ OgWorth(s, a)'
    BY <1>e, <2>1
  <2> QED BY <2>2, <2>3, <2>4, WorthsNext
<1>6. Routing(s)' BY <1>g, <1>s, <1>u, RoutingStays
<1> QED BY <1>1, <1>2, <1>3, <1>4, <1>5, <1>6 DEF SessionInv

\* It keeps the client's invariant.
LEMMA AgentClient ==
  ASSUME TypeOK, NEW s \in OgSession, SessionInv(s), ClientInv(s), AgentSend(s) \/ AgentCloses(s)
  PROVE  ClientInv(s)'
<1>x. s \in Session /\ Base(s) \in Conn BY Bounds, Conns
<1>s. Place(s) /\ Pending(s) /\ Hearing(s) /\ Ordered(s) /\ Punctual(s) /\ Relayable(s) /\ Turn(s)
  BY DEF ClientInv, SessionInv
<1>e. /\ UNCHANGED <<cli, sendMsg, recvMsg, task, answers>>
      /\ \A d \in Conn : d # Base(s) => wire'[d] = wire[d]
      /\ wire'[Base(s)].back = wire[Base(s)].back
      /\ Len(asked[s]) \in Nat /\ Asks(s) \subseteq Asks(s)'
      /\ Asking(s) \/ Closing(s)
  BY <1>x, <1>s, AgentEffect
<1>p. PICK h : h = Here(s) OBVIOUS
<1>h. h \in Conn /\ (cli[s].conn # 0 => h # Base(s)) /\ Here(s)' = h
  <2>1. Here(s)' = Here(s) BY <1>e DEF Here
  <2> QED BY <1>p, <2>1, HereConn
<1>w. cli[s].conn # 0 => /\ Quiet(Here(s))' <=> Quiet(Here(s))
                         /\ \A r : Sole(Here(s), r)' <=> Sole(Here(s), r)
  <2> SUFFICES ASSUME cli[s].conn # 0
               PROVE  /\ Quiet(Here(s))' <=> Quiet(Here(s))
                      /\ \A r : Sole(Here(s), r)' <=> Sole(Here(s), r)
    OBVIOUS
  <2>1. wire'[h] = wire[h] /\ task'[h] = task[h] BY <1>h, <1>e
  <2>2. /\ Quiet(h)' <=> Quiet(h)
        /\ \A r : Sole(h, r)' <=> Sole(h, r)
    BY <2>1, SoleStays
  <2>3. /\ Quiet(Here(s))' <=> Quiet(h)'
        /\ \A r : Sole(Here(s), r)' <=> Sole(h, r)'
    BY <1>h, SoleAt
  <2> QED BY <1>p, <2>2, <2>3
<1>c. cli[s].pc \in {"pop", "waiting", "send", "recv", "push"} => cli[s].conn # 0
  BY <1>s DEF Place
<1>1. Place(s)'
  <2>1. Back(s)' = Back(s)
    <3>1. wire'[h].back = wire[h].back BY <1>e, <1>h
    <3> QED BY <1>p, <1>h, <3>1 DEF Back
  <2>2. ASSUME NEW k \in cli[s].conn + 1 .. MaxConn PROVE wire'[<<s, k>>] = wire[<<s, k>>]
    <3>1. k \in 0 .. MaxConn /\ k # 0
      <4>1. cli[s].conn \in 0 .. MaxConn BY CliFields
      <4> QED BY <4>1, Bounds
    <3>2. <<s, k>> \in Conn /\ <<s, k>> # Base(s) BY <3>1, Conns DEF Base
    <3> QED BY <1>e, <3>2
  <2> QED BY <1>e, <1>s, <2>1, <2>2 DEF Place
<1>2. Pending(s)' BY <1>e, <1>s DEF Pending
<1>3. Hearing(s)' BY <1>e, <1>s, <1>w, <1>c DEF Hearing
<1>t. /\ Told(s)' = Told(s) /\ Kept(s)' = Kept(s) /\ Queued(s)' = Queued(s)
      /\ Fetched(s)' = Fetched(s) /\ Held(s)' = Held(s)
  <2>1. Told(s)' = Told(s) /\ Kept(s)' = Kept(s) /\ Queued(s)' = Queued(s)
    BY <1>e DEF Told, Kept, Queued
  <2>2. Fetched(s)' = Fetched(s) BY <1>e DEF Fetched, Updating, Base
  <2>3. Held(s)' = Held(s) BY <1>e, <1>w, <1>c DEF Held
  <2> QED BY <2>1, <2>2, <2>3
<1>4. Ordered(s)'
  <2>1. Started(s)' = Started(s) BY <1>t DEF Started
  <2>2. /\ InTurn(Told(s), Fetched(s), Kept(s), Held(s), Queued(s))
        /\ \A r \in Started(s) :
             /\ r <= Len(asked[s])
             /\ wire[Base(s)].to # << >> \/ task[Base(s)].pc = "forward" => r < Len(asked[s])
    BY <1>s DEF Ordered
  <2>i. \A r \in Started(s) : r \in Int BY DEF Started, Told, Fetched, Kept, Held, Queued
  <2>3. \A r \in Started(s)' :
             /\ r <= Len(asked'[s])
             /\ wire'[Base(s)].to # << >> \/ task'[Base(s)].pc = "forward" => r < Len(asked'[s])
    <3>1. CASE Asking(s)
      <4>1. Len(asked'[s]) = Len(asked[s]) + 1 BY <3>1 DEF Asking
      <4>2. \A r \in Started(s) : r < Len(asked'[s]) BY <1>e, <2>2, <2>i, <4>1
      <4>3. Len(asked'[s]) \in Int BY <1>e, <4>1
      <4> QED BY <2>1, <2>i, <4>2, <4>3
    <3>2. CASE Closing(s) BY <1>e, <2>1, <2>2, <3>2 DEF Closing
    <3> QED BY <1>e, <3>1, <3>2
  <2>4. InTurn(Told(s), Fetched(s), Kept(s), Held(s), Queued(s))'
    BY <1>t, <2>2 DEF InTurn, Below
  <2> QED BY <2>3, <2>4 DEF Ordered, Base
<1>5. Punctual(s)' BY <1>e, <1>s, <1>t DEF Punctual, Occupied, Base
<1>6. Relayable(s)'
  <2>1. /\ \A a : a = cli[s].got => Sound(s, a)'
        /\ \A i \in DOMAIN recvMsg[s] : \A a : a = recvMsg[s][i] => Sound(s, a)'
    BY <1>x, <1>s, GrowsAgent, RelayableStays
  <2> QED BY <1>e, <2>1, RelayableNext
<1> QED BY <1>1, <1>2, <1>3, <1>4, <1>5, <1>6 DEF ClientInv

-----------------------------------------------------------------------------
(***************************************************************************)
(* The hosts file of the network gateway.                                  *)
(***************************************************************************)
\* The names the file may miss: an update has been missed or is due.
Due == missed \cup {Asked(d).contact : d \in Opening}

\* What is known is never forgotten, and what becomes known is due.
Grown == /\ Known("NG") \subseteq Known("NG")' /\ Known("NG")' \subseteq Known("NG") \cup Due'
         /\ Due \subseteq Due'

ListsNext(names) == names \subseteq Known("NG")' /\ Known("NG")' \subseteq names \cup Due'

Same == hosts'["NG"] = hosts["NG"] /\ raced'["NG"] = raced["NG"] /\ Grown

Opens(c) ==
  /\ task'[c].pc = "dnsRead" /\ hosts'["NG"] = {} /\ raced'["NG"] = Overlaps(c)
Copies(c) ==
  /\ task[c].pc = "dnsRead" /\ task'[c].pc = "dnsWrite" /\ task'[c].dns = Known("NG")'
  /\ Same
Writes(c) ==
  /\ task[c].pc = "dnsWrite" /\ task'[c].pc = "route"
  /\ \E left \in SUBSET hosts["NG"] : hosts'["NG"] = task[c].dns \cup left
  /\ raced'["NG"] = raced["NG"] /\ Grown
Passes(c) == (Gw(c) = "NG" => ~InDns(c) /\ ~InDns(c)') /\ Same

\* A list of the names remains one.
LEMMA ListsStay ==
  ASSUME Grown PROVE \A names : Lists(names) => ListsNext(names)
BY DEF Grown, Lists, ListsNext, Due

\* A name that is due remains so while its task does not move on.
LEMMA DueStays ==
  ASSUME missed \subseteq missed',
         \A d \in Opening : \/ task'[d] = task[d] /\ Asked(d)' = Asked(d)
                            \/ Asked(d).contact \in Due'
  PROVE  Due \subseteq Due'
<1>1. ASSUME NEW d \in Opening PROVE Asked(d).contact \in Due'
  <2>1. CASE task'[d] = task[d] /\ Asked(d)' = Asked(d)
    <3>1. d \in Nets /\ task'[d].pc = "dnsOpen" BY <1>1, <2>1 DEF Opening
    <3>2. d \in Opening' BY <3>1 DEF Opening, Nets, Gw
    <3>3. Asked(d)'.contact \in Due' BY <3>2 DEF Due
    <3> QED BY <2>1, <3>3
  <2> QED BY <1>1, <2>1
<1> QED BY <1>1 DEF Due

\* A step that enters no name and ends no update leaves what is due.
LEMMA GrownStays ==
  ASSUME ngNames' = ngNames, missed \subseteq missed',
         \A d \in Opening : task'[d] = task[d] /\ Asked(d)' = Asked(d)
  PROVE  Grown
<1>1. Known("NG")' = Known("NG") BY DEF Known
<1> QED BY <1>1, DueStays DEF Grown

\* A task's step is one of the hosts file's three, or passes it by.
LEMMA HostsKinds ==
  ASSUME TypeOK, NG!IInv, OG!IInv, NEW c \in Conn, SessionInv(c[1]), Task(c)
  PROVE  \/ Gw(c) = "NG" /\ (Opens(c) \/ Copies(c) \/ Writes(c))
         \/ Passes(c)
<1>t. /\ task \in [Conn -> TaskRec] /\ hosts \in [Gateway -> SUBSET Name]
      /\ raced \in [Gateway -> BOOLEAN] /\ "NG" \in Gateway
  BY TypeParts DEF Gateway
<1>g. /\ Gw(c) \in {"NG", "OG"}
      /\ Gw(c) = "NG" => task[c].pc \notin {"forward", "pop", "response", "inviteAdd", "join"}
  BY Conns, Gateways DEF Roles, Mine, SessionInv, Gateway
<1>n. Gw(c) = "OG" => ngNames' = ngNames
  <2>1. Apart(c) BY TaskFrame DEF SessionInv
  <2> QED BY <2>1 DEF Apart, ngVars
<1>o. asked' = asked /\ \A d \in Conn : d # c => task'[d] = task[d]
  BY OthersOf DEF SessionInv
<1>a. \A d \in Opening : /\ d \in Conn /\ Gw(d) = "NG" /\ task[d].pc = "dnsOpen"
                         /\ d # c => task'[d] = task[d] /\ Asked(d)' = Asked(d)
  BY <1>o DEF Opening, Nets, Asked
<1>s. ASSUME ngNames' = ngNames, missed' = missed, Gw(c) = "NG" => task[c].pc # "dnsOpen"
      PROVE  Grown
  BY <1>a, <1>s, GrownStays
<1>1. CASE DnsOpen(c)
  <2>1. /\ hosts' = [hosts EXCEPT ![Gw(c)] = {}] /\ raced' = [raced EXCEPT ![Gw(c)] = Overlaps(c)]
        /\ ngNames' = ngNames /\ task' = [task EXCEPT ![c].pc = "dnsRead"]
        /\ Gw(c) = "OG" => missed' = missed
    BY <1>1 DEF DnsOpen, GoTask, ngVars
  <2>2. CASE Gw(c) = "NG" BY <1>t, <2>1, <2>2 DEF Opens, TaskRec
  <2>3. CASE Gw(c) = "OG" BY <1>t, <1>s, <2>1, <2>3 DEF Passes, Same
  <2> QED BY <1>g, <2>2, <2>3
<1>2. CASE DnsRead(c)
  <2>1. /\ task' = [task EXCEPT ![c].pc = "dnsWrite", ![c].dns = Known(Gw(c))]
        /\ ngNames' = ngNames /\ UNCHANGED <<hosts, raced, missed>> /\ task[c].pc = "dnsRead"
    BY <1>2 DEF DnsRead, ngVars, auxVars, At
  <2>2. Same BY <1>s, <2>1 DEF Same
  <2>3. CASE Gw(c) = "NG"
    <3>1. task'[c].pc = "dnsWrite" /\ task'[c].dns = Known("NG")
      BY <1>t, <2>1, <2>3 DEF TaskRec
    <3>2. Known("NG")' = Known("NG") BY <2>1 DEF Known
    <3> QED BY <2>1, <2>2, <2>3, <3>1, <3>2 DEF Copies
  <2>4. CASE Gw(c) = "OG" BY <2>2, <2>4 DEF Passes
  <2> QED BY <1>g, <2>3, <2>4
<1>3. CASE DnsWrite(c)
  <2>1. PICK left \in SUBSET (hosts[Gw(c)] \ task[c].dns) :
          hosts' = [hosts EXCEPT ![Gw(c)] = task[c].dns \cup left]
    BY <1>3 DEF DnsWrite
  <2>2. /\ task' = [task EXCEPT ![c].pc = "route", ![c].dns = {}]
        /\ ngNames' = ngNames /\ raced' = raced /\ missed' = missed /\ task[c].pc = "dnsWrite"
    BY <1>3 DEF DnsWrite, ngVars, auxVars, At
  <2>3. Grown BY <1>s, <2>2
  <2>4. CASE Gw(c) = "NG"
    <3>1. left \in SUBSET hosts["NG"] /\ hosts'["NG"] = task[c].dns \cup left
      BY <1>t, <2>1, <2>4
    <3>2. task'[c].pc = "route" BY <1>t, <2>2 DEF TaskRec
    <3> QED BY <2>2, <2>3, <2>4, <3>1, <3>2 DEF Writes
  <2>5. CASE Gw(c) = "OG" BY <1>t, <2>1, <2>2, <2>3, <2>5 DEF Passes, Same
  <2> QED BY <1>g, <2>4, <2>5
<1>4. CASE Register(c)
  <2>1. PICK ip : /\ ip = ToInt(ngReply'.ip)
                  /\ task' = [task EXCEPT ![c].ip = ip,
                                ![c].pc = IF ip = 0 THEN "route" ELSE "dnsOpen"]
                  /\ missed' = IF ip = 0 THEN missed \cup {Asked(c).contact} ELSE missed
    BY <1>4 DEF Register
  <2>2. UNCHANGED <<hosts, raced>> /\ task[c].pc = "process" /\ Gw(c) = "NG"
    BY <1>4 DEF Register, At
  <2>3. /\ task'[c].pc = IF ip = 0 THEN "route" ELSE "dnsOpen"
        /\ task'[c].req = task[c].req
    BY <1>t, <2>1 DEF TaskRec
  <2>4. Asked(c).contact \in Name /\ NG!Generate(Asked(c).contact)
    <3>1. Asked(c).contact \in Name BY <2>2, AskedType DEF Busy, SessionInv
    <3> QED BY <1>4, <3>1 DEF Register
  <2>5. /\ ngReply'.ip = ngNames'[Asked(c).contact]
        /\ \A m \in Name : m # Asked(c).contact \/ ngNames[m] # NoIp => ngNames'[m] = ngNames[m]
    BY <2>4, NgGenerate
  <2>6. Asked(c).contact \in Due'
    <3>1. CASE ip = 0 BY <2>1, <3>1 DEF Due
    <3>2. CASE ip # 0
      <4>1. c \in Opening' BY <2>2, <2>3, <3>2 DEF Opening, Nets, Gw
      <4>2. Asked(c)' = Asked(c) BY <1>o, <2>3 DEF Asked
      <4> QED BY <4>1, <4>2 DEF Due
    <3> QED BY <3>1, <3>2
  <2>7. Due \subseteq Due'
    <3>1. missed \subseteq missed' BY <2>1
    <3> QED BY <1>a, <2>2, <3>1, DueStays
  <2>8. /\ Known("NG") \subseteq Known("NG")'
        /\ Known("NG")' \subseteq Known("NG") \cup {Asked(c).contact}
    BY <2>5 DEF Known
  <2>9. Same BY <2>2, <2>6, <2>7, <2>8 DEF Same, Grown
  <2> QED BY <2>2, <2>3, <2>9 DEF Passes, InDns
<1>5. CASE DnsFails(c)
  <2>1. /\ UNCHANGED <<hosts, raced>> /\ ngNames' = ngNames /\ task[c].pc = "dnsOpen"
        /\ missed' = IF Gw(c) = "NG" THEN missed \cup {Asked(c).contact} ELSE missed
        /\ task' = [task EXCEPT ![c].pc = "route"]
    BY <1>5 DEF DnsFails, GoTask, ngVars, At
  <2>2. task'[c].pc = "route" BY <1>t, <2>1 DEF TaskRec
  <2>3. Grown
    <3>1. Gw(c) = "NG" => Asked(c).contact \in Due' BY <2>1 DEF Due
    <3>2. missed \subseteq missed' BY <2>1
    <3>3. \A d \in Opening : \/ task'[d] = task[d] /\ Asked(d)' = Asked(d)
                             \/ Asked(d).contact \in Due'
      BY <1>a, <3>1
    <3>4. Known("NG")' = Known("NG") BY <2>1 DEF Known
    <3> QED BY <3>2, <3>3, <3>4, DueStays DEF Grown
  <2> QED BY <2>1, <2>2, <2>3 DEF Passes, Same, InDns
<1>6. CASE ~(DnsOpen(c) \/ DnsRead(c) \/ DnsWrite(c) \/ Register(c) \/ DnsFails(c))
  <2>1. UNCHANGED <<hosts, raced, missed>>
    <3>1. CASE RouteDel(c) \/ ResponseInvite(c) BY <3>1 DEF RouteDel, ResponseInvite, DelRoute
    <3>2. CASE RegisterEnds(c) \/ ResponseRoute(c) \/ InviteEnds(c)
      BY <3>2 DEF RegisterEnds, ResponseRoute, InviteEnds, AddRoute
    <3>3. CASE ~(RouteDel(c) \/ ResponseInvite(c) \/ RegisterEnds(c) \/ ResponseRoute(c) \/ InviteEnds(c))
      BY <1>6, <3>3 DEF Task, Recv, Close, Joined, RegisterRefused, RequestEnds, ForwardPush,
                  ForwardFails, ForwardPop, ResponseContact, ResponseOther, auxVars
    <3> QED BY <3>1, <3>2, <3>3
  <2>2. CASE Gw(c) = "OG" BY <1>n, <1>s, <2>1, <2>2 DEF Passes, Same
  <2>3. CASE Gw(c) = "NG"
    <3> SUFFICES ASSUME ngNames' = ngNames, ~InDns(c), ~InDns(c)', task[c].pc # "dnsOpen"
                 PROVE  Passes(c)
      <4>1. CASE Recv(c) \/ Close(c)
        <5>1. ngNames' = ngNames /\ task[c].pc = "recv" BY <4>1 DEF Recv, Close, At, ngVars
        <5>2. task'[c].pc \in {"process", "over"}
          BY <1>t, <2>3, <4>1 DEF Recv, Close, GoTask, TaskRec
        <5> QED BY <5>1, <5>2 DEF InDns
      <4>2. CASE RegisterRefused(c) \/ RegisterEnds(c) \/ RequestEnds(c)
        <5>1. ngNames' = ngNames /\ task[c].pc \in {"route", "routeAdd", "process"}
          BY <4>2 DEF RegisterRefused, RegisterEnds, RequestEnds, At, ngVars
        <5>2. task'[c] = NewTask
          BY <1>t, <4>2 DEF RegisterRefused, RegisterEnds, RequestEnds, Reply
        <5> QED BY <5>1, <5>2 DEF InDns, NewTask
      <4>3. CASE RouteDel(c)
        <5>1. ngNames' = ngNames /\ task[c].pc = "route" /\ task' = [task EXCEPT ![c].pc = "routeAdd"]
          BY <4>3 DEF RouteDel, At, GoTask, ngVars
        <5>2. task'[c].pc = "routeAdd" BY <1>t, <5>1 DEF TaskRec
        <5> QED BY <5>1, <5>2 DEF InDns
      <4>4. ~(\/ Joined(c) \/ ForwardPush(c) \/ ForwardFails(c) \/ ForwardPop(c)
              \/ ResponseContact(c) \/ ResponseRoute(c) \/ ResponseInvite(c) \/ InviteEnds(c)
              \/ ResponseOther(c))
        BY <1>g, <2>3 DEF Joined, ForwardPush, ForwardFails, ForwardPop, ResponseContact,
                          ResponseRoute, ResponseInvite, InviteEnds, ResponseOther, At
      <4> QED BY <1>6, <4>1, <4>2, <4>3, <4>4 DEF Task
    <3> QED BY <1>s, <2>1 DEF Passes, Same
  <2> QED BY <1>g, <2>2, <2>3
<1> QED BY <1>1, <1>2, <1>3, <1>4, <1>5, <1>6

\* No step of another part of the system disturbs the file or the names in it.
LEMMA HostsStay ==
  ASSUME Hosts, Same, \A d \in Nets : task'[d] = task[d] \/ (~InDns(d) /\ ~InDns(d)')
  PROVE  Hosts'
<1>d. \A d \in Nets : /\ InDns(d)' <=> InDns(d)
                      /\ task'[d].pc = "dnsWrite" => task'[d] = task[d]
  BY DEF InDns
<1>l. \A names : Lists(names) => ListsNext(names) BY ListsStay DEF Same
<1> SUFFICES ASSUME ~raced["NG"]
             PROVE  /\ \A c, d \in Nets : InDns(c)' /\ InDns(d)' => c = d
                    /\ \A c \in Nets : InDns(c)' => hosts'["NG"] = {}
                    /\ \A c \in Nets : task'[c].pc = "dnsWrite" => ListsNext(task'[c].dns)
                    /\ (\A c \in Nets : ~InDns(c)') => ListsNext(hosts'["NG"])
  BY DEF Hosts, Same, Nets, Gw, Lists, ListsNext, Due
<1>1. /\ \A c, d \in Nets : InDns(c) /\ InDns(d) => c = d
      /\ \A c \in Nets : InDns(c) => hosts["NG"] = {}
      /\ \A c \in Nets : task[c].pc = "dnsWrite" => Lists(task[c].dns)
      /\ (\A c \in Nets : ~InDns(c)) => Lists(hosts["NG"])
  BY DEF Hosts
<1>2. \A c, d \in Nets : InDns(c)' /\ InDns(d)' => c = d BY <1>1, <1>d
<1>3. \A c \in Nets : InDns(c)' => hosts'["NG"] = {} BY <1>1, <1>d DEF Same
<1>4. \A c \in Nets : task'[c].pc = "dnsWrite" => ListsNext(task'[c].dns)
  BY <1>1, <1>d, <1>l
<1>5. (\A c \in Nets : ~InDns(c)') => ListsNext(hosts'["NG"])
  BY <1>1, <1>d, <1>l DEF Same
<1> QED BY <1>2, <1>3, <1>4, <1>5

\* A task's step keeps the hosts file's part.
LEMMA TaskHosts ==
  ASSUME TypeOK, NG!IInv, OG!IInv, NEW c \in Conn, SessionInv(c[1]), Task(c), Hosts
  PROVE  Hosts'
<1>o. \A d \in Conn : d # c => task'[d] = task[d] BY OthersOf DEF SessionInv
<1>m. \A d \in Nets : d \in Conn /\ Gw(d) = "NG" BY DEF Nets
<1>k. \/ Gw(c) = "NG" /\ (Opens(c) \/ Copies(c) \/ Writes(c))
      \/ Passes(c)
  BY HostsKinds
<1>0. CASE Passes(c)
  <2>1. ASSUME NEW d \in Nets PROVE task'[d] = task[d] \/ (~InDns(d) /\ ~InDns(d)')
    <3>1. CASE d = c
      <4>1. ~InDns(c) /\ ~InDns(c)' BY <1>m, <1>0, <2>1, <3>1 DEF Passes
      <4> QED BY <3>1, <4>1 DEF InDns
    <3>2. d \in Conn BY <1>m, <2>1
    <3>3. CASE d # c BY <1>o, <3>2, <3>3
    <3> QED BY <3>1, <3>3
  <2>2. Same BY <1>0 DEF Passes
  <2> QED BY <2>1, <2>2, HostsStay
<1> SUFFICES ASSUME c \in Nets, Opens(c) \/ Copies(c) \/ Writes(c), ~raced'["NG"]
             PROVE  /\ \A a, d \in Nets : InDns(a)' /\ InDns(d)' => a = d
                    /\ \A d \in Nets : InDns(d)' => hosts'["NG"] = {}
                    /\ \A d \in Nets : task'[d].pc = "dnsWrite" => ListsNext(task'[d].dns)
                    /\ (\A d \in Nets : ~InDns(d)') => ListsNext(hosts'["NG"])
  BY <1>k, <1>0 DEF Hosts, Nets, Gw, Lists, ListsNext, Due
<1>d. \A d \in Nets : d # c => /\ task'[d] = task[d]
                               /\ InDns(d)' <=> InDns(d)
  BY <1>o, <1>m DEF InDns
<1>1. CASE Opens(c)
  <2>1. \A d \in Nets : InDns(d)' => d = c
    <3>1. ~Overlaps(c) BY <1>1 DEF Opens
    <3>2. \A d \in Nets : d # c => ~InDns(d) BY <3>1, <1>m DEF Overlaps
    <3> QED BY <1>d, <3>2
  <2>2. hosts'["NG"] = {} /\ InDns(c)' /\ task'[c].pc # "dnsWrite" BY <1>1 DEF Opens, InDns
  <2>3. \A d \in Nets : task'[d].pc # "dnsWrite" BY <2>1, <2>2 DEF InDns
  <2> QED BY <2>1, <2>2, <2>3
<1>h. ~Opens(c) =>
        /\ \A a, d \in Nets : InDns(a) /\ InDns(d) => a = d
        /\ \A d \in Nets : InDns(d) => hosts["NG"] = {}
        /\ \A d \in Nets : task[d].pc = "dnsWrite" => Lists(task[d].dns)
  BY DEF Hosts, Copies, Writes, Same
<1>2. CASE Copies(c) /\ ~Opens(c)
  <2>1. InDns(c) /\ InDns(c)' BY <1>2 DEF Copies, InDns
  <2>2. \A d \in Nets : InDns(d)' => d = c BY <1>d, <1>h, <1>2, <2>1
  <2>3. hosts'["NG"] = {} BY <1>h, <1>2, <2>1 DEF Copies, Same
  <2>4. ListsNext(task'[c].dns) BY <1>2 DEF Copies, ListsNext
  <2>5. \A d \in Nets : task'[d].pc = "dnsWrite" => d = c BY <2>2 DEF InDns
  <2> QED BY <2>1, <2>2, <2>3, <2>4, <2>5
<1>3. CASE Writes(c) /\ ~Opens(c)
  <2>1. InDns(c) /\ ~InDns(c)' BY <1>3 DEF Writes, InDns
  <2>2. \A d \in Nets : ~InDns(d)' BY <1>d, <1>h, <1>3, <2>1
  <2>3. hosts'["NG"] = task[c].dns BY <1>h, <1>3, <2>1 DEF Writes
  <2>4. ListsNext(hosts'["NG"]) BY <1>h, <1>3, <2>3, ListsStay DEF Writes
  <2>5. \A d \in Nets : task'[d].pc # "dnsWrite" BY <2>2 DEF InDns
  <2> QED BY <2>2, <2>4, <2>5
<1> QED BY <1>1, <1>2, <1>3

-----------------------------------------------------------------------------
(***************************************************************************)
(* The invariant holds initially, and every step keeps it.                 *)
(***************************************************************************)
\* The tables start empty, which has their invariants.
LEMMA InitAddrs == Init => NG!IInv /\ OG!IInv
<1> SUFFICES ASSUME Init PROVE NG!IInv /\ OG!IInv OBVIOUS
<1>1. PN!ConfAssumption /\ PO!ConfAssumption
  BY ServerAssumption DEF PN!ConfAssumption, PO!ConfAssumption
<1>2. NG!Init /\ OG!Init BY DEF Init
<1>3. PN!Init
  <2>1. NG!NoIp = PN!NoIp BY DEF NG!NoIp, PN!NoIp
  <2> QED BY <1>2, <2>1 DEF NG!Init, PN!Init
<1>4. PO!Init
  <2>1. OG!NoIp = PO!NoIp BY DEF OG!NoIp, PO!NoIp
  <2> QED BY <1>2, <2>1 DEF OG!Init, PO!Init
<1>5. PN!IInv BY <1>1, <1>3, PN!AddrInit
<1>6. PO!IInv BY <1>1, <1>4, PO!AddrInit
<1> QED BY <1>5, <1>6, NgInv, OgInv

\* The initial states have the kinds.
LEMMA InitType == Init => TypeOK
<1> SUFFICES ASSUME Init PROVE TypeOK OBVIOUS
<1>1. NG!TypeOK /\ OG!TypeOK BY InitAddrs, AddrFrame
<1>2. cli \in [OgSession -> CliRec]
  <2>1. NewClient \in CliRec BY Bounds DEF NewClient, CliRec
  <2> QED BY <2>1 DEF Init, ClientInit
<1>3. SendType /\ RecvType BY DEF Init, ClientInit, SendType, RecvType
<1>4. wire \in [Conn -> WireRec]
  <2>1. \A x \in {"up", "none"} : [to |-> << >>, back |-> << >>, link |-> x] \in WireRec
    BY DEF WireRec
  <2> QED BY <2>1 DEF Init, ClientInit
<1>5. task \in [Conn -> TaskRec]
  <2>1. NewTask \in TaskRec BY Bounds DEF NewTask, TaskRec
  <2> QED BY <2>1 DEF Init
<1>6. slow \in 0 .. MaxSlow /\ idle \in 0 .. MaxIdle BY Bounds DEF Init, ClientInit
<1>7. /\ asked \in [Session -> Seq(Request)] /\ answers \in [Session -> Seq(Answer)]
      /\ hosts \in [Gateway -> SUBSET Name] /\ raced \in [Gateway -> BOOLEAN]
  BY DEF Init
<1>8. NetType BY Bounds, ServerAssumption DEF Init, NetType
<1> QED BY <1>1, <1>2, <1>3, <1>4, <1>5, <1>6, <1>7, <1>8, TypeParts

\* They have the whole invariant.
LEMMA InitInv == Init => IInv
<1> SUFFICES ASSUME Init PROVE IInv OBVIOUS
<1>t. TypeOK /\ NG!IInv /\ OG!IInv BY InitType, InitAddrs
<1>c. ASSUME NEW c \in Conn
      PROVE  /\ task[c] = NewTask /\ task[c].pc = "recv" /\ task[c].ans = EmptyAnswer
             /\ wire[c].to = << >> /\ wire[c].back = << >>
             /\ c[2] # 0 => wire[c].link = "none"
             /\ ~Busy(c) /\ ~Updating(c) /\ ~InDns(c) /\ task[c].pc # "inviteAdd"
  <2>1. task[c] = NewTask BY DEF Init
  <2>2. task[c].pc = "recv" /\ task[c].ans = EmptyAnswer BY <2>1 DEF NewTask
  <2>3. wire[c] = [to |-> << >>, back |-> << >>, link |-> IF c[2] = 0 THEN "up" ELSE "none"]
    BY DEF Init, ClientInit
  <2>4. wire[c].to = << >> /\ wire[c].back = << >> BY <2>3
  <2>5. c[2] # 0 => wire[c].link = "none" BY <2>3
  <2>6. ~Busy(c) /\ ~Updating(c) /\ ~InDns(c) BY <2>2 DEF Busy, Updating, InDns
  <2> QED BY <2>1, <2>2, <2>4, <2>5, <2>6
<1>s. \A s \in Session : asked[s] = << >> /\ answers[s] = << >> BY Zenon DEF Init
<1>1. ASSUME NEW s \in Session PROVE SessionInv(s)
  <2>m. Mine(s) \subseteq Conn /\ Base(s) \in Conn BY <1>1, Conns DEF Mine
  <2>1. Roles(s) BY <1>c, <2>m DEF Roles
  <2>2. Numbers(s) BY <1>c, <2>m DEF Numbers
  <2>3. Turn(s) BY <1>1, <1>c, <1>s, <2>m DEF Turn
  <2>4. OwnAnswers(s) BY <1>1, <1>s DEF OwnAnswers
  <2>5. Worths(s) BY <1>1, <1>c, <1>s, <2>m, EmptySound DEF Worths
  <2>6. Routing(s) BY <1>c, <2>m DEF Routing
  <2> QED BY <2>1, <2>2, <2>3, <2>4, <2>5, <2>6 DEF SessionInv
<1>2. ASSUME NEW s \in OgSession PROVE ClientInv(s)
  <2>s. s \in Session /\ Base(s) \in Conn BY Bounds, Conns
  <2>c. /\ cli[s].pc = "connect" /\ cli[s].conn = 0 /\ cli[s].some = FALSE
        /\ cli[s].got = EmptyAnswer /\ sendMsg[s] = << >> /\ recvMsg[s] = << >>
    BY DEF Init, ClientInit, NewClient
  <2>1. Place(s)
    <3>1. ASSUME NEW k \in 0 + 1 .. MaxConn
          PROVE  /\ wire[<<s, k>>].to = << >> /\ wire[<<s, k>>].back = << >>
                 /\ wire[<<s, k>>].link = "none" /\ task[<<s, k>>] = NewTask
      <4>1. k \in 0 .. MaxConn /\ k # 0 BY Bounds
      <4>2. <<s, k>> \in Conn /\ <<s, k>>[2] # 0 BY <4>1, Conns
      <4> QED BY <1>c, <4>2
    <3> QED BY <2>c, <3>1 DEF Place
  <2>2. Pending(s) BY <2>c DEF Pending
  <2>3. Hearing(s) BY <2>c DEF Hearing
  <2>n. /\ Told(s) = {} /\ Kept(s) = {} /\ Held(s) = {} /\ Queued(s) = {} /\ Fetched(s) = {}
    <3>1. Told(s) = {} BY <1>s, <2>s DEF Told
    <3>2. Kept(s) = {} /\ Held(s) = {} /\ Queued(s) = {} BY <2>c DEF Kept, Held, Queued
    <3>3. Fetched(s) = {} BY <1>c, <2>s DEF Fetched
    <3> QED BY <3>1, <3>2, <3>3
  <2>4. Ordered(s) BY <2>n DEF Ordered, Started, InTurn, Below
  <2>5. Punctual(s) BY <1>c, <2>s, <2>c, <2>n DEF Punctual, Occupied
  <2>6. Relayable(s) BY <2>c, EmptySound DEF Relayable
  <2> QED BY <2>1, <2>2, <2>3, <2>4, <2>5, <2>6 DEF ClientInv
<1>3. Hosts
  <2>1. hosts["NG"] = {} /\ \A n \in Name : ngNames[n] = NoIp
    <3>1. NG!NoIp = NoIp BY DEF NG!NoIp, NoIp
    <3> QED BY <3>1 DEF Init, NG!Init, Gateway
  <2>2. Known("NG") = {} BY <2>1 DEF Known
  <2>3. \A d \in Nets : ~InDns(d) /\ task[d].pc # "dnsWrite" BY <1>c DEF Nets
  <2> QED BY <2>1, <2>2, <2>3 DEF Hosts, Lists
<1> QED BY <1>t, <1>1, <1>2, <1>3 DEF IInv

\* A step that leaves the tasks' side alone keeps the hosts file's part.
LEMMA HostsFrame ==
  ASSUME \A s \in Session : Numbers(s), Hosts, Grows,
         UNCHANGED <<task, hosts, raced, ngNames, missed>>
  PROVE  Hosts'
<1>1. ASSUME NEW d \in Opening PROVE Asked(d)' = Asked(d)
  <2>1. d \in Conn /\ task[d].pc = "dnsOpen" BY DEF Opening, Nets
  <2>2. d[1] \in Session /\ d \in Mine(d[1]) BY <2>1, Conns DEF Mine
  <2>3. task[d].req \in Asks(d[1]) BY <2>1, <2>2 DEF Numbers, Busy
  <2> QED BY <2>2, <2>3 DEF Grows, Asked
<1>2. Grown BY <1>1, GrownStays
<1>3. Same BY <1>2 DEF Same
<1>4. \A d \in Nets : task'[d] = task[d] \/ (~InDns(d) /\ ~InDns(d)') OBVIOUS
<1> QED BY <1>3, <1>4, HostsStay

\* Every step keeps it, a task's, an agent's, a client's or a stutter.
LEMMA StepInv == IInv /\ [Next]_vars => IInv'
<1> SUFFICES ASSUME IInv, [Next]_vars PROVE IInv' OBVIOUS
<1>i. /\ TypeOK /\ NG!IInv /\ OG!IInv /\ Hosts
      /\ \A s \in Session : SessionInv(s)
      /\ \A s \in OgSession : ClientInv(s)
      /\ \A s \in Session : Numbers(s)
  BY DEF IInv, SessionInv
<1>o. OgSession \subseteq Session BY Bounds
<1>e. ASSUME TypeOK', NG!IInv', OG!IInv', Hosts', Grows,
             \A x \in Session : Untouched(x) \/ SessionInv(x)',
             \A x \in OgSession : Untouched(x) \/ ClientInv(x)'
      PROVE  IInv'
  <2>1. \A x \in Session : SessionInv(x)' BY <1>i, <1>e, UntouchedSession
  <2>2. \A x \in OgSession : ClientInv(x)' BY <1>i, <1>o, <1>e, UntouchedClient
  <2> QED BY <1>e, <2>1, <2>2 DEF IInv
<1>1. ASSUME NEW c \in Conn, Task(c) PROVE IInv'
  <2>1. c[1] \in Session BY Conns
  <2>2. SessionInv(c[1]) /\ (c[1] \in OgSession => ClientInv(c[1])) /\ Roles(c[1])
    BY <1>i, <2>1 DEF SessionInv
  <2>3. TypeOK' /\ NG!IInv' /\ OG!IInv' /\ Hosts' /\ Grows
    BY <1>i, <1>1, <2>2, TypeTask, TaskAddrs, TaskHosts, GrowsTask
  <2>4. \A x \in Session : x # c[1] => Untouched(x) BY <1>i, <1>1, <2>2, UntouchedByTask
  <2>5. SessionInv(c[1])' /\ (c[1] \in OgSession => ClientInv(c[1])')
    BY <1>i, <1>1, <2>2, TaskSession
  <2>6. \A x \in Session : x = c[1] => SessionInv(x)' BY <2>5
  <2>7. \A x \in OgSession : x = c[1] => ClientInv(x)' BY <2>5
  <2> QED BY <1>e, <1>o, <2>3, <2>4, <2>6, <2>7
<1>2. ASSUME NEW s \in Session, AgentSend(s) \/ AgentCloses(s) PROVE IInv'
  <2>1. /\ UNCHANGED <<task, hosts, raced, ngNames, missed>>
        /\ UNCHANGED ngVars /\ UNCHANGED ogVars
    BY <1>2 DEF AgentSend, AgentCloses, ngVars, auxVars
  <2>2. TypeOK' /\ NG!IInv' /\ OG!IInv' /\ Hosts' /\ Grows
    BY <1>i, <1>2, <2>1, TypeAgent, AddrFrame, HostsFrame, GrowsAgent
  <2>3. \A x \in Session : x # s => Untouched(x) BY <1>i, <1>2, UntouchedByAgent
  <2>4. SessionInv(s)' BY <1>i, <1>2, AgentSession
  <2>5. s \in OgSession => ClientInv(s)' BY <1>i, <1>2, AgentClient
  <2>6. \A x \in Session : x = s => SessionInv(x)' BY <2>4
  <2>7. \A x \in OgSession : x = s => ClientInv(x)' BY <2>5
  <2> QED BY <1>e, <1>o, <2>2, <2>3, <2>6, <2>7
<1>3. ASSUME NEW s \in OgSession, Client(s) \/ Wake(s), UNCHANGED serverVars PROVE IInv'
  <2>1. /\ UNCHANGED <<task, hosts, raced, ngNames, missed>>
        /\ UNCHANGED ngVars /\ UNCHANGED ogVars
    BY <1>3 DEF serverVars, ngVars, auxVars
  <2>2. SessionInv(s) /\ ClientInv(s) /\ Place(s) BY <1>i, <1>o DEF ClientInv
  <2>3. TypeOK' /\ NG!IInv' /\ OG!IInv' /\ Hosts' /\ Grows
    BY <1>i, <1>3, <2>1, <2>2, TypeClient, AddrFrame, HostsFrame, GrowsClient
  <2>4. \A x \in Session : x # s => Untouched(x)
    BY <1>i, <1>3, <2>2, UntouchedByClient
  <2>5. Kinds(s) /\ ClientFrame(s) BY <1>i, <1>3, <2>2, ClientKinds, ClientFrames
  <2>6. SessionInv(s)' /\ ClientInv(s)' BY <1>i, <2>2, <2>5, ClientSession, ClientClient
  <2>7. \A x \in Session : x = s => SessionInv(x)' BY <2>6
  <2>8. \A x \in OgSession : x = s => ClientInv(x)' BY <2>6
  <2> QED BY <1>e, <1>o, <2>3, <2>4, <2>7, <2>8
<1>4. CASE UNCHANGED vars
  <2>1. /\ UNCHANGED serverVars /\ UNCHANGED cliVars /\ UNCHANGED ngVars /\ UNCHANGED ogVars
    BY <1>4 DEF vars, serverVars
  <2>2. NG!IInv' /\ OG!IInv' BY <1>i, <2>1, AddrFrame
  <2>3. TypeOK'
    <3>1. /\ cli \in [OgSession -> CliRec] /\ SendType /\ RecvType
          /\ wire \in [Conn -> WireRec] /\ slow \in 0 .. MaxSlow /\ task \in [Conn -> TaskRec]
          /\ asked \in [Session -> Seq(Request)] /\ answers \in [Session -> Seq(Answer)]
          /\ hosts \in [Gateway -> SUBSET Name] /\ raced \in [Gateway -> BOOLEAN]
          /\ NetType /\ idle \in 0 .. MaxIdle
      BY <1>i, TypeParts
    <3>2. SendType' /\ RecvType' BY <2>1, <3>1 DEF SendType, RecvType, cliVars
    <3>3. NetType' BY <2>1, <3>1 DEF NetType, serverVars, auxVars
    <3> QED BY <2>1, <2>2, <3>1, <3>2, <3>3, TypeNext DEF serverVars, cliVars
  <2>5. Grows BY <1>i, <2>1, GrowsClient
  <2>4. Hosts' BY <1>i, <2>1, <2>5, HostsFrame DEF serverVars, ngVars, auxVars
  <2>6. \A x \in Session : Untouched(x) BY <2>1 DEF Untouched, serverVars, cliVars
  <2> QED BY <1>e, <1>o, <2>2, <2>3, <2>4, <2>5, <2>6
<1> QED BY <1>1, <1>2, <1>3, <1>4 DEF Next

\* So it always holds.
LEMMA SipInvariance == Spec => []IInv
BY InitInv, StepInv, PTL DEF Spec

-----------------------------------------------------------------------------
(***************************************************************************)
(* What the server's properties follow from.                               *)
(***************************************************************************)
\* The tasks' and the clients' variables, the connections, the tables, the hosts
\* files and the routes keep their kinds, and the two queues of a client hold at
\* most one message (SipServer.cc, SipClient.cc, WaitQueue.h).
THEOREM TypeCorrect == Spec => []TypeOK
<1>1. IInv => TypeOK BY DEF IInv
<1> QED BY <1>1, SipInvariance, PTL

\* Whatever the tasks, the clients and the connections do, an agent is answered
\* with the answer to its request, or, once its client has stopped hearing, with
\* an empty one that has become 501; an earlier request's answer only comes
\* after a sendrecv has given up too early, and none twice or overtaken
\* (SipClient.cc, lines 63-78, 185-204).
THEOREM AnswersOwn == Spec => []OwnAnswer
<1>1. IInv => OwnAnswer
  <2> SUFFICES ASSUME IInv, NEW s \in Session, NEW i \in DOMAIN answers[s],
                      NEW a, a = answers[s][i]
               PROVE  /\ a.req = 0 => s \in OgSession /\ a.code = 501
                      /\ a.req \notin {0, i} => s \in OgSession /\ cli[s].late /\ a.req < i
                      /\ \A j \in 1 .. i - 1 : a.req # 0 /\ answers[s][j].code # 405 =>
                           answers[s][j].req < a.req
    BY DEF OwnAnswer
  <2>1. /\ a.req \in 0 .. i
        /\ a.req = 0 => s \in OgSession /\ a.code = 501
        /\ a.req \notin {0, i} => s \in OgSession /\ cli[s].late
        /\ a.req # 0 =>
             \A j \in 1 .. i - 1 : answers[s][j].code # 405 => answers[s][j].req < a.req
    BY DEF IInv, SessionInv, OwnAnswers
  <2>2. i \in Nat
    <3>1. answers[s] \in Seq(Answer) BY TypeParts DEF IInv
    <3> QED BY <3>1
  <2>3. a.req \notin {0, i} => a.req < i BY <2>1, <2>2
  <2> QED BY <2>1, <2>3
<1> QED BY <1>1, SipInvariance, PTL

\* 200 to a REGISTER is worth an address, and a route to it that only a failing
\* command or a task replacing it takes away, on both gateways, or the range is
\* exhausted (SipServer.cc, lines 227-278, 337-345; RouteMgr.cc, lines 11-49).
THEOREM RegistrationHolds == Spec => []Registered
<1>1. ASSUME IInv PROVE Registered
  <2> SUFFICES ASSUME NEW s \in Session, NEW i \in DOMAIN answers[s]
               PROVE  LET a == answers[s][i]
                          q == asked[s][a.req] IN
                      a.req # 0 /\ a.code = 200 /\ q.method = "register" =>
                        /\ IF ngNames[q.contact] = NoIp THEN RangeFull(ngAddrs)
                           ELSE Reached("NG", ngNames[q.contact])
                        /\ s \in OgSession /\ a.whole /\ q.contact # Absent =>
                             IF ogNames[q.contact] = NoIp THEN RangeFull(ogAddrs)
                             ELSE ogNames[q.contact] = 0 \/ Reached("OG", ogNames[q.contact])
    BY Zenon DEF Registered
  <2> DEFINE a == answers[s][i]
  <2> DEFINE q == asked[s][a.req]
  <2>1. NgWorth(s, a) /\ OgWorth(s, a) BY <1>1 DEF IInv, SessionInv, Worths
  <2> SUFFICES ASSUME a.req # 0, a.code = 200, q.method = "register"
               PROVE  /\ IF ngNames[q.contact] = NoIp THEN RangeFull(ngAddrs)
                         ELSE Reached("NG", ngNames[q.contact])
                      /\ s \in OgSession /\ a.whole /\ q.contact # Absent =>
                           IF ogNames[q.contact] = NoIp THEN RangeFull(ogAddrs)
                           ELSE ogNames[q.contact] = 0 \/ Reached("OG", ogNames[q.contact])
    BY Zenon
  <2>2. Registers(s, a) BY Zenon DEF Registers
  <2>3. NgServes(q.contact) BY Zenon, <2>1, <2>2 DEF NgWorth
  <2>4. s \in OgSession /\ a.whole /\ q.contact # Absent => OgServes(q.contact)
    BY Zenon, <2>1, <2>2 DEF OgWorth
  <2> HIDE DEF a, q
  <2> QED BY <2>3, <2>4 DEF NgServes, OgServes, Full
<1> QED BY <1>1, SipInvariance, PTL

\* An update of the network gateway's hosts file that runs alone leaves every
\* name that has an address in it, however many updates have overlapped or failed
\* before; only the names entered since, by updates that did not happen, are
\* missing (SipServer.cc, lines 83-104, 229).
THEOREM HostsCorrect == Spec => []HostsComplete
<1>1. IInv => HostsComplete
  <2> SUFFICES ASSUME IInv, ~raced["NG"],
                      \A c \in Conn : Gw(c) = "NG" => ~InDns(c) /\ task[c].pc # "dnsOpen"
               PROVE  /\ hosts["NG"] \subseteq Known("NG")
                      /\ Known("NG") \subseteq hosts["NG"] \cup missed
    BY DEF HostsComplete
  <2>1. \A c \in Nets : ~InDns(c) /\ task[c].pc # "dnsOpen" BY DEF Nets
  <2>2. Opening = {} BY <2>1 DEF Opening
  <2>3. Lists(hosts["NG"]) BY <2>1 DEF IInv, Hosts
  <2> QED BY <2>2, <2>3 DEF Lists
<1> QED BY <1>1, SipInvariance, PTL
=============================================================================
