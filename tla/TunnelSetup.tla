----------------------------- MODULE TunnelSetup -----------------------------
(***************************************************************************)
(* The creation of the tunnels at a gateway's start: createTunnel and      *)
(* buildTunnels (TunnelBuilder.cc), addBearer with the paths' transports   *)
(* (TunnelMgr.cc), the tunnel devices (VirtualIfMgr.cc, TunTap.cc) and the *)
(* host's interfaces, which ip, ifconfig and route change as well.         *)
(*                                                                         *)
(* What the gateway then does with its tunnels is MpTunnel's matter.       *)
(***************************************************************************)
EXTENDS GatewayConfig

CONSTANTS
  Leftovers,  \* what interfaces the host may have at the start, by their names
  AddressOf,  \* a function from the texts that IpAddress can resolve to numbers
  NoAddress,  \* 255.255.255.255, IpAddress of any other text; above the others
  MaxFail     \* bound: commands and system calls that fail by themselves

\* An interface is a GRE tunnel of the kernel, a tun device of the gateway or
\* any other one, and has an address and a route or not; a GRE tunnel is known by
\* its two ends.
Interface(kind, addr, route, from) == [kind |-> kind, addr |-> addr, route |-> route, from |-> from]

ASSUME SetupAssumption ==
  /\ NoAddress \in Nat /\ MaxFail \in Nat
  /\ \A a \in DOMAIN AddressOf : AddressOf[a] \in 0 .. NoAddress - 1
  /\ \A interfaces \in Leftovers : \A t \in DOMAIN interfaces :
       LET i == interfaces[t] IN
       /\ i = Interface(i.kind, i.addr, i.route, i.from)
       /\ i.kind \in {"gre", "other"} /\ i.addr \in BOOLEAN /\ i.route \in BOOLEAN

VARIABLES
  created,    \* the tunnels createTunnel has returned from
  cur,        \* the tunnel being created, or << >>
  next,       \* its next bearer; 0 while the kernel's own tunnel is tried
  kernel,     \* the host's interfaces: kind, whether they have address and route
  devs,       \* _devs, its keys
  rpeer2dev,  \* _rpeer2dev
  paths,      \* the paths of all tunnels, in the order they were added
  allMade,    \* ret of buildTunnels
  fails       \* how much has failed by itself

setupVars == <<created, cur, next, kernel, devs, rpeer2dev, paths, allMade, fails>>
startVars == <<gatewayVars, setupVars>>

\* The host has interfaces, and another process of the gateway may have left its
\* kernel tunnels behind, with the names and ends of this one's or others.
SetupInit ==
  /\ created = {} /\ cur = << >> /\ next = 0
  /\ kernel \in Leftovers
  /\ devs = {} /\ rpeer2dev = << >> /\ paths = << >>
  /\ allMade = TRUE /\ fails = 0

IpAddress(text) == IF text \in DOMAIN AddressOf THEN AddressOf[text] ELSE NoAddress
Resolves(text) == text \in DOMAIN AddressOf

-----------------------------------------------------------------------------
\* The tunnels' names have an order in the code, where any order is allowed here.
Tunnel(t) == made.tunnels[t]
Creating(t) == pc = "tunnels" /\ cur = t /\ t # << >>

\* A choice of outcome: it succeeds if it can, and may fail without a reason.
Succeeds(can) == can /\ UNCHANGED fails
Fails(can) == IF can THEN fails < MaxFail /\ fails' = fails + 1 ELSE UNCHANGED fails

TunnelDone(t) == created' = created \cup {t} /\ cur' = << >> /\ next' = 0

CreateEmpty(t) ==
  /\ pc = "tunnels" /\ cur = << >> /\ t \in DOMAIN made.tunnels \ created
  /\ Tunnel(t).bearers = << >>
  /\ allMade' = FALSE
  /\ created' = created \cup {t}
  /\ UNCHANGED <<gatewayVars, cur, next, kernel, devs, rpeer2dev, paths, fails>>

\* "ip tunnel del" takes away no other interface.
CanDelete(t) == root /\ (t \in DOMAIN kernel => kernel[t].kind = "gre")

\* Only a single GRE bearer is left to the kernel.
Create(t) ==
  /\ pc = "tunnels" /\ cur = << >> /\ t \in DOMAIN made.tunnels \ created
  /\ Tunnel(t).bearers # << >>
  /\ cur' = t
  /\ next' = IF Len(Tunnel(t).bearers) = 1 /\ Tunnel(t).bearers[1].protocol = <<"gre">>
             THEN 0 ELSE 1
  /\ \/ Succeeds(CanDelete(t)) /\ kernel' = [i \in DOMAIN kernel \ {t} |-> kernel[i]]
     \/ Fails(CanDelete(t)) /\ UNCHANGED kernel
  /\ UNCHANGED <<gatewayVars, created, devs, rpeer2dev, paths, allMade>>

\* "ip tunnel add".
CanAdd(t) ==
  LET b == Tunnel(t).bearers[1] IN
  /\ root /\ Tunnel(t).type = <<"gre">>
  /\ Resolves(b.local) /\ Resolves(b.remote)
  /\ t \notin DOMAIN kernel
  /\ \A i \in DOMAIN kernel : kernel[i].from # <<b.local, b.remote>>

\* "ifconfig" without an address changes nothing, and succeeds; the kernel's
\* tunnel is then down and takes no route.
CanConfigure(t) == root /\ (Tunnel(t).local = << >> \/ Resolves(Tunnel(t).local))
HasAddr(t) == Tunnel(t).local # << >>
CanRoute(t) == root /\ Resolves(Tunnel(t).remote)

KernelTunnel(t) ==
  LET b == Tunnel(t).bearers[1]
      made1(addr, route) ==
        kernel' = Enter(kernel, t, Interface("gre", addr, route, <<b.local, b.remote>>))
  IN
  /\ Creating(t) /\ next = 0
  /\ \/ Fails(CanAdd(t)) /\ next' = 1 /\ UNCHANGED <<cur, created, kernel>>
     \/ CanAdd(t) /\ Fails(CanConfigure(t)) /\ made1(FALSE, FALSE)
        /\ next' = 1 /\ UNCHANGED <<cur, created>>
     \/ CanAdd(t) /\ CanConfigure(t) /\ Fails(HasAddr(t) /\ CanRoute(t)) /\ made1(HasAddr(t), FALSE)
        /\ next' = 1 /\ UNCHANGED <<cur, created>>
     \/ CanAdd(t) /\ CanConfigure(t) /\ Succeeds(HasAddr(t) /\ CanRoute(t)) /\ made1(TRUE, TRUE)
        /\ TunnelDone(t)
  /\ UNCHANGED <<gatewayVars, devs, rpeer2dev, paths, allMade>>

-----------------------------------------------------------------------------
(***************************************************************************)
(* addBearer, for the next bearer of the tunnel.                           *)
(***************************************************************************)
AtBearer(t) == Creating(t) /\ next \in DOMAIN Tunnel(t).bearers
NextBearer(t) == Tunnel(t).bearers[next]

\* Both ends of a path have the tunnel's port.
Client(b) == IpAddress(b.local) < IpAddress(b.remote)

IsTcp(b) == b.protocol = <<"tcp">>
Overlap(b, c) ==
  /\ IsTcp(b) /\ IsTcp(c) /\ b.port = c.port
  /\ \/ IpAddress(b.local) = IpAddress(c.local)
     \/ 0 \in {IpAddress(b.local), IpAddress(c.local)}
InUse(b, clients) == \E i \in DOMAIN paths : Overlap(paths[i].bearer, b) /\ Client(paths[i].bearer) = clients

\* A raw socket and a low port are for root; a listener does not share its
\* end point, and a client binds in its own thread.
RawSocket == root
LowPort(b) == b.port < 1024
makeGreSocket == RawSocket
UdpBind(b) == LowPort(b) => root
makeUdpSocket(b) == UdpBind(b)
Listens(b) == (LowPort(b) => root) /\ ~InUse(b, FALSE)
makeTcpConnection(b) == Client(b) \/ Listens(b)

CanMake(b) ==
  CASE IsTcp(b) -> makeTcpConnection(b)
    [] b.protocol = <<"udp">> -> makeUdpSocket(b)
    [] OTHER -> makeGreSocket

\* The thread of a client may have taken the end point or not yet;
\* 255.255.255.255 can be bound on some hosts.
MayBeRefused(b) == ~Resolves(b.local) \/ InUse(b, TRUE)

\* Mutant: the other bearers of the tunnel are given up.
AddBearerNoTransportEnds(t) ==
  /\ AtBearer(t)
  /\ LET b == NextBearer(t) IN
     /\ ~(IsTcp(b) /\ Client(b))
     /\ \/ Fails(CanMake(b))
        \/ MayBeRefused(b) /\ UNCHANGED fails
  /\ TunnelDone(t)
  /\ UNCHANGED <<gatewayVars, kernel, devs, rpeer2dev, paths, allMade>>

\* A TCP client cannot fail here.
AddBearerNoTransport(t) ==
  /\ AtBearer(t)
  /\ LET b == NextBearer(t) IN
     /\ ~(IsTcp(b) /\ Client(b))
     /\ \/ Fails(CanMake(b))
        \/ MayBeRefused(b) /\ UNCHANGED fails
  /\ next' = next + 1
  /\ UNCHANGED <<gatewayVars, created, cur, kernel, devs, rpeer2dev, paths, allMade>>

\* The path is dropped, and with a TCP connection its thread, not joined:
\* std::terminate.
DropPath(b) ==
  /\ next' = next + 1
  /\ pc' = IF IsTcp(b) THEN "aborted" ELSE pc
  /\ UNCHANGED <<inputs, read, opts, made, attempts, created, cur, rpeer2dev, paths, allMade>>

CanOpen(t) == root /\ t \notin DOMAIN kernel

AddBearerNoIf(t) ==
  /\ AtBearer(t) /\ CanMake(NextBearer(t))
  /\ t \notin devs /\ Fails(CanOpen(t))
  /\ DropPath(NextBearer(t))
  /\ UNCHANGED <<kernel, devs>>

addIf(t) ==
  /\ t \in devs \/ CanOpen(t)
  /\ devs' = devs \cup {t}

\* The interface is new, or as it was.
Device(t) == IF t \in devs THEN kernel[t] ELSE Interface("tun", FALSE, FALSE, << >>)

AddBearerRefused(t) ==
  /\ AtBearer(t) /\ CanMake(NextBearer(t)) /\ addIf(t)
  /\ IpAddress(NextBearer(t).remote) \in DOMAIN rpeer2dev
  /\ kernel' = Enter(kernel, t, Device(t))
  /\ DropPath(NextBearer(t))
  /\ UNCHANGED fails

\* What ifconfig and route do then is not looked at.
AddBearer(t) ==
  /\ AtBearer(t) /\ CanMake(NextBearer(t)) /\ addIf(t)
  /\ IpAddress(NextBearer(t).remote) \notin DOMAIN rpeer2dev
  /\ rpeer2dev' = Enter(rpeer2dev, IpAddress(NextBearer(t).remote), t)
  /\ paths' = Append(paths, [dev |-> t, n |-> next, bearer |-> NextBearer(t)])
  /\ LET configured(addr, route) ==
           kernel' = Enter(kernel, t, Interface("tun", Device(t).addr \/ addr, Device(t).route \/ route, Device(t).from))
     IN \/ Fails(CanConfigure(t)) /\ configured(FALSE, FALSE)
        \/ CanConfigure(t) /\ Fails(CanRoute(t)) /\ configured(HasAddr(t), FALSE)
        \/ CanConfigure(t) /\ Succeeds(CanRoute(t)) /\ configured(HasAddr(t), TRUE)
  /\ next' = next + 1
  /\ UNCHANGED <<gatewayVars, created, cur, allMade>>

CreateEnds(t) ==
  /\ Creating(t) /\ next > Len(Tunnel(t).bearers)
  /\ TunnelDone(t)
  /\ UNCHANGED <<gatewayVars, kernel, devs, rpeer2dev, paths, allMade, fails>>

\* Only root minds a tunnel that could not be created.
TunnelsDone ==
  /\ pc = "tunnels" /\ created = DOMAIN made.tunnels
  /\ pc' = IF root /\ ~allMade THEN "unwinding" ELSE "bind"
  /\ UNCHANGED <<inputs, read, opts, made, attempts, setupVars>>

\* An exception destroys the tunnel manager, which joins the transmit thread
\* that its first path started; that thread's loop has no end.
Unwind ==
  /\ pc = "unwinding" /\ paths = << >>
  /\ pc' = "ended"
  /\ UNCHANGED <<inputs, read, opts, made, attempts, setupVars>>

Joining == pc = "unwinding" /\ paths # << >>

CreateTunnel(t) ==
  \/ CreateEmpty(t) \/ Create(t) \/ KernelTunnel(t) \/ CreateEnds(t)
  \/ AddBearerNoTransport(t) \/ AddBearerNoIf(t) \/ AddBearerRefused(t) \/ AddBearer(t)

StartNext ==
  \/ GatewayNext /\ UNCHANGED setupVars
  \/ pc = "tunnels" /\ \E t \in DOMAIN made.tunnels : CreateTunnel(t)
  \/ TunnelsDone \/ Unwind

StartInit == GatewayInit /\ SetupInit

Stopped == pc \in {"serving", "syntax error", "ended", "aborted"}

\* WF(StartNext), which is enabled until the gateway has stopped or joins (a
\* run that checks for deadlock shows it) and always changes something.
GatewayFairness == []<>(Stopped \/ Joining) \/ []<><<TRUE>>_startVars

StartSpec == StartInit /\ [][StartNext]_startVars /\ GatewayFairness

-----------------------------------------------------------------------------
SetupTypeOK ==
  /\ cur # << >> => pc \in {"tunnels", "aborted"}
  /\ created \cup (IF cur = << >> THEN {} ELSE {cur}) \subseteq (IF made = << >> THEN {} ELSE DOMAIN made.tunnels)
  /\ next \in Nat /\ allMade \in BOOLEAN /\ fails \in 0 .. MaxFail
  /\ \A t \in DOMAIN kernel : kernel[t].kind \in IF t \in devs THEN {"tun"} ELSE {"gre", "other"}
  /\ devs \subseteq DOMAIN kernel
  /\ \A a \in DOMAIN rpeer2dev : a \in 0 .. NoAddress /\ rpeer2dev[a] \in devs
  /\ Len(paths) = Cardinality(DOMAIN rpeer2dev)

\* The start does not go on for ever: the gateway serves or its process has
\* ended, but that of root may wait for its transmit thread instead.
StartsUp == (pc = "start") ~> (Stopped \/ (Joining /\ root))

AllBearers == UNION {{<<t, i>> : i \in DOMAIN Tunnel(t).bearers} : t \in DOMAIN made.tunnels}
BearerAt(b) == Tunnel(b[1]).bearers[b[2]]

\* An interface of that name: a kernel tunnel that is not wholly set up, or
\* another's.
InTheWay(t) == t \in DOMAIN kernel /\ kernel[t].kind # "tun"
KernelServes(t) == InTheWay(t) /\ kernel[t].kind = "gre" /\ kernel[t].route /\ kernel[t].from # << >>

Served(b) == KernelServes(b[1]) \/ \E i \in DOMAIN paths : paths[i].dev = b[1] /\ paths[i].n = b[2]

\* What keeps a bearer from its path without anything failing by itself.
Hindered(b) ==
  \/ ~root \/ InTheWay(b[1]) \/ ~Resolves(BearerAt(b).local)
  \/ \E c \in AllBearers \ {b} : \/ IpAddress(BearerAt(c).remote) = IpAddress(BearerAt(b).remote)
                                 \/ Overlap(BearerAt(c), BearerAt(b)) /\ ~Client(BearerAt(b))

Configurable(i) == LET t == paths[i].dev IN
  CanConfigure(t) /\ CanRoute(t) /\ ~kernel[t].route

\* What fails by itself while the tunnels are created costs one bearer or the
\* configuration of one interface each, never the other bearers; and only a
\* TCP bearer that is hindered, or a failure, ends the process.
FailuresContained ==
  /\ pc \in {"bind", "listen", "serving"} =>
       Cardinality({b \in AllBearers : ~Served(b) /\ ~Hindered(b)})
         + Cardinality({i \in DOMAIN paths : Configurable(i)}) <= fails
  /\ pc = "aborted" => \E b \in AllBearers : IsTcp(BearerAt(b)) /\ (fails > 0 \/ Hindered(b))
=============================================================================
