# Formal models of AdaptableCommunicationSystemPoC

TLA+ models of `acsgw`, the gateway of this repository, with TLC configurations
that check them on small instances and TLAPS proofs of their main invariants.
Line numbers refer to the files under `src/`; `PROJECT.json` maps each
definition to the lines it stands for.

## The system

An `acsgw` process is one gateway. Between an *operator gateway* and a *network
gateway* it keeps tunnels. A tunnel is a tun device on either side and one or
more *bearers* (GRE, UDP or TCP paths) between them. Each packet that a host
writes to the device is sent on every bearer ("mirroring"), and the other end
announces the first copy and discards the others. A SIP server in the same process
registers user agents, gives them logical addresses and writes them to the DNS server's hosts
file. `udptremu` is a separate traffic emulator that measures what a path loses, duplicates and reorders.

| Component | State | Operations | Interacts with |
|---|---|---|---|
| Multi-path tunnel manager (`TunnelMgr`, `MpTunnel.h`, `VirtualIfMgr`, `TunTap`, bearer loop of `TunnelBuilder`) | `_rpeer2dev`, `_dev2mpTunnel`, `_devs`, the locals of one transmit thread (`pktid`) and of one receive thread per bearer | `addBearer`, transmit loop, receive loop, `getPacket`, `announcePacket` | detector (shared by all receive threads), sockets, TCP connections, the kernel |
| Duplicate detector (`IpPacketParser.h`, `Ip4DupDetector.cc`) | set of packet numbers; per flow, a set of digests and a history of duplicates | two overloads of `isADuplicated` | receive threads |
| TCP bearer connection (`TcpConnectionMgr`, `LockedQueue`) | in and out queues, retry queue, `_connected`, the socket | `sendMessage`, `recvMessage`, manager thread, receive thread | transmit and receive threads of the tunnel, TCP |
| Logical address manager (`LogicalIpAddrMgr`) | `_ipByTime`, `_ipByAddr`, `_name2ipTbl`, configuration | `configure`, `generateIp`, `resolveIp`, `getHosts` | SIP server's tasks |
| SIP server and registrar (`SipServer`) | sessions, sockets, the address manager, the peer's address | `processRequest`, `processResponse`, `forwardRequest`, `updateDns` | user agents, SIP client, DNS hosts file |
| SIP client (`SipClient`) | queue of answers, connection | `sendrecv`, connection thread | SIP server of the other gateway |
| SIP messages (`SipSocket`, `SipHeaderParser`, `SipParsedMessage`, `SipResponse`) | the automaton's state, the line in progress, a map and a list of headers | `recv`, parsing, `getHeader`, the making of an answer | server, client |
| Start and configuration (`main.cc`, `ConfigParser`, `Config`, `TunnelBuilder`) | options, tokens, rows and tables of attributes, tunnels being made | parsing, resolution of references, `createTunnel`, `bind`, `listen` | tunnel manager, address manager, SIP server, the host's `ip`, `ifconfig`, `route` |
| Tokenizer (`TextTokenizer`) | the text in progress, its scanner's state | `next`, for four dialects | configuration, lists, SIP lines |
| `udptremu` | packet counter; received numbers, statistics | client loop, server loop, `printStats` | UDP |

What is hard about it:

* **Concurrency.** Copies of one packet reach different receive threads of one
  process at the same moment. The main thread adds bearers while threads already run on
  the earlier ones. The two threads of a TCP connection share
  `_connected` and the socket.
* **Failure.** UDP loses, duplicates and reorders. A TCP connection breaks in
  the middle of a message, or for one end only. One send out of several fails.
  A gateway restarts and counts from one again.
* **Bounds.** The detector's history, the queues, the address range and the end of a lease.
* **Ordering.** A clock that steps back, late answers to SIP requests, a tail
  that arrives after the reader has given up on it.

What makes each component correct:

* *Tunnel*: a packet leaves the other end of its own tunnel only (or of one that shares
  its sockets there), at most once per run of the gateway; what is discarded is really a
  duplicate; one working bearer is enough; the tables written by `addBearer` agree.
* *Detector*: it never forgets a packet whose copy is still to come.
* *TCP bearer*: whole messages in order and once, nothing lost while the
  connection holds, and a broken connection is noticed and replaced.
* *Address manager*: the indices agree, addresses lie in the range, a request
  is refused only if there is no address left, a lease is respected.
* *SIP*: an answer goes to the request it answers, and there is one in the
  end; who is told to be registered has an address and a route, unless a command has failed; the
  hosts file lists everyone whose update could open it.
* *Parsers*: a text a reader would call plain means what it says, whatever blanks,
  comments and line ends it has; an answer repeats the headers of its request.
* *Start*: a bearer that fails does not cost another one; the start ends.
* *udptremu*: expected = received + lost, and duplicates are counted apart.

The hazards, each at its line, are in `PROJECT.json`.

## Modules

| Module | Models | Notes |
|---|---|---|
| `Ip4DupDetector` | the detector, as a record and operators `IdIsDuplicate`/`AfterId`, `PktIsDuplicate`/`AfterPkt` | a call is one step: both overloads hold the detector's mutex |
| `MpTunnel` | any number of gateways, their threads, devices, tables and the network between them | EXTENDS `Ip4DupDetector` |
| `PacketPath` | abstract: what the gateways promise the hosts | `MpTunnel` implements it (`PathSpec`) |
| `MCMpTunnel` | instances of `MpTunnel` | Pair, Hub, Twin, Last |
| `MpTunnel_proofs` | proofs about `MpTunnel`, and about the digest of `IpPacketParser` | |
| `TcpConnectionMgr` | the client and the server end of a TCP bearer and the connections between them | |
| `MessageChannel` | abstract: what a TCP bearer promises the tunnel at its ends | `TcpConnectionMgr` implements it (`ChannelSpec`) |
| `TcpConnectionMgr_proofs` | proofs about `TcpConnectionMgr`: types and order; what is lost, and the refinement | |
| `IpPacketParser` | the digest and the flow of a packet's header | `MCMpTunnel` makes its packets' digests with them |
| `LogicalIpAddrMgr`, `MCLogicalIpAddrMgr`, `LogicalIpAddrMgr_proofs` | the address table, its instances, its proofs | |
| `SipClient` | the client of one agent's session at an operator gateway, and the connections that carry SIP messages | |
| `SipServer`, `MCSipServer` | the tasks of an operator and of a network gateway, with their agents | EXTENDS `SipClient`; two INSTANCEs of `LogicalIpAddrMgr`, one per gateway |
| `SipTask_proofs`, `SipServer_proofs` | proofs about `SipServer` and `SipClient`: the invariant and the tasks' steps; the others and the theorems | two INSTANCEs of `LogicalIpAddrMgr_proofs` |
| `TextTokenizer` | the tokenizer, a function from texts to tokens | |
| `GatewayConfig` | options, configuration file, what the parts take from it, the binding of the SIP server | EXTENDS `TextTokenizer` |
| `TunnelSetup` | the creation of the tunnels, on a host whose commands and calls fail | EXTENDS `GatewayConfig` |
| `TunnelSetup_proofs` | proofs about the start as a whole: tokenizer, configuration, tunnels | |
| `SipText` | a SIP message on its connection, read, taken apart and answered | EXTENDS `TextTokenizer` |
| `SipText_proofs` | proofs about `SipText`: a request and its answer, of any number of lines | |
| `MCText` | instances of `TunnelSetup` and of `SipText` | a behaviour is a start or a request |
| `UdpTremu`, `MCUdpTremu`, `UdpTremu_proofs` | the traffic emulator's client and server, an instance, the proofs | |

### MpTunnel

State. `up`, `boot` and `next` are the process and its main thread's position
in the list of bearers; `devs`, `front`, `rpeer2dev` and `dev2mpTunnel` are the tables;
`xmit` and `recv` are the threads' program counters and
locals; `dup` is the static detector of the process; `tap`, `net` and `out`
are packets queued in a device, in flight, and announced. `written` and `idOf`
are auxiliary: what hosts have written, and the number a packet was sent with.

Actions. `AddBearer` and its failures are `addBearer`, which runs under the
manager's lock: `AddBearerNoTransport` (no socket), `AddBearerNoIf` (no
device), `AddBearerRefused` (remote address taken). The refused path is
destroyed; if it is a TCP path its connection thread has started and has not been
joined, so that `std::terminate` ends the process (`DropPath`).
`XmitGetPacket` .. `XmitSendFails` are the transmit thread: it takes the first
device of the hash table, blocks in `read`, counts, copies the list of paths under
the lock and sends on each. `RecvPoll` .. `RecvDies` are a receive thread:
poll, test-and-insert, announce. `Crash` and `Restart` are the process; `Lose`
and the choice in `RecvPoll` (keep a copy in flight) are the network.

A failed `recvfrom` is `RecvFails`. The code stores its -1 in a `size_t`
(`TunnelMgr.cc:161`, `191`), which passes the test of line 222. On UDP the thread then takes
eight bytes of its stack (`Junk`) for a packet number and enters that in the
detector, whether it was there or not. No packet comes out for it:
`announcePacket` limits the length to 65536 and stores it in a `uint16_t` (`VirtualIfMgr.cc:69`), which makes it 0, and the
device refuses an empty write. On GRE there is no number, and nothing changes. The thread goes on in either case;
only a failed `poll` ends it (`RecvDies`).

A bearer's socket is bound to a local address and to nothing else, and the thread does not
look at where a message comes from. `Sockets[g][b]` are the bearers of `g` on `b`'s
local address, and a message is *at* one of their sockets (`at`, by `Copies`): each raw GRE socket gets a
copy, and of the UDP sockets, which share a port through `SO_REUSEADDR`, the one the kernel
picks. What comes out then may come out of another tunnel (`LeadsTo`, `Exits`).

Abstractions. A packet is a model value. A digest and a flow are functions of
the packet. Which key comes first in an `unordered_map` is chosen anew
whenever a key is added. A TCP bearer is a bearer here like any other; how it
carries messages is `TcpConnectionMgr`. What crosses from that module to this
one is `Arrivals`: a faulty TCP bearer may deliver a message "cut" in its last
eight bytes, with zeroes for the missing bytes of its number, and deliver it
whole later. The detector then does not recognise the two as one packet, so
`AnnouncedOnce` and `PacketPath` promise nothing of cut copies. "Garbage" (a
buffer in which not even the packet is complete) is left out here. `MessageChannel`
is the contract between the two, proved of `TcpConnectionMgr`: a cut message comes before its
whole, if that comes. `Arrivals` lets the two come in either order, as on any faulty bearer.

### TcpConnectionMgr

A message is three units on the wire, its header, its data and the eight-byte
tail that the length in the header does not count; the reader can stop between any two,
as `runRecv` does with its timeouts. `half[c][e]` is what an end's side of a
connection has come to. Where the code compares `recv`'s -1 with an unsigned
length (line 170), the model pushes a message marked "garbage" or "cut", as the
code pushes its buffer. A new connection comes from the same configured port as the
one before, so TCP resets the server's old side (`Connect`).
The client's manager does not fail for good: `bind` and `connect` are repeated.

### LogicalIpAddrMgr

`generateIp` in its five outcomes: `GenerateKnown`, `GenerateFirst`,
`GenerateEvict`, `GenerateNew`, `GenerateRefused`, each one step because the
whole function holds the lock. `Tick` moves the system clock to any time, also
back. Invalid configurations are initial states too, since `main.cc:371`
ignores the result of `configure`.

The model shows two things that no document contradicts and a reader should know: an
expired address is reassigned although addresses never used remain (line 121 is
tried first), and a name's lease is never renewed, since a known name
returns early.

### SipServer and SipClient

One task per connection, as in the code: `Recv` .. `ResponseOther` are the
loop of `operator()`, `processRequest`, `forwardRequest`, `processResponse` and
`updateDns`; `Push`, `Pop`, `PopTimesOut` are `sendrecv`, and `Connect` .. `PushFull`
the client's thread. What two threads can
come between is a step: `updateDns` truncates the file, reads the names
and writes them in three; it does nothing when no file is configured (`HostsFile`) or the file does not open
(`DnsFails`). `RouteMgr::add` is two commands and so two steps, `DelRoute` and
`AddRoute`. Either may fail (at most `MaxFault` faults), the second also does when the first has left the
old route, and a task that gets on between them finds the address without a route. As in
the code, no failure changes the answer. An address is tested by its integer (`ToInt`), so address
0, with which a range that `configure` refused may begin, passes for a refusal. The calls of the address manager are those of
`LogicalIpAddrMgr`, one instance per gateway. A message is abstract: a
request is what the server's accessors find in its headers, an answer is the number of the
request whose headers it repeats, a code, and whether it came whole. Real
texts are the matter of `SipText`. Auxiliary: `prompt` and `late` (whether a `sendrecv` has
given up on an answer that may still come), `raced` (updates of the hosts file have overlapped),
`missed` (names whose own update has not been made since the file was opened last), `unrouted` (addresses
whose route a failed command has left away) and `faults`.

### TextTokenizer, GatewayConfig, TunnelSetup, SipText

A text is a sequence of symbols, each a character or a word that is nowhere
cut. `getTokenList` is a recursive function that applies `next` symbol by symbol, in the dialects of the configuration, of references, of
lists and of SIP. `GatewayConfig` then follows the program from its options
to `listen`: one action per statement of the file, one per row that is resolved.
`TunnelSetup` is `createTunnel` and `addBearer`, where each command or
call succeeds if it can, and may fail although it can (`Fails`, at most
`MaxFail` times): the host's interfaces are `kernel`, with the kernel's own GRE tunnels
and the devices of the gateway in one space of names; at the start they are any of `Leftovers`, which the
proofs leave open. A file's lines come
with what they say, from which `Says`, which has no state, gives the meaning that
the parser's result is compared with. `SipText` reads a message a
character at a time, parses its lines with the tokens, answers with
`SipResponse`, and lets the agent read the answer in the same way. What the requests of an instance may be
is `RequestsAssumption`, which TLC evaluates with the parser: lines without an end of line
in them, the first of which alone begins as a first line does; and in a *plain* request, each line read alone
says what its author meant. `StatusAssumption` is the parser's reading of the one status line the
server writes.

### UdpTremu

The client's options, its loop over a counter of 32 bits (`W` values in the
model), and runs one after another; the server's loop with its map of first
packets, its report after a silence, and the run (`epochId`) it has
reported last, until a failed `poll` or `recvfrom` ends it without a report (`ServerEnd`). The network loses, duplicates,
reorders and delays. Times are in units of the limit of 1500 ms for intervals, and differ by `Tick` from one packet to the
next: the system clock may be set back. Numbers on the command line are those of `std::stoi` and
`std::stol` (`IntBound`, `LongBound`), negative ones too, cut to the option's width (`-c -1` is 2^32-1). The
loss, a difference of two words, is kept in an `int32_t` (`Signed`): from 2^31 on it is negative. That the words
themselves are printed by `%i` is formatting and left out.

## Runs

| Run | Configuration | Question and answer |
|---|---|---|
| `pair` | 2 packets, UDP (faulty, reads may fail) + TCP (working) bearer, threads fair | Does the tunnel keep its promise (`PathSpec`, `AnnouncedOnce`), discard duplicates only (`LoneDiscards`), and mask the faulty bearer (`Redundancy`)? Yes, but for a packet whose number a failed read has found on the stack: it is discarded. |
| `restart` | 1 packet, a UDP and a faulty TCP bearer, one restart per gateway, another tunnel with a UDP socket on the same local address and a TCP bearer whose remote address is taken | Do the tables agree in every state (`TablesAgree`), and do restarts and shared sockets keep the promise? Yes. |
| `gre` | 3 packets (2 ICMP), 2 GRE bearers, history of length 1 | Does forgetting digests let a second copy through? No (`IcmpAnnouncedOnce`), for packets told apart by their digest, and none is taken for another (`LoneDiscards`). |
| `tcp` | 2 messages, 3 connections, 2 network failures, queues of 1 | `InOrderOnce`, `Lossless`, `ClientDrains` hold, the bearer is a `MessageChannel` (`ChannelSpec`), and nothing deadlocks before the messages are used up. |
| `logical_ip` | 4 names; ranges of 1, 3, 4 addresses, an inverted one, none; a clock of 5 values | All the table's properties hold. |
| `sip` | an agent on an operator gateway, one on a network gateway; 2 requests; ranges of 1 and 2 addresses | Are answers matched (`OwnAnswer`), and does every wait end (`Answered`, `JoinEnds`)? Yes, within the limits the properties state. |
| `sipfault` | as `sip`, with 2 failures of route commands or of opening the hosts file, also a range of addresses 0 and 1 | Are registrations true and the hosts file complete (`Registered`, `HostsComplete`), but for the route or the update that a failure hits? Yes. |
| `udptremu` | words of 4 values, 10 command lines, 2 runs, 1 duplicate, a clock that is set back | Does the client send what it was asked for and end (`SentExact`, `ClientEnds`), and is the report exact (`ReportExact`, `FailsBounded`, `Reported`)? Yes, but for a last number at the end of the word, and up to the sign of a loss of half a word. |
| `text` | files of up to 4 lines, files with tunnels and addresses, command lines, hosts with other interfaces; requests of up to 3 lines and one with every plain header | Is what is read what was written (`ReadsAsWritten`, `ServesAsWritten`, `LineByLine`, `RequestRead`, `EchoFaithful`), does a failure cost one bearer only (`FailuresContained`), and does the start end (`StartsUp`)? Yes, for plain texts. |
| `hub` | 2 operator gateways, 1 network gateway | Violated: packets never seen are discarded. |
| `twin` | 2 tunnels between two gateways | Violated: only the first device is served. |
| `logical_ip_names` | 4 names, 3 addresses | Violated: two names on one address. |

### Bounds

* `MaxBoot` restarts per gateway (1 in `restart`, 0 elsewhere): one is enough for a
  packet to survive its sender and for a detector to lose its memory.
* `MaxReadFail` failed reads of a device (1 in `restart`): a failed read
  consumes a packet number.
* Each host packet is written once. Two packets let numbers be confused and
  announcements be reordered; three fill and overflow a history of length one.
* Packet numbers are below 2^32 in `Arrivals`, where the code has 64 bits.
* `Junk` is what a failed read finds: {1} in `pair`, the number of the first packet, where it does
  most harm; elsewhere no read fails.
* `MaxMsg` = 2, `MaxConn` = 3, `MaxFault` = 2 with queues of length 1: enough
  for a message to fail, to be sent again, to fail again and to succeed on a third
  connection while a second message is dropped or waits.
* `MaxClock` = 4 with a time to live of 1: a lease can expire several times
  over, and the clock can step back behind several entries.
* `sip`: `MaxReq` = 2 requests of a session and `MaxAll` = 2 of both (the second can meet the first one's late answer),
  `MaxConn` = 2 connections per client (a lost one is replaced), `MaxSlow` = 1 receive
  timeout, `MaxIdle` = 1 connection closed for being idle, `Hangup` the agent that may
  hang up. With 1 address the second registration exhausts the range.
* `sipfault`: `MaxFault` = 2, so that the command that deletes a route and the one that adds it can fail for one
  request. It is a run of its own because liveness with faults is too large for TLC.
* `udptremu`: `W` = 4 makes the counter wrap; `MaxRun` = 2 lets packets
  of one run reach the next one's report; `MaxRecv` = 3 fills a collection of three
  or two with a duplicate; `MaxNet` = 2 packets on the way can be reordered; `Tick` = {-1, 1} is a clock that goes on or
  back between any two packets, by less than the limit for an interval, which two ticks exceed; `IntBound` = 8 and `LongBound` = 16 let numbers be greater than the word.
* `text`: `MaxFail` = 1, so that each failure is seen by itself; `MCLeftovers` is no interface, a kernel GRE
  tunnel of a tunnel's name, and one of another name beside an interface that is no GRE tunnel; `BindMaxAttempts` = 2 for 60;
  the pools of lines in `MCText` have each kind of line once or twice, in
  every order up to three.

The proofs need none of the bounds to be small: they hold for all values of these constants.

### Fairness

Weak fairness of the code's own threads and nothing else: `Build` (main
thread), `Xmit` and each `Recv` in `MpTunnel`; `Manager` and `Receiver` of each end
in `TcpConnectionMgr`. They are operating system threads with no lock held
across a blocking call, so that a step that stays possible is taken. `Reset`
is fair as well: the answer of a host that is still there arrives, which is
what TCP's retransmission gives. Hosts, failures, crashes and restarts owe
nothing. `Redundancy` therefore needs a bearer outside `Faulty` and a receive
thread at its other end with a socket of its own, and a packet whose number is not in `Junk`, and says so in its
hypothesis; the `pair` run has no restarts, because a
crash of either gateway loses packets by design.

In `sip`, the tasks and the clients' threads are fair; the spurious wakeup of a
condition variable (`Wake`) and the agents are not. In `udptremu`, the
client's loop and the server's timeout are; the network is not, and packets may never come. `poll` times out only after a
silence, so the timeout is fair only while no client runs that never ends (`Timeout /\ ~Endless`): what the
others send comes to an end. In
`text`, the start goes on while it can (`GatewayFairness` is weak fairness of `StartNext`,
written out since `StartNext` changes the state whenever it is enabled).

Deadlock is checked in `tcp` and in `text`, whose stopped states stutter
explicitly. It is not in the others, which stop when every
packet of the instance has been handled, or every reader waits for one, as the real threads do.

## Proofs

`MpTunnel_proofs`, from `ConfigAssumption` and `HistoryAssumption` (types of
the configuration, finite history, finitely many bearers; sockets are shared within one of UDP and GRE only; otherwise
the sets of gateways, devices, bearers and packets, who shares whose sockets and what failed reads find are arbitrary):

* `TypeCorrect`: `Spec => []TypeOK`.
* `AtMostOnce`: `Spec => []AnnouncedOnce`.
* `Refinement`: `Spec => PathSpec`, the initial states and every step map to
  `PacketPath` with `offered <- written`, `delivered <- out`. The devices a packet may come out of are those of
  its own tunnel's other ends and of the tunnels that share their sockets (`Exits`).
* `TablesCorrect`: `Spec => []TablesAgree`. Its two parts, `PathTables` and `ThreadTables`,
  are inductive relative to `IInv`.
* `IcmpAtMostOnce`: `Spec => []IcmpAnnouncedOnce`.
* `LoneDiscardsDuplicates`: `Spec => LoneDiscards`, and from it `DuplicatesOnly`: if every
  gateway is in `Lone` and `Junk` is empty, `Spec /\ []NeverRestarted => OnlyDuplicatesDiscarded`.

`ArrivalsType` is what the proofs need of a cut message: it is still a message
of the same packet, on the same bearer, to the same end.

`AnnouncedOnce` is not inductive: it says nothing of a copy that is in flight
or in the hands of a thread. `IInv` follows the packet. A packet
is in one device at most and is read once, so it has one number (`IdInv`, `TapInv`,
`XmitInv`). Every copy carries that number and is at a socket that shares the address of one of the
packet's bearers (`TunnelInv`, `NetInv`, `RecvInv`; `CopiesAre` says so of what `Copies` puts on the network). And the number is in the
detector from before the packet is announced, with at most one thread between the
test and the announcement (`SeenInv`). That packets of two senders may share
a number does no harm here: a collision makes the detector discard more, never less
(`OnlyDuplicatesDiscarded` is what it breaks, in run `hub`), and so does a number that a failed read leaves. `Persists` and `TravelsOn`
say that what is known of a packet stays true in every step; after them there is one
lemma per part of `IInv`, with one step per action.

For ICMP packets on GRE bearers the detector is weaker: it forgets. `IcmpInv` therefore counts
the copies. A bearer that works carries one copy of a packet, to be sent, in flight
or under test, and never in two of these places (`CopyInv`, which needs that no list of paths names a
bearer twice: `PathsInv`, from `TablesAgree`). `Coming` is the set of bearers whose copy has not been
tested, and only shrinks (`CopyStep`). `DigestInv` relates it to the detector: with the
digest in the table at most one copy is to come; with the digest in the history none; and once the packet
has been handed on, either its digest is in the table or none is to come. So what the history
pushes out is the digest of a packet that is done (`PktEffect`, `AcceptFresh`,
`DiscardLast`), and `HandedInv` carries this to the announcement. The property is about the packets of `Paired`:
two bearers at most, since a third copy could come when the second has been forgotten, none
of them faulty, since a copy delivered twice is a third one, none with a shared socket where the packet arrives, since each
socket gets a copy (`OwnCopy`, `Landed`), and no second ICMP packet of the flow with the
same digest, since the two would count each other's copies. `DigestTellsHeaders` says when
that last condition holds.

`AnnouncedOnce` is met by a detector that discards everything, so the converse matters as much: what is discarded
was accepted before. Of the code that holds only in part. `hub` shows that two senders break it, and a sender that
is restarted counts from 1 again. `Lone` is the set of gateways for which the code's numbers and digests do
tell packets apart: one sender, no faulty TCP bearer that cuts a number short, no two ICMP packets with one digest. For
these `DiscardInv` says, while the sender has not been restarted, that its packets have different numbers, none
above its counter (`NumberInv`); that what arrives is whole (`WholeInv`); and that whatever is recorded in the
detector, the numbers of `Junk` aside, is the number or the digest of a packet that has been handed on (`RecordedInv`, by `HandedLasts`: what has been handed
on stays so until the process, and the detector with it, ends). `pair` is such a configuration; in `restart` and `hub` only
some gateways are in `Lone`.

`TcpConnectionMgr_proofs`, from `BoundAssumption`, for queues of any length and any
number of messages, connections and failures:

* `TypeCorrect`: `Spec => []TypeOK`.
* `InOrder`: `Spec => []InOrderOnce`.

A message is received whole when its tail is read where a tail is expected, so
`IInv` follows the tails. Those on their way carry growing numbers along a
connection and from one connection to the next (`PipeOrder`); what has been received is
behind them, and what the sender still has, in its queue, its retry queue or its hands, is ahead
(`Ahead`, `SenderOrder`). Two things keep a message from arriving twice. Whoever reads a tail has
read the header of the same message (`Framed`, `Reading`), which needs that nothing is
sent on a connection after a message that was cut (`SealedAfterCut`: the sender
has closed its side, or the receiver has gone). And the message that was cut,
and will be sent again, left no tail. That the connections follow
one another is `Places`: the client is on the last one, the server on an earlier
one or the same, and the ones between wait in the backlog. There is one lemma per action, and for the
receive thread one that sums up its ten actions (`ReceiverStep`).

On top of that invariant:

* `NothingLost`: `Spec => []Lossless`.
* `BearerIsChannel`: `Spec => ChannelSpec`.

For the first: while a connection has not failed and both ends have it open
(`Clear`), the units on their way in a direction are exactly the rest of the message
being read, one unit or two without a header, and then the three units of each
message sent after the ones begun (`Carries`), and the messages begun lead
those sent (`Leads`). Every action that could break this, a cut message, units lost
in flight, a header read late, a socket closed, takes the connection out of `Clear` for good,
so that nothing has to be said of what is left in it; on a clear connection a receive
thread can only read the next unit or stop (`ReadsClear`). A connection begins with nothing sent
or read (`Fresh`). The headers on their way are then every third unit, and
`CarriesHeads` turns this into the correspondence with the messages sent that `Lossless` asks for.

The refinement hides everything but `handed` and what `recvMessage` has returned (`got`).
Of the abstract steps only the return of a message has a condition (`Follows`), and it speaks of
cut messages too, which `InOrderOnce` does not; the invariant `CInv`
therefore follows every unit, not the tails only. Everything there is of a message stands
in one order: what has been received (`TakenOrder`), the message being read
(`CurrentOrder`), the units on their way, connection after connection (`UnitOrder`), and
the messages that the sender still has (`Offered`, `UnitsOffered`). From one of these to the next the number of
the message grows, or stays the same where the message has not been read whole: a message
that was cut can be sent again, and be cut again, but after its tail comes another one.
`CReceiver` is the step where the order is needed in full: what the receive thread pushes is
whole, cut or garbage, and is of the message it was reading (`Genuine`). `Returns` and `ChannelStep` map the steps.

`MpTunnel_proofs` also proves, from `WidthAssumption` and for words of any width,
`DigestTellsHeaders` and `PairTellsAddresses`. The digest is a number in a
positional system whose digits are the four fields, and `Digits` says that such a
number determines its digits. So what the detector forgets or keeps is
decided by those fields alone; two different packets of one flow that agree in all
four, which the checksum of the header makes rare, are outside the code's
reach, and `Paired` excludes them.

`LogicalIpAddrMgr_proofs`, from `ConfAssumption` only, for all names,
configurations and behaviours of the clock: `TypeCorrect`, `IndicesCorrect`,
`InRange`, `NoSpuriousRefusal`, `LeaseRespected`. The invariant
adds `NoGap`: the assigned addresses are the first ones of the range, since addresses are taken
from the start upwards and an evicted one is assigned again at once. It is what makes a
search that only looks *above* the latest entry's address complete. The lemmas `InsertAtProperties` and
`InsertOrdered` say what the insertion into the multimap preserves.

`SipTask_proofs` and `SipServer_proofs`, from `ServerAssumption` (kinds of the lease
ranges and of one bound) and `ClientAssumption`, for any sessions, names,
connections and requests:

* `TypeCorrect`: `Spec => []TypeOK`.
* `AnswersOwn`: `Spec => []OwnAnswer`.
* `RegistrationHolds`: `Spec => []Registered`.
* `HostsCorrect`: `Spec => []HostsComplete`.

None of the three is inductive, and all follow from one `IInv`, since what an answer
is worth depends on whose it is. It is stated one session at a time: a step
leaves every other session `Untouched`, and what sessions share only grows (`Grows`: the
requests sent, the names that have an address, the addresses that have a route or are owed one), so that an answer that has been given
stays worth its code. For a session:

* `Ordered`. The requests for which an answer can still come are at five places: told to the
  agent, fetched by its task, in the queue to the task, in the hands of the client
  or on its connection, and in the queue to the client. A request at an earlier place was sent before every
  request at a later one. The client's steps only move requests on (`Moves`), so
  nothing is answered twice or overtaken. That the client's connection carries one
  request only is `Hearing`; on a new connection there is nothing left of the
  old (`Place`).
* `Punctual`. Until a `sendrecv` has given up on an answer that still comes
  (`late`), what is at the last four places is the request its task waits for. So
  only then can an agent get an answer of an earlier request.
* `Turn`. The agent and its task take turns, so the answer that a task gives is
  to the last request.
* `Worths`, `Relayable`: every answer anywhere on the way is worth its code on the
  network gateway; one that an operator gateway's agent has got also on its own. `Routing`: the
  address of an update of the routes under way is the one its name has.

`Hosts` says who is inside `updateDns`: as long as no two are (`raced`), the
file is empty inside, and outside it holds every name that has an address, but for those in `missed` and those of
a task that has registered a name and is about to open the file. A route that was added is
there, or another task is between the two commands of a replacement, or one that failed has left the address in
`unrouted` (`Reached`). `Registered` uses two facts about the address manager, proved in
`LogicalIpAddrMgr_proofs`: `GenerateEffect` (a call takes no address from
anyone while none expires) and `FullRefuses` (in a full range it changes nothing).

`SipText_proofs`, from `RequestsAssumption` and `StatusAssumption`, for requests of any number and length
of lines, repeated headers and lines that are no headers included:

* `LinesInOrder`: `SipSpec => []LineByLine`.
* `RequestTaken`: `SipSpec => []RequestRead`.
* `AnswerEchoes`: `SipSpec => []EchoFaithful`.
* `ListsAgree`: `SipSpec => []HeadersAgree`, which is a part of `MCText`'s `TypeOK`.

What the parser makes of *one* line is assumed, as TLC computes it on the instance; what the server makes of
a *message* is proved from it. A text is a sequence of lines and perhaps a blank one (`Made`), with the place
where each ends (`Cut`); that `FlattenSeq` gives such a text is `Joining`, by the existence of a
recursive function (`Recursion`, `Steps`). The reader is at some place within one of the lines (`Reads`), and the place
determines the state of `crlf` up to carriage returns within a line (`InLine`), so that a line cannot end anywhere
but at its end and a message nowhere but at its blank line (`ReadsNext`, one lemma for both
directions). What `parseHeader` makes of the first lines is `After`: list and map are of the same headers (`Table`),
each a line of the text (`Listed`); where no name is repeated they are in the order of the lines, and all there if all
lines are headers (`InOrder`, `Complete`). An answer is lines again (`ReplyMade`, `AnswerLined`), so the same
lemmas serve for the agent. At the end, a line says in the message what it says alone, because a reader depends
only on the map's entry of its name (`TellsAlike`), and only a status line gives the code
(`ParseType`, from the definitions of all the parsers).

`UdpTremu_proofs`, from `TremuAssumption`, for words of any width, any command lines
and any number of runs, packets and duplicates:

* `TypeCorrect`: `Spec => []TypeOK`.
* `SendsExactly`: `Spec => []SentExact`.
* `ReportsExactly`: `Spec => []ReportExact`.
* `FailsCounted`: `Spec => []FailsBounded`.

A client whose last number is not the greatest of its word has sent exactly the numbers
below its counter (`Sending`), and `LastIdIs` is the arithmetic of the word. `OfRuns` says
of the packets on their way or received that those of one run agree on its bounds and
are within them, so a report cannot count more numbers than it expects; `RowsOK` that
every number received has one row, the first packet's, and that the times of rows are in the order of
those packets while the clock was not set back. Failures are counted over intervals, which are one fewer than rows, and
none is both too early and too late, whatever the clock does. `Signed` is undone by adding the word.

Two facts are about data of any size: what any command line gives are options
(`LineOptions`, which also shows that the recursion over the line defines something), and rows of different
numbers can be put in order (`RowsSort`). The induction theorems of the library take an operator, which the provers
here cannot instantiate; the proofs take the set of the numbers for which the claim
fails instead, and `WFMin` gives its least member (`Least`, `Steps`).

`TunnelSetup_proofs`, from `ConfigAssumption` (the types of a file's lines, of the
command line and of the environment, and nothing about what they say), for any
text, any number of tunnels and bearers, any interfaces the kernel may have already, and any number of failures:

* `FailuresAreContained`: `StartSpec => []FailuresContained`.
* `SetupTypeCorrect`: `StartSpec => []SetupTypeOK`, which is a part of `MCText`'s `TypeOK`.

`FailuresContained` counts, at the end, the bearers without a path and the interfaces without a
route. `IInv` counts them among the bearers that `createTunnel` has come past (`Done`):
`Lost` and `Bare` together never exceed the failures (`Costs`). Every step adds at most one member to
one of the two, and only when it counts a failure (`Charge`, `CostsCharged`), because
what serves a bearer or hinders it stays so: no step takes a path away, and no step changes an
interface but that of the tunnel in creation (`Monotone`, `LostWithin`, `BareWithin`). A bearer whose
transport cannot be made, or whose address is taken, is hindered by one whose path is there already
(`NotMade`, `HinderedByPath`), which needs that every path is that of another bearer of the
configuration (`Paths`). An abort has its reason in the step that aborts (`Explained`).

That bearers can be counted at all needs that they form a list, and so that the text of any
file gives typed tokens (`TokensTyped`, by way of `Recursion`, the existence of what a recursive
function defines), the tokens texts as values (`ParsedKept`), and these the lists that `parseCfg`
builds (`ListTyped`, `BearersListed`). Every symbol that the code itself writes into a token is named in
`Symbol`, since a string literal is no member of `STRING` to the provers.

`SetupTypeOK` holds in every state, also where the start has failed, of which `IInv` says nothing; its invariant `TInv` is of its
own. An open device is that of a tunnel created or in creation (`Interfaces`), so that `ip tunnel del` before another
tunnel leaves it alone; and an address enters the table with its path (`Peers`).

Model-checked only:

* `Redundancy`, `ClientDrains` and the fairness they rest on (liveness is beyond the prover).
* `Answered` and `JoinEnds` of `SipServer`, `ClientEnds` and `Reported` of `UdpTremu` (liveness).
* `StartsUp` of `GatewayConfig` and `TunnelSetup` (liveness).
* `ReadsAsWritten` and `ServesAsWritten`: each says that what the configuration's parser makes of a text is
  what the text was made from, for every text. That is an induction over texts with the whole grammar as its
  hypothesis; the induction theorems are out of reach, and `Recursion`, which shows a way around them, has been used for
  the tokens' types and for the lines of a SIP message only.
* What the parser makes of one SIP line, that is `RequestsAssumption` and `StatusAssumption` on the lines of the instance.
* `TypeOK` of `MCText`, which bounds the variables of the two parts in one instance (its `HeadersAgree` and `SetupTypeOK` are proved; `GatewayTypeOK` and the rest of `SipTypeOK` rest on folds).

## Findings

1. `hub`: one static detector serves all tunnels and all senders count from
   zero, so a gateway with two peers (or a peer that has restarted) takes
   new packets for duplicates (`TunnelMgr.cc:145`, `237`, `305`).
2. `twin`: the single transmit thread reads `_devs.begin()` only
   (`VirtualIfMgr.cc:84`).
3. `logical_ip_names`: an expired address goes to a new name while the old
   name's entry stays in the table and in the hosts file.

### Observations

What the models show, or had to say, that no document contradicts and that a
reader of the code should know:

* *Tunnels.* The branch for a failed read of a UDP or GRE socket (`TunnelMgr.cc:268`) is never taken, since the length is
  unsigned; the number that the thread finds on its stack enters the detector, and the packet that has this number is discarded
  when it comes. GRE sockets of one local address each get every message that comes there, so that a
  packet of one tunnel is also announced on the other's device, though nothing fails. The example configuration in
  `TunnelBuilder.cc` lists two bearers with one remote address, and `addBearer` refuses the second.
* *Start.* An exception after a tunnel has got a path (no port to bind, a tunnel
  without bearers as root) destroys the tunnel manager, whose destructor joins a thread
  that never ends (`MpTunnel.h:284`): the process hangs, and `StartsUp` allows for it. A TCP
  bearer that cannot be used terminates the process of a gateway. Two TCP
  bearers of a tunnel with one local address cannot both listen. When
  the kernel's GRE interface is made but not configured, the retry that the
  comment at `TunnelBuilder.cc:127` announces cannot succeed, since the name is
  taken; and a kernel tunnel without a local address has neither address nor route.
  `-p 70000` is cut to 16 bits; a `-p` without value at the end is ignored; `bind` is tried
  one time more than its maximum says. A tunnel without bearers fails the start of
  root only, and other failures of bearers fail no start.
* *Configuration.* The name space at the start of a file is "global", while "[]"
  selects "". `x =` at the end of a line has the line end as its value,
  `x=v#n` loses its value, and "[]" at the end of a file is a syntax
  error. A reference that cannot be resolved leaves the value of an earlier
  assignment; a reference to what is assigned below it is resolved before that is. A tunnel
  that is listed twice has its bearers twice. Numbers in lists are dropped.
* *SIP.* A header's value is that of its first key in alphabetical order. Of a
  repeated header the server reads the first, which the map keeps, and answers with the last, which the list keeps
  (`SipParsedMessage.cc:59-69`). When a route command fails, or the hosts file does not open, the answer is
  200 all the same, and a name whose address is 0 is neither routed by the operator gateway nor written to the hosts file. A Via without
  a port is an error. An answer to a request of one line has no blank line. Blanks at the end of an `x-tunnel`
  are part of its name. An INVITE is refused unless its To has a "host" key. A REGISTER
  without contact registers the empty name. With the range exhausted the answer is still 200.
  The destructor of a client whose thread waits in `pop` hangs until a spurious wakeup.
* *udptremu.* A client whose last number is 2^32-1 never ends, as with `-c -1` and no `-x`. A loss of 2^31 packets or more is reported
  as a negative number. Packets that come in order while the clock is set back are reported out of order. A failed `sendto` is not
  noticed. `--help` names `-np` for two options that are `-ol` and
  `-ll`. A late packet of a run already reported starts a collection
  that is reported with the next run's, or never.

## Not modelled

* Two packets that agree in all the fields of the digest; the contents of packets, sizes of buffers.
* The data races on `_devs`, `_connected` and the walk of the name table: each access is one step.
* The memory of the detector's set of packet numbers, which only grows (`IpPacketParser.h:151`).
* A write to the hosts file that fails after the file was opened, and whether `dnsmasq` reloads it.
* A time to live near 2^64 milliseconds, which overflows the expiry (`LogicalIpAddrMgr.cc:106`).
* `delMpTunnel` and the searches, sublists and replacements of `TokenList`, which nothing calls.
* `Logger`, `Terminal`, help texts, signal handlers.
* A response code without a text (`SipResponse.cc:43`): the server uses none. Configuration
  files that end in the middle of a name, after which the tokenizer's behaviour is undefined.
* `udptremu`: latency, jitter, rates; packets shorter than their header, which an assertion stops.
* The copies of `acsgw`'s utilities under `src/udptremu`, which repeat them, and the
  scripts.

## Plan

1. Written and checked: all components above. Proved: the tunnels' invariants and
   refinement, that a TCP bearer implements `MessageChannel` and loses nothing on a sound
   connection, the address table, the digest, the registrar, the traffic emulator, that failures
   of a start are contained, the types of its tables, and that a SIP request and its answer are
   read as their lines say.
2. `MpTunnel` over `MessageChannel`: its TCP bearers are coarser than the channel today, they also repeat and
   reorder.
3. The parsers' types (`TypeOK` of `MCText`), and that a single line of the configuration or of a SIP message
   is read as written, which is where the grammar itself comes in.
