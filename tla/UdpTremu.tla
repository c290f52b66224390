------------------------------ MODULE UdpTremu ------------------------------
(***************************************************************************)
(* The traffic emulator (udptremu/main.cc): a client sends numbered packets*)
(* to a server, which reports what was lost, duplicated or came out of     *)
(* order once nothing has come for a while.                                *)
(*                                                                         *)
(* The client is run several times, one run after the other, against one   *)
(* server.  The network loses, duplicates, reorders and delays packets, so *)
(* that those of one run may come during the next.  A failed sendto is a   *)
(* loss: its -1, compared with a size_t (line 818), is never the smaller.  *)
(* The clock of the server may be set back at any time.  An option and its *)
(* long form are one token, and a number is a token without anything behind*)
(* it.  Words of 32 bits are reduced modulo W and words of 16 modulo P.    *)
(* Latency, jitter and rates are left out.                                 *)
(***************************************************************************)
EXTENDS Integers, SequencesExt, FiniteSetsExt, TLC

CONSTANTS
  W, P,          \* 2^32 and 2^16
  IntBound, LongBound,  \* 2^31 and 2^63: what std::stoi and std::stol read is less
  Tick,          \* milliseconds by which the server's clock moves between packets
  ClientLine,    \* command lines of the client: sequences of tokens
  ServerLine,    \* command lines of the server
  MaxRun,        \* bound: runs of the client
  MaxDup,        \* bound: duplicates of packets
  MaxNet,        \* bound: packets on the way at a time, more are dropped
  MaxRecv        \* bound: packets received

ASSUME TremuAssumption ==
  /\ {W, P, IntBound, LongBound, MaxRun, MaxDup, MaxNet, MaxRecv} \subseteq Nat
  /\ W > 1 /\ P > 1
  /\ Tick \subseteq Int
  /\ ClientLine \cup ServerLine \subseteq Seq(STRING)

VARIABLES
  srv,       \* the server's options and state of its loop
  stats,     \* _stats: [id, run, first, last, at], one record per id
  total,     \* size of _stats_with_duplicated
  now,       \* the server's clock, 0 at the first packet since the last report
  since,     \* auxiliary: packets since the last report, each with its time
  report,    \* the last report and the packets it is about, until the next one comes
  cl,        \* the client
  net,       \* packets on the way
  dups, recvs   \* duplicates made, packets received

vars == <<srv, stats, total, now, since, report, cl, net, dups, recvs>>

-----------------------------------------------------------------------------
(***************************************************************************)
(* The command line.                                                       *)
(***************************************************************************)
Default == [localAddr |-> "", serverAddr |-> "", localPort |-> 0,
            serverPort |-> 54321 % P, count |-> 100 % W, firstId |-> 1,
            interval |-> 1000 % P, pktSize |-> 128 % P, statsTimeout |-> 5 % P,
            onTimeLimit |-> 1, latencyLimit |-> 1,
            help |-> FALSE, serverMode |-> FALSE, error |-> FALSE, want |-> ""]

Option(tok) ==
  CASE tok = "-p" -> "serverPort"    [] tok = "-r" -> "serverAddr"
    [] tok = "-l" -> "localPort"     [] tok = "-b" -> "localAddr"
    [] tok = "-c" -> "count"         [] tok = "-i" -> "interval"
    [] tok = "-si" -> "statsTimeout" [] tok = "-ol" -> "onTimeLimit"
    [] tok = "-ll" -> "latencyLimit" [] tok = "-s" -> "pktSize"
    [] tok = "-x" -> "firstId"       [] OTHER -> ""

\* --version, like --help, ends the program; --verbose only prints more.
Flag(tok) == CASE tok \in {"-h", "-v"} -> "help" [] tok = "-S" -> "serverMode" [] OTHER -> ""

Words == {"count", "firstId"}

\* std::stol reads the words and the packet size, std::stoi the others.
Number(field, tok) ==
  LET Bound == IF field \in Words \cup {"pktSize"} THEN LongBound ELSE IntBound
  IN {n \in -Bound .. Bound - 1 : ToString(n) = tok}

\* A number that is negative or too large is cut to the option's bits.
Value(field, tok) ==
  (CHOOSE n \in Number(field, tok) : TRUE) % (IF field \in Words THEN W ELSE P)

\* One token: an option, or the value of the option before it.  std::stoi and
\* std::stol throw at what is not a number of their type.
Token(o, tok) ==
  IF o.error THEN o
  ELSE IF o.want \in {"localAddr", "serverAddr"} THEN [o EXCEPT ![o.want] = tok, !.want = ""]
  ELSE IF o.want # "" /\ Number(o.want, tok) = {} THEN [o EXCEPT !.error = TRUE]
  ELSE IF o.want # ""
       THEN [o EXCEPT ![o.want] = Value(o.want, tok), !.want = ""]
  ELSE IF Option(tok) # "" THEN [o EXCEPT !.want = Option(tok)]
  ELSE IF Flag(tok) # "" THEN [o EXCEPT ![Flag(tok)] = TRUE]
  ELSE [o EXCEPT !.error = tok # "-vv"]

\* A value that is missing at the end of the line is not an error.
ProgArgs(line) ==
  LET read[n \in 0 .. Len(line)] == IF n = 0 THEN Default ELSE Token(read[n - 1], line[n])
  IN read[Len(line)]

\* Program and run: whether the program gets to its loop.
Runs(o) == /\ ~o.error /\ ~o.help
           /\ o.serverAddr # "" \/ o.serverMode
           /\ o.serverPort # 0

\* Mutant: the last number is one too high.
LastIdOver(o) == (o.firstId + o.count) % W

LastId(o) == (o.firstId + o.count - 1) % W

\* Where a server listens.  Without -b it is any address: the one taken from -r
\* is then not used.
Port(o) == IF o.localPort = 0 THEN o.serverPort ELSE o.localPort
Listens(o, addr, port) == /\ Runs(o) /\ o.serverMode /\ port = Port(o)
                          /\ o.localAddr \in {"", addr}

-----------------------------------------------------------------------------
NoReport == [of |-> << >>, expected |-> 0, rx |-> 0, lost |-> 0, dup |-> 0,
             ooo |-> 0, over |-> 0]

Init ==
  /\ \E line \in ServerLine : srv = [o |-> ProgArgs(line), epoch |-> 0, last |-> 0, on |-> TRUE]
  /\ cl = [o |-> Default, pc |-> "off", run |-> 0, i |-> 0, sent |-> {}, twice |-> FALSE]
  /\ stats = {} /\ total = 0 /\ now = 0 /\ since = << >>
  /\ report = NoReport
  /\ net = {} /\ dups = 0 /\ recvs = 0

serverVars == <<srv, stats, total, now, since, report, dups, recvs>>

\* A new process: its epoch is the time of its first packet, its run here.
ClientStart ==
  /\ cl.pc \in {"off", "done"} /\ cl.run < MaxRun
  /\ \E line \in ClientLine :
       LET o == ProgArgs(line) IN
       cl' = [o |-> o, pc |-> IF Runs(o) /\ ~o.serverMode THEN "send" ELSE "off",
              run |-> cl.run + 1, i |-> o.firstId, sent |-> {}, twice |-> FALSE]
  /\ UNCHANGED <<serverVars, net>>

\* The process's first time stamp tells its packets from those of other runs.
forgeNewPacket(i) ==
  [run |-> cl.run, id |-> i, first |-> cl.o.firstId, last |-> LastId(cl.o)]

\* Mutant: the counter is a shorter word than the last number.
SendShort ==
  /\ cl.pc = "send" /\ cl.i <= LastId(cl.o) /\ ~cl.twice
  /\ cl' = [cl EXCEPT !.i = (@ + 1) % 2, !.twice = cl.i \in cl.sent]
  /\ UNCHANGED <<serverVars, net>>

\* The counter wraps when the last number is the greatest of its word, and the
\* loop does not end (bound: it is followed to the first number sent twice).
Send ==
  LET p == forgeNewPacket(cl.i) IN
  /\ cl.pc = "send" /\ cl.i <= LastId(cl.o) /\ ~cl.twice
  /\ cl' = [cl EXCEPT !.i = (@ + 1) % W, !.sent = @ \cup {cl.i},
                      !.twice = @ \/ cl.i \in cl.sent]
  /\ net' = IF /\ srv.on /\ Listens(srv.o, cl.o.serverAddr, cl.o.serverPort)
                /\ Cardinality(net) < MaxNet
             THEN net \cup {p} ELSE net
  /\ UNCHANGED serverVars

ClientEnd ==
  /\ cl.pc = "send" /\ cl.i > LastId(cl.o)
  /\ cl' = [cl EXCEPT !.pc = "done"]
  /\ UNCHANGED <<serverVars, net>>

\* A client that never ends: the next number always fits.
Endless == cl.pc = "send" /\ LastId(cl.o) = W - 1

Lose == /\ \E p \in net : net' = net \ {p}
        /\ UNCHANGED <<serverVars, cl>>

-----------------------------------------------------------------------------
(***************************************************************************)
(* The server's loop, which waits for a packet or its timeout.             *)
(***************************************************************************)

Stat(p, at) == [id |-> p.id, run |-> p.run, first |-> p.first, last |-> p.last, at |-> at]

\* Mutant: every packet becomes a row.
ReceiveRow ==
  \E p \in net :
    /\ srv.on /\ recvs < MaxRecv /\ recvs' = recvs + 1
    /\ stats' = stats \cup {Stat(p, recvs)}
    /\ total' = total + 1
    /\ since' = Append(since, Stat(p, recvs))
    /\ srv' = [srv EXCEPT !.epoch = p.run]
    /\ UNCHANGED <<net, dups, now, report, cl>>

\* map::insert keeps the first packet of an id, the multimap keeps them all.
Receive ==
  \E p \in net, ms \in Tick :
    /\ srv.on /\ recvs < MaxRecv /\ recvs' = recvs + 1
    /\ now' = IF since = << >> THEN 0 ELSE now + ms
    /\ stats' = IF \E s \in stats : s.id = p.id THEN stats
                ELSE stats \cup {Stat(p, now')}
    /\ total' = total + 1
    /\ since' = Append(since, Stat(p, now'))
    /\ srv' = [srv EXCEPT !.epoch = p.run]
    /\ \/ net' = net \ {p} /\ UNCHANGED dups
       \/ net' = net /\ dups < MaxDup /\ dups' = dups + 1
    /\ report' = NoReport
    /\ UNCHANGED cl

\* poll or recvfrom fails: the loop ends, and the program with it, without a
\* report; what is on its way finds no one.
ServerEnd ==
  /\ srv.on /\ srv' = [srv EXCEPT !.on = FALSE]
  /\ stats' = {} /\ total' = 0 /\ now' = 0 /\ since' = << >> /\ net' = {}
  /\ report' = NoReport
  /\ UNCHANGED <<cl, dups, recvs>>

\* The rows in the order of their ids.
Rows == CHOOSE r \in [1 .. Cardinality(stats) -> stats] :
          \A i, j \in DOMAIN r : i < j => r[i].id < r[j].id

\* A 32-bit word assigned to an int32_t.
Signed(n) == IF 2 * n < W THEN n ELSE n - W

\* Mutant: all packets are taken for rows.
PrintAll(rows) ==
  LET expected == (rows[1].last - rows[1].first + 1) % W IN
  [of |-> since, expected |-> expected, rx |-> total,
   lost |-> Signed((expected - total) % W), dup |-> total - Len(rows), ooo |-> 0, over |-> 0]

\* Mutant: the first row has an interval too.
PrintFirst(rows) ==
  LET expected == (rows[1].last - rows[1].first + 1) % W
      Interval(i) == IF i = 1 THEN rows[1].at ELSE rows[i].at - rows[i - 1].at
  IN [of |-> since, expected |-> expected, rx |-> Len(rows),
      lost |-> Signed((expected - Len(rows)) % W), dup |-> total - Len(rows),
      ooo  |-> Cardinality({i \in 1 .. Len(rows) : Interval(i) < 0}),
      over |-> Cardinality({i \in 1 .. Len(rows) : Interval(i) > srv.o.onTimeLimit})]

\* printStats: the interval of a row is the time since the row before it.  The
\* counters are words, and the difference of two of them becomes an int32_t.
printStats(rows) ==
  LET expected == (rows[1].last - rows[1].first + 1) % W
      pktCount == Len(rows) % W
      Interval(i) == rows[i].at - rows[i - 1].at
  IN [of |-> since, expected |-> expected, rx |-> pktCount,
      lost |-> Signed((expected - pktCount) % W), dup |-> (total - pktCount) % W,
      ooo  |-> Cardinality({i \in 2 .. Len(rows) : Interval(i) < 0}),
      over |-> Cardinality({i \in 2 .. Len(rows) : Interval(i) > srv.o.onTimeLimit})]

\* Mutant: a run is taken to be newer than the one reported last.
TimeoutNewer ==
  /\ srv.on /\ stats # {} /\ srv.last < srv.epoch
  /\ report' = printStats(Rows)
  /\ stats' = {} /\ total' = 0
  /\ srv' = [srv EXCEPT !.last = srv.epoch]
  /\ since' = << >> /\ now' = 0
  /\ UNCHANGED <<cl, net, dups, recvs>>

\* Nothing has come for statsTimeout: what is on its way then takes longer, and
\* what a client sends meanwhile is lost or late.  A packet of the run reported
\* last that comes afterwards starts a new collection, and as long as it is the
\* latest there is no report.
Timeout ==
  /\ srv.on /\ stats # {} /\ srv.last # srv.epoch
  /\ report' = printStats(Rows)
  /\ stats' = {} /\ total' = 0
  /\ srv' = [srv EXCEPT !.last = srv.epoch]
  /\ since' = << >> /\ now' = 0
  /\ UNCHANGED <<cl, net, dups, recvs>>

Client == ClientStart \/ Send \/ ClientEnd
Next == Client \/ Lose \/ Receive \/ ServerEnd \/ Timeout

\* An endless client may keep poll from ever timing out; the packets of the
\* others come to an end.
Spec == /\ Init /\ [][Next]_vars
        /\ WF_vars(Send \/ ClientEnd) /\ WF_vars(Timeout /\ ~Endless)

-----------------------------------------------------------------------------
(***************************************************************************)
(* Properties.                                                             *)
(***************************************************************************)
\* The type invariant.
TypeOK ==
  /\ srv.epoch \in 0 .. MaxRun /\ srv.last \in 0 .. MaxRun
  /\ stats \subseteq [id: 0 .. W - 1, run: 1 .. MaxRun, first: 0 .. W - 1,
                      last: 0 .. W - 1, at: Int]
  /\ Cardinality({s.id : s \in stats}) = Cardinality(stats)
  /\ total >= Cardinality(stats) /\ total = Len(since)
  /\ cl.pc \in {"off", "send", "done"} /\ cl.run \in 0 .. MaxRun /\ cl.i \in 0 .. W - 1
  /\ net \subseteq [run: 1 .. MaxRun, id: 0 .. W - 1, first: 0 .. W - 1, last: 0 .. W - 1]

\* A client that has come to its end has sent the numbers it was asked for, each
\* once, or none when they do not fit the word (lines 803, 847).
SentExact ==
  cl.pc = "done" =>
    /\ ~cl.twice
    /\ cl.sent = IF cl.o.firstId + cl.o.count > W THEN {}
                 ELSE cl.o.firstId .. cl.o.firstId + cl.o.count - 1

\* A client ends, unless its last number is the greatest of the word.
ClientEnds == \A r \in 1 .. MaxRun :
  cl.run = r /\ cl.pc = "send" /\ LastId(cl.o) # W - 1 ~> cl.pc = "done"

Ids(s) == {s[i].id : i \in DOMAIN s}
FirstAt(s, id) == Min({i \in DOMAIN s : s[i].id = id})

\* What a report says of one run's packets is what has come of that run since
\* the last report: numbers received, numbers missing and duplicates are counted
\* apart, but a loss of 2^31 or more is printed as a negative number; and nothing
\* is called out of order that came in order, while the clock was not set back
\* (lines 617-743).
ReportExact ==
  LET of == report.of
      Missing == Cardinality((of[1].first .. of[1].last) \ Ids(of))
  IN /\ of # << >> /\ of[1].last # W - 1
     /\ \A i \in DOMAIN of : of[i].run = of[1].run
     =>
       /\ report.rx = Cardinality(Ids(of))
       /\ report.lost = IF 2 * Missing < W THEN Missing ELSE Missing - W
       /\ report.dup = (Len(of) - Cardinality(Ids(of))) % W
       /\ /\ \A i, j \in DOMAIN of : i < j => of[i].at <= of[j].at
          /\ \A a, b \in Ids(of) : a < b => FirstAt(of, a) < FirstAt(of, b)
          => report.ooo = 0

\* A report never counts more failures than it has intervals, also when a late
\* packet of another run is among its rows and when the clock is set back: a row
\* is not both too early and too late (the number of rows is less than 2^32).
FailsBounded ==
  report.of # << >> /\ Cardinality(Ids(report.of)) < W => report.ooo + report.over < report.rx

\* What has been received is reported, unless the server has ended, a client
\* never ends or the latest packet is one of the run that was reported last
\* (lines 541-582).
Reported == stats # {} ~> \/ stats = {} \/ ~srv.on \/ Endless
                          \/ srv.epoch = srv.last
=============================================================================
