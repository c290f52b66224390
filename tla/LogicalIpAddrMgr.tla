-------------------------- MODULE LogicalIpAddrMgr --------------------------
(***************************************************************************)
(* The registrar's table of logical addresses (utils/LogicalIpAddrMgr.cc): *)
(* host names are given addresses of a configured range, and an address    *)
(* whose time to live has passed may be given to another name.             *)
(*                                                                         *)
(* The tasks that serve SIP connections call generateIp concurrently; the  *)
(* whole of it runs under the manager's lock, so a call is one step.  The  *)
(* system clock may go forwards by any amount, and backwards.              *)
(*                                                                         *)
(* _ipByTime is a multimap: entries are in the order of their times, and   *)
(* those of one time in the order they were inserted.  The expiry stored   *)
(* in _ipByAddr is never read, only its keys are; expiry times are assumed *)
(* to fit their 64 bits.                                                   *)
(***************************************************************************)
EXTENDS Integers, SequencesExt

CONSTANTS
  Name,       \* host names
  Conf,       \* configurations [first, last, ttl], the invalid ones included
  MaxClock    \* bound: the clock stays within 0..MaxClock

ASSUME ConfAssumption ==
  /\ Conf \subseteq [first: Nat, last: Nat, ttl: Nat]
  /\ MaxClock \in Nat

NoIp == -1

VARIABLES
  conf,       \* _firstip, _lastip and _defaultTTL, in milliseconds
  ipByTime,   \* _ipByTime
  ipByAddr,   \* the keys of _ipByAddr
  name2ip,    \* _name2ipTbl, NoIp where it has no entry
  now,        \* system_clock::now()
  reply       \* result of the last generateIp: [name, ip], NoIp when it fails

vars == <<conf, ipByTime, ipByAddr, name2ip, now, reply>>

\* configure, called once before any server starts; its result is ignored, so
\* the table works with an invalid range as well.
Init ==
  /\ conf \in Conf
  /\ ipByTime = << >>
  /\ ipByAddr = {}
  /\ name2ip = [n \in Name |-> NoIp]
  /\ now = 0
  /\ reply \in [name: Name, ip: {NoIp}]

Valid == conf.first > 0 /\ conf.first <= conf.last

-----------------------------------------------------------------------------
Entry(ip) == [at |-> now + conf.ttl, ip |-> ip]

\* Mutant: an entry is put at the end, whatever the clock says.
InsertLast(s, e, t) == t = Append(s, e)

\* multimap::insert: behind the entries that are not later.
InsertByTime(s, e, t) ==
  \E k \in 0 .. Len(s) :
    /\ \A i \in 1 .. k : s[i].at <= e.at
    /\ \A i \in k + 1 .. Len(s) : s[i].at > e.at
    /\ t = InsertAt(s, k + 1, e)

Assign(n, ip) ==
  /\ name2ip' = [name2ip EXCEPT ![n] = ip]
  /\ reply' = [name |-> n, ip |-> ip]
  /\ UNCHANGED <<conf, now>>

\* Known: the name keeps its address, and its lease is not renewed.
GenerateKnown(n) ==
  /\ name2ip[n] # NoIp
  /\ reply' = [name |-> n, ip |-> name2ip[n]]
  /\ UNCHANGED <<conf, ipByTime, ipByAddr, name2ip, now>>

\* Mutant: the range starts one too low.
GenerateBefore(n) ==
  /\ name2ip[n] = NoIp
  /\ ipByTime = << >>
  /\ ipByTime' = <<Entry(conf.first - 1)>>
  /\ ipByAddr' = ipByAddr \cup {conf.first - 1}
  /\ Assign(n, conf.first - 1)

GenerateFirst(n) ==
  /\ name2ip[n] = NoIp
  /\ ipByTime = << >>
  /\ ipByTime' = <<Entry(conf.first)>>
  /\ ipByAddr' = ipByAddr \cup {conf.first}
  /\ Assign(n, conf.first)

\* Mutant: the time of the assignment is taken for the time of its end.
EvictableAtOnce == ipByTime # << >> /\ ipByTime[1].at - conf.ttl < now

\* The entry that expires first.
Evictable == ipByTime # << >> /\ ipByTime[1].at < now

\* The evicted address gets a new lease; the name that had it is not told, and
\* keeps its entry in the name table.
GenerateEvict(n) ==
  LET ip == ipByTime[1].ip IN
  /\ name2ip[n] = NoIp
  /\ Evictable
  /\ InsertByTime(Tail(ipByTime), Entry(ip), ipByTime')
  /\ ipByAddr' = (ipByAddr \ {ip}) \cup {ip}
  /\ Assign(n, ip)

\* The search for a free address starts behind the address of the latest entry
\* and goes up; it stops at the end of the range.
Latest == ipByTime[Len(ipByTime)].ip

Finds(ip) ==
  /\ Latest < conf.last
  /\ ip > Latest /\ ip \notin ipByAddr
  /\ \A a \in Latest + 1 .. ip - 1 : a \in ipByAddr /\ a < conf.last

\* Mutant: the search gives up at the first address that is taken.
ExhaustedEarly == Latest >= conf.last \/ Latest + 1 \in ipByAddr

Exhausted == \/ Latest >= conf.last
             \/ \A a \in Latest + 1 .. conf.last : a \in ipByAddr

\* Mutant: the next address is taken without a look at the end of the range.
GeneratePastEnd(n) ==
  LET ip == Latest + 1 IN
  /\ name2ip[n] = NoIp
  /\ ipByTime # << >> /\ ~Evictable /\ ip \notin ipByAddr
  /\ InsertByTime(ipByTime, Entry(ip), ipByTime')
  /\ ipByAddr' = ipByAddr \cup {ip}
  /\ Assign(n, ip)

GenerateNew(n) ==
  /\ name2ip[n] = NoIp
  /\ ipByTime # << >> /\ ~Evictable
  /\ \E ip \in Latest + 1 .. conf.last :
       /\ Finds(ip)
       /\ InsertByTime(ipByTime, Entry(ip), ipByTime')
       /\ ipByAddr' = ipByAddr \cup {ip}
       /\ Assign(n, ip)

Refuses(n) == /\ name2ip[n] = NoIp
              /\ ipByTime # << >> /\ ~Evictable
              /\ Exhausted

GenerateRefused(n) ==
  /\ Refuses(n)
  /\ reply' = [name |-> n, ip |-> NoIp]
  /\ UNCHANGED <<conf, ipByTime, ipByAddr, name2ip, now>>

\* resolveIp leaves the table alone and is not called; what is left is time.
Tick == /\ now' \in 0 .. MaxClock
        /\ UNCHANGED <<conf, ipByTime, ipByAddr, name2ip, reply>>

Generate(n) == \/ GenerateKnown(n) \/ GenerateFirst(n) \/ GenerateEvict(n)
               \/ GenerateNew(n) \/ GenerateRefused(n)

Next == Tick \/ \E n \in Name : Generate(n)

Spec == Init /\ [][Next]_vars

-----------------------------------------------------------------------------
(***************************************************************************)
(* Properties.                                                             *)
(***************************************************************************)
Lease == [at: Nat, ip: Nat]

\* The type invariant.
TypeOK ==
  /\ conf \in Conf
  /\ ipByTime \in Seq(Lease)
  /\ ipByAddr \subseteq Nat
  /\ name2ip \in [Name -> Nat \cup {NoIp}]
  /\ now \in 0 .. MaxClock
  /\ reply \in [name: Name, ip: Nat \cup {NoIp}]

Ips(s) == {s[i].ip : i \in DOMAIN s}

Ordered(s) ==
  \A i, j \in DOMAIN s : /\ s[i].ip = s[j].ip => i = j
                         /\ i < j => s[i].at <= s[j].at

\* The two indices hold the same addresses, each once, and _ipByTime is in the
\* order of its times, so that its first entry is the one to evict (lines
\* 111-112, 124-127, 152-153).
IndicesAgree ==
  /\ ipByAddr = Ips(ipByTime)
  /\ Ordered(ipByTime)

\* A name that was given an address has one of the assigned addresses, and when
\* the configuration is valid, one of the range.
NamesInRange ==
  \A n \in Name : name2ip[n] # NoIp =>
    /\ name2ip[n] \in ipByAddr
    /\ Valid => name2ip[n] \in conf.first .. conf.last

\* Addresses are taken from the start of the range upwards and never given up:
\* the assigned ones are the first of the range.
NoGap ==
  /\ \A a \in ipByAddr : \A b \in conf.first .. a : b \in ipByAddr
  /\ \A a \in ipByAddr : a >= conf.first /\ (Valid => a <= conf.last)

\* generateIp fails only if there is no address it could give: every address of
\* the range is assigned, and the time to live of none has passed (lines
\* 121-149), although the search looks at no address below the latest one's.
RefusedOnlyWhenFull ==
  \A n \in Name : Refuses(n) /\ Valid =>
    /\ conf.first .. conf.last \subseteq ipByAddr
    /\ \A i \in DOMAIN ipByTime : ipByTime[i].at >= now

\* As long as its time to live has not passed, an address that a name was given
\* is not given to another name (acsgw.cfg, lines 25-26).
NoEarlyReassignment ==
  [][\A m, n \in Name :
       /\ name2ip[m] # NoIp /\ name2ip[n] = NoIp
       /\ name2ip'[n] = name2ip[m]
       => \A i \in DOMAIN ipByTime :
            ipByTime[i].ip = name2ip[m] => ipByTime[i].at < now]_vars

\* A logical address belongs to one host name: the registrar gives it to a
\* specific one, and its table is what the DNS server serves (acsgw.cfg, lines
\* 18-19).
OneNamePerAddress ==
  \A m, n \in Name : name2ip[m] # NoIp /\ name2ip[m] = name2ip[n] => m = n

\* What the proofs rest on: NamesInRange and RefusedOnlyWhenFull follow from
\* NoGap and the order of _ipByTime.
IInv == TypeOK /\ IndicesAgree /\ NoGap /\ NamesInRange
=============================================================================
