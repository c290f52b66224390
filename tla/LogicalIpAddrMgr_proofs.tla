----------------------- MODULE LogicalIpAddrMgr_proofs -----------------------
(***************************************************************************)
(* Proofs about LogicalIpAddrMgr: its type invariant, that its two indices *)
(* agree, that addresses stay in the range, that a request is refused only *)
(* when the range is full, and that no address is reassigned early.        *)
(***************************************************************************)
EXTENDS LogicalIpAddrMgr, SequenceTheorems, TLAPS

\* The community modules' InsertAt, position by position.
LEMMA InsertAtProperties ==
  \A s \in Seq(Lease), e \in Lease : \A k \in 0 .. Len(s) : \A t :
    t = InsertAt(s, k + 1, e) =>
      /\ t \in Seq(Lease) /\ Len(t) = Len(s) + 1
      /\ \A i \in 1 .. k : t[i] = s[i]
      /\ t[k + 1] = e
      /\ \A i \in k + 1 .. Len(s) : t[i + 1] = s[i]
<1> SUFFICES ASSUME NEW s \in Seq(Lease), NEW e \in Lease, NEW k \in 0 .. Len(s),
                    NEW t, t = InsertAt(s, k + 1, e)
             PROVE  /\ t \in Seq(Lease) /\ Len(t) = Len(s) + 1
                    /\ \A i \in 1 .. k : t[i] = s[i]
                    /\ t[k + 1] = e
                    /\ \A i \in k + 1 .. Len(s) : t[i + 1] = s[i]
  OBVIOUS
<1> DEFINE a == SubSeq(s, 1, k)  b == SubSeq(s, k + 1, Len(s))
<1>0. Len(s) \in Nat /\ \A i \in 1 .. Len(s) : s[i] \in Lease
  OBVIOUS
<1>1. /\ a \in Seq(Lease) /\ Len(a) = k
      /\ \A i \in 1 .. k : a[i] = s[i]
  <2>1. \A i \in 1 .. k : s[i] \in Lease BY <1>0
  <2> QED BY <2>1, SubSeqProperties
<1>2. /\ b \in Seq(Lease) /\ Len(b) = Len(s) - k
      /\ \A i \in 1 .. Len(s) - k : b[i] = s[k + i]
  <2>1. \A i \in k + 1 .. Len(s) : s[i] \in Lease BY <1>0
  <2>2. /\ SubSeq(s, k + 1, Len(s)) \in Seq(Lease)
        /\ Len(SubSeq(s, k + 1, Len(s))) = IF k + 1 <= Len(s) THEN Len(s) - (k + 1) + 1 ELSE 0
        /\ \A i \in 1 .. Len(s) - (k + 1) + 1 : SubSeq(s, k + 1, Len(s))[i] = s[k + 1 + i - 1]
    <3>1. k + 1 \in Int /\ Len(s) \in Int BY <1>0
    <3> QED BY <2>1, <3>1, SubSeqProperties
  <2> HIDE DEF b
  <2> QED BY <1>0, <2>2 DEF b
<1>3. InsertAt(s, k + 1, e) = a \o <<e>> \o b
  <2>1. (k + 1) - 1 = k OBVIOUS
  <2>2. InsertAt(s, k + 1, e) = SubSeq(s, 1, (k + 1) - 1) \o <<e>> \o b
    BY DEF InsertAt
  <2> QED BY <2>1, <2>2
<1> HIDE DEF a, b
<1>4. /\ a \o <<e>> \in Seq(Lease) /\ Len(a \o <<e>>) = k + 1
      /\ \A i \in 1 .. k : (a \o <<e>>)[i] = s[i]
      /\ (a \o <<e>>)[k + 1] = e
  BY <1>1
<1> DEFINE c == a \o <<e>>
<1>5. /\ c \o b \in Seq(Lease) /\ Len(c \o b) = Len(c) + Len(b)
      /\ \A i \in 1 .. Len(c) + Len(b) :
           (c \o b)[i] = IF i <= Len(c) THEN c[i] ELSE b[i - Len(c)]
  BY <1>2, <1>4, ConcatProperties
<1> HIDE DEF c
<1>6. InsertAt(s, k + 1, e) = c \o b /\ Len(c) = k + 1 /\ Len(c) + Len(b) = Len(s) + 1
  <2>1. InsertAt(s, k + 1, e) = c \o b BY <1>3 DEF c
  <2>2. Len(c) = k + 1 BY <1>4 DEF c
  <2> QED BY <1>0, <1>2, <2>1, <2>2
<1>7. (\A i \in 1 .. k : c[i] = s[i]) /\ c[k + 1] = e
  BY <1>4 DEF c
<1>8. \A i \in 1 .. k : (c \o b)[i] = s[i]
  BY <1>0, <1>5, <1>6, <1>7
<1>9. (c \o b)[k + 1] = e
  BY <1>0, <1>5, <1>6, <1>7
<1>10. ASSUME NEW i \in k + 1 .. Len(s) PROVE (c \o b)[i + 1] = s[i]
  <2>1. i - k \in 1 .. Len(s) - k /\ i + 1 \in 1 .. Len(c) + Len(b) /\ ~(i + 1 <= Len(c))
        /\ (i + 1) - Len(c) = i - k /\ k + (i - k) = i
    BY <1>0, <1>6
  <2> QED BY <1>2, <1>5, <2>1, ZenonT(60)
<1>11. t = c \o b
  BY <1>6
<1> QED BY <1>5, <1>6, <1>8, <1>9, <1>10, <1>11

\* multimap::insert keeps the order, and adds one address.
LEMMA InsertOrdered ==
  ASSUME NEW s \in Seq(Lease), NEW e \in Lease, NEW t, InsertByTime(s, e, t),
         Ordered(s), e.ip \notin Ips(s)
  PROVE  t \in Seq(Lease) /\ t # << >> /\ Ordered(t) /\ Ips(t) = Ips(s) \cup {e.ip}
<1>1. PICK k \in 0 .. Len(s) :
        /\ \A i \in 1 .. k : s[i].at <= e.at
        /\ \A i \in k + 1 .. Len(s) : s[i].at > e.at
        /\ t = InsertAt(s, k + 1, e)
  BY DEF InsertByTime
<1>2. /\ t \in Seq(Lease) /\ Len(t) = Len(s) + 1
      /\ \A i \in 1 .. k : t[i] = s[i]
      /\ t[k + 1] = e
      /\ \A i \in k + 1 .. Len(s) : t[i + 1] = s[i]
  <2>1. t = InsertAt(s, k + 1, e) /\ k \in 0 .. Len(s) /\ s \in Seq(Lease) /\ e \in Lease
    BY <1>1
  <2>2. \A k0 \in 0 .. Len(s) : \A t0 :
          t0 = InsertAt(s, k0 + 1, e) =>
            /\ t0 \in Seq(Lease) /\ Len(t0) = Len(s) + 1
            /\ \A i \in 1 .. k0 : t0[i] = s[i]
            /\ t0[k0 + 1] = e
            /\ \A i \in k0 + 1 .. Len(s) : t0[i + 1] = s[i]
    BY InsertAtProperties, Zenon
  <2>3. \A t0 :
          t0 = InsertAt(s, k + 1, e) =>
            /\ t0 \in Seq(Lease) /\ Len(t0) = Len(s) + 1
            /\ \A i \in 1 .. k : t0[i] = s[i]
            /\ t0[k + 1] = e
            /\ \A i \in k + 1 .. Len(s) : t0[i + 1] = s[i]
    BY <2>2, Zenon
  <2> QED BY <2>1, <2>3, Zenon
<1>3. Len(s) \in Nat /\ DOMAIN s = 1 .. Len(s) /\ DOMAIN t = 1 .. Len(s) + 1
  BY <1>2
<1>a. \A i \in DOMAIN s : s[i] \in Lease
  BY <1>3
<1>b. \A i \in DOMAIN s : s[i].at \in Nat /\ s[i].ip # e.ip
  BY <1>a DEF Lease, Ips
<1>c. e.at \in Nat BY DEF Lease
\* Where a position of t comes from.
<1>4. ASSUME NEW i \in DOMAIN t
      PROVE  \/ i \in 1 .. k /\ i \in DOMAIN s /\ t[i] = s[i]
             \/ i = k + 1 /\ t[i] = e
             \/ i > k + 1 /\ i - 1 \in k + 1 .. Len(s) /\ i - 1 \in DOMAIN s /\ t[i] = s[i - 1]
  <2>1. CASE i <= k BY <1>2, <1>3, <2>1
  <2>2. CASE i = k + 1 BY <1>2, <2>2
  <2>3. CASE i > k + 1
    <3>1. i - 1 \in k + 1 .. Len(s) /\ (i - 1) + 1 = i BY <1>3, <2>3
    <3> QED BY <1>2, <1>3, <2>3, <3>1
  <2> QED BY <1>3, <2>1, <2>2, <2>3
<1>5. ASSUME NEW i \in DOMAIN t, NEW j \in DOMAIN t, t[i].ip = t[j].ip PROVE i = j
  <2>1. \A x, y \in DOMAIN s : s[x].ip = s[y].ip => x = y BY DEF Ordered
  <2> QED BY <1>3, <1>4, <1>5, <1>b, <2>1
<1>6. ASSUME NEW i \in DOMAIN t, NEW j \in DOMAIN t, i < j PROVE t[i].at <= t[j].at
  <2>1. \A x, y \in DOMAIN s : x < y => s[x].at <= s[y].at BY DEF Ordered
  <2>2. /\ \A x \in DOMAIN s : s[x].at \in Nat
        /\ \A x \in 1 .. k : s[x].at <= e.at
        /\ \A x \in k + 1 .. Len(s) : e.at <= s[x].at
    BY <1>1, <1>3, <1>b, <1>c
  <2>3. CASE i <= k
    <3>1. t[i] = s[i] /\ i \in DOMAIN s BY <1>3, <1>4, <2>3
    <3>2. CASE j <= k BY <1>3, <1>4, <1>6, <2>1, <3>1, <3>2
    <3>3. CASE j = k + 1 BY <1>3, <1>4, <2>2, <2>3, <3>1, <3>3
    <3>4. CASE j > k + 1
      <4>1. i < j - 1 /\ j - 1 \in DOMAIN s /\ t[j] = s[j - 1]
        BY <1>3, <1>4, <2>3, <3>4
      <4> QED BY <2>1, <3>1, <4>1
    <3> QED BY <1>3, <3>2, <3>3, <3>4
  <2>4. CASE i = k + 1
    <3>1. t[i] = e /\ t[j] = s[j - 1] /\ j - 1 \in k + 1 .. Len(s)
      BY <1>3, <1>4, <1>6, <2>4
    <3> QED BY <2>2, <3>1
  <2>5. CASE i > k + 1
    <3>1. /\ t[i] = s[i - 1] /\ i - 1 \in DOMAIN s /\ i - 1 < j - 1
          /\ t[j] = s[j - 1] /\ j - 1 \in DOMAIN s
      BY <1>3, <1>4, <1>6, <2>5
    <3> QED BY <2>1, <3>1
  <2> QED BY <1>3, <2>3, <2>4, <2>5
<1>7. Ips(t) = Ips(s) \cup {e.ip}
  <2>1. Ips(t) \subseteq Ips(s) \cup {e.ip}
    BY <1>4 DEF Ips
  <2>2. ASSUME NEW i \in DOMAIN s PROVE s[i].ip \in Ips(t)
    <3>1. CASE i <= k
      <4>1. i \in DOMAIN t /\ t[i] = s[i] BY <1>2, <1>3, <3>1
      <4> QED BY <4>1 DEF Ips
    <3>2. CASE i > k
      <4>1. i + 1 \in DOMAIN t /\ t[i + 1] = s[i] BY <1>2, <1>3, <3>2
      <4> QED BY <4>1 DEF Ips
    <3> QED BY <1>3, <3>1, <3>2
  <2>3. e.ip \in Ips(t)
    <3>1. k + 1 \in DOMAIN t BY <1>3
    <3> QED BY <1>2, <3>1 DEF Ips
  <2> QED BY <2>1, <2>2, <2>3 DEF Ips
<1>8. t # << >> BY <1>2, <1>3
<1> QED BY <1>2, <1>5, <1>6, <1>7, <1>8 DEF Ordered

\* Taking the first entry away keeps the order, and removes its address.
LEMMA TailOrdered ==
  ASSUME NEW s \in Seq(Lease), s # << >>, Ordered(s)
  PROVE  Tail(s) \in Seq(Lease) /\ Ordered(Tail(s)) /\ Ips(Tail(s)) = Ips(s) \ {s[1].ip}
<1>1. /\ Tail(s) \in Seq(Lease) /\ DOMAIN Tail(s) = 1 .. Len(s) - 1
      /\ Len(s) \in Nat \ {0} /\ DOMAIN s = 1 .. Len(s)
      /\ \A i \in 1 .. Len(s) - 1 : Tail(s)[i] = s[i + 1]
  OBVIOUS
<1> DEFINE t == Tail(s)
<1> HIDE DEF t
<1>2. \A i \in DOMAIN t : i + 1 \in DOMAIN s /\ t[i] = s[i + 1]
  BY <1>1 DEF t
<1>3. Ordered(t)
  BY <1>1, <1>2 DEF Ordered, t
<1>4. ASSUME NEW i \in DOMAIN s, i # 1 PROVE s[i].ip \in Ips(t)
  <2>1. i - 1 \in DOMAIN t /\ t[i - 1] = s[i] BY <1>1, <1>4 DEF t
  <2> QED BY <2>1 DEF Ips
<1>5. s[1].ip \notin Ips(t)
  BY <1>1, <1>2 DEF Ips, Ordered, t
<1>6. Ips(t) \subseteq Ips(s)
  BY <1>2 DEF Ips
<1>7. Ips(s) \subseteq Ips(t) \cup {s[1].ip}
  BY <1>4 DEF Ips
<1> QED BY <1>1, <1>3, <1>5, <1>6, <1>7 DEF t

-----------------------------------------------------------------------------
LEMMA EntryType ==
  ASSUME TypeOK, NEW ip \in Nat
  PROVE  Entry(ip) \in Lease /\ Entry(ip).ip = ip
<1>1. conf.ttl \in Nat /\ now \in Nat
  BY ConfAssumption DEF TypeOK
<1> QED BY <1>1 DEF Entry, Lease

LEMMA ConfType == TypeOK => conf.first \in Nat /\ conf.last \in Nat
BY ConfAssumption DEF TypeOK

\* The entries of _ipByTime are leases, and its first and last exist.
LEMMA Leases ==
  ASSUME TypeOK, ipByTime # << >>
  PROVE  /\ 1 \in DOMAIN ipByTime /\ Len(ipByTime) \in DOMAIN ipByTime
         /\ \A i \in DOMAIN ipByTime : /\ ipByTime[i].ip \in Nat /\ ipByTime[i].at \in Nat
                                       /\ i >= 1 /\ i \in Nat
<1>1. ipByTime \in Seq(Lease)
  BY DEF TypeOK
<1>2. \A i \in DOMAIN ipByTime : ipByTime[i] \in Lease
  BY <1>1
<1> QED BY <1>1, <1>2 DEF Lease

LEMMA AddrInit == Init => IInv
<1> SUFFICES ASSUME Init PROVE IInv OBVIOUS
<1>1. TypeOK BY ConfAssumption DEF Init, TypeOK, NoIp
<1>2. IndicesAgree BY DEF Init, IndicesAgree, Ips, Ordered
<1>3. NoGap /\ NamesInRange BY DEF Init, NoGap, NamesInRange
<1> QED BY <1>1, <1>2, <1>3 DEF IInv

\* A name gets one of the assigned addresses.
LEMMA AssignKeeps ==
  ASSUME IInv, NEW n \in Name, NEW ip \in Nat, Assign(n, ip),
         ipByTime' \in Seq(Lease), ipByAddr' = Ips(ipByTime'), Ordered(ipByTime'),
         ipByAddr' = ipByAddr \cup {ip}, NoGap'
  PROVE  IInv'
<1>t. TypeOK /\ NamesInRange /\ conf' = conf /\ now' = now
  BY DEF IInv, Assign
<1>1. TypeOK'
  BY <1>t DEF TypeOK, Assign
<1>2. NamesInRange'
  <2>1. name2ip' = [name2ip EXCEPT ![n] = ip] /\ name2ip \in [Name -> Nat \cup {NoIp}]
    BY <1>t DEF Assign, TypeOK
  <2>2. \A a \in ipByAddr' : Valid' => a \in conf.first .. conf.last
    <3>1. \A a \in ipByAddr' : a \in Nat BY <1>1 DEF TypeOK
    <3>2. \A a \in ipByAddr' : a >= conf.first /\ (Valid' => a <= conf.last)
      BY <1>t DEF NoGap
    <3> QED BY <1>t, ConfType, <3>1, <3>2
  <2>3. \A m \in Name : name2ip'[m] # NoIp => name2ip'[m] \in ipByAddr'
    BY <1>t, <2>1 DEF NamesInRange
  <2> QED BY <1>t, <2>2, <2>3 DEF NamesInRange
<1> QED BY <1>1, <1>2 DEF IInv, IndicesAgree

LEMMA AddrStep == IInv /\ [Next]_vars => IInv'
<1> SUFFICES ASSUME IInv, [Next]_vars PROVE IInv' OBVIOUS
<1>t. /\ TypeOK /\ IndicesAgree /\ NoGap /\ NamesInRange
      /\ ipByTime \in Seq(Lease) /\ ipByAddr = Ips(ipByTime) /\ Ordered(ipByTime)
      /\ ipByAddr \subseteq Nat
  BY DEF IInv, TypeOK, IndicesAgree
<1>c. conf.first \in Nat /\ conf.last \in Nat
  BY <1>t, ConfType
<1>s. ASSUME UNCHANGED <<conf, ipByTime, ipByAddr, name2ip>>, now' \in 0 .. MaxClock,
             reply' \in [name: Name, ip: Nat \cup {NoIp}]
      PROVE  IInv'
  BY <1>t, <1>s DEF IInv, TypeOK, IndicesAgree, NoGap, NamesInRange, Valid
<1>n. now \in 0 .. MaxClock /\ reply \in [name: Name, ip: Nat \cup {NoIp}]
      /\ \A n \in Name : name2ip[n] \in Nat \cup {NoIp}
  BY <1>t DEF TypeOK
<1>1. ASSUME NEW n \in Name, GenerateKnown(n) \/ GenerateRefused(n) PROVE IInv'
  BY <1>1, <1>n, <1>s DEF GenerateKnown, GenerateRefused
<1>2. ASSUME NEW n \in Name, GenerateFirst(n) PROVE IInv'
  <2> DEFINE ip == conf.first  e == Entry(ip)
  <2>1. e \in Lease /\ e.ip = ip /\ ip \in Nat
    BY <1>c, <1>t, EntryType
  <2>2. /\ ipByTime = << >> /\ ipByTime' = <<e>> /\ ipByAddr' = ipByAddr \cup {ip}
        /\ Assign(n, ip) /\ conf' = conf
    BY <1>2 DEF GenerateFirst, Assign
  <2>3. ipByAddr = {}
    BY <1>t, <2>2 DEF Ips
  <2> HIDE DEF e
  <2>4. ipByTime' \in Seq(Lease) /\ ipByAddr' = Ips(ipByTime') /\ Ordered(ipByTime')
    BY <2>1, <2>2, <2>3 DEF Ips, Ordered
  <2>5. NoGap'
    BY <1>c, <2>1, <2>2, <2>3 DEF NoGap, Valid
  <2> QED BY <2>1, <2>2, <2>4, <2>5, AssignKeeps
<1>3. ASSUME NEW n \in Name, GenerateEvict(n) PROVE IInv'
  <2> DEFINE ip == ipByTime[1].ip  e == Entry(ip)  s == Tail(ipByTime)
  <2>1. /\ ipByTime # << >> /\ InsertByTime(s, e, ipByTime')
        /\ ipByAddr' = (ipByAddr \ {ip}) \cup {ip} /\ Assign(n, ip) /\ conf' = conf
    BY <1>3 DEF GenerateEvict, Evictable, Assign
  <2>2. ip \in Nat /\ ip \in ipByAddr
    BY <1>t, <2>1, Leases DEF Ips
  <2>3. e \in Lease /\ e.ip = ip
    BY <1>t, <2>2, EntryType
  <2>4. s \in Seq(Lease) /\ Ordered(s) /\ Ips(s) = ipByAddr \ {ip}
    BY <1>t, <2>1, TailOrdered
  <2> HIDE DEF ip, e, s
  <2>5. ipByTime' \in Seq(Lease) /\ Ordered(ipByTime') /\ Ips(ipByTime') = Ips(s) \cup {ip}
    BY <2>1, <2>3, <2>4, InsertOrdered
  <2>6. ipByAddr' = ipByAddr /\ ipByAddr' = Ips(ipByTime') /\ ipByAddr' = ipByAddr \cup {ip}
    BY <2>1, <2>2, <2>4, <2>5
  <2>7. NoGap'
    BY <1>t, <2>1, <2>6 DEF NoGap, Valid
  <2> QED BY <2>1, <2>2, <2>5, <2>6, <2>7, AssignKeeps
<1>4. ASSUME NEW n \in Name, GenerateNew(n) PROVE IInv'
  <2>1. PICK ip \in Latest + 1 .. conf.last :
          /\ Finds(ip) /\ InsertByTime(ipByTime, Entry(ip), ipByTime')
          /\ ipByAddr' = ipByAddr \cup {ip} /\ Assign(n, ip)
    BY <1>4 DEF GenerateNew
  <2>2. ipByTime # << >> /\ conf' = conf
    BY <1>4, <2>1 DEF GenerateNew, Assign
  <2>3. Latest \in ipByAddr /\ Latest \in Nat
    BY <1>t, <2>2, Leases DEF Latest, Ips
  <2>4. ip \in Nat /\ ip <= conf.last /\ ip > Latest
    BY <1>c, <2>3
  <2>5. Entry(ip) \in Lease /\ Entry(ip).ip = ip
    BY <1>t, <2>4, EntryType
  <2>6. ip \notin Ips(ipByTime)
    BY <1>t, <2>1 DEF Finds
  <2>7. /\ ipByTime' \in Seq(Lease) /\ Ordered(ipByTime')
        /\ Ips(ipByTime') = Ips(ipByTime) \cup {ip}
    BY <1>t, <2>1, <2>5, <2>6, InsertOrdered
  <2>8. NoGap'
    <3>1. \A b \in conf.first .. Latest : b \in ipByAddr
      BY <1>t, <2>3 DEF NoGap
    <3>2. \A b \in Latest + 1 .. ip - 1 : b \in ipByAddr
      BY <2>1 DEF Finds
    <3>3. \A b \in conf.first .. ip : b \in ipByAddr'
      BY <1>c, <2>1, <2>3, <2>4, <3>1, <3>2
    <3>4. Latest >= conf.first
      BY <1>t, <2>3 DEF NoGap
    <3>5. ip >= conf.first
      BY <1>c, <2>3, <2>4, <3>4
    <3> QED BY <1>t, <2>1, <2>2, <2>4, <3>3, <3>5 DEF NoGap, Valid
  <2> QED BY <1>t, <2>1, <2>4, <2>7, <2>8, AssignKeeps
<1>5. ASSUME Tick PROVE IInv'
  BY <1>5, <1>n, <1>s DEF Tick
<1>6. ASSUME UNCHANGED vars PROVE IInv'
  BY <1>6, <1>n, <1>s DEF vars
<1> QED BY <1>1, <1>2, <1>3, <1>4, <1>5, <1>6 DEF Next, Generate

\* What a call does to the tables: a name that has an address keeps it, only the
\* name asked for gets one, addresses are never given up, and the reply is what
\* the table then says; NoIp only when the range is exhausted.
LEMMA GenerateEffect ==
  ASSUME IInv, NEW n \in Name, Generate(n)
  PROVE  /\ IInv' /\ conf' = conf
         /\ ipByAddr \subseteq ipByAddr' /\ ipByTime' # << >>
         /\ reply'.ip = name2ip'[n]
         /\ \A m \in Name : m # n \/ name2ip[m] # NoIp => name2ip'[m] = name2ip[m]
         /\ name2ip'[n] = NoIp => conf.first .. conf.last \subseteq ipByAddr'
<1>1. IInv'
  BY AddrStep DEF Next
<1>t. /\ ipByTime \in Seq(Lease) /\ ipByAddr = Ips(ipByTime) /\ ipByAddr \subseteq Nat
      /\ name2ip \in [Name -> Nat \cup {NoIp}] /\ NoGap /\ TypeOK
      /\ \A m \in Name : name2ip[m] # NoIp => name2ip[m] \in ipByAddr
      /\ conf.first \in Nat /\ conf.last \in Nat
  BY ConfType DEF IInv, TypeOK, IndicesAgree, NamesInRange
<1>u. /\ ipByAddr' = Ips(ipByTime') /\ name2ip' \in [Name -> Nat \cup {NoIp}]
      /\ \A m \in Name : name2ip'[m] # NoIp => name2ip'[m] \in ipByAddr'
  BY <1>1 DEF IInv, TypeOK, IndicesAgree, NamesInRange
<1>a. ASSUME NEW ip, Assign(n, ip), name2ip[n] = NoIp, ip \in Nat
      PROVE  /\ conf' = conf /\ reply'.ip = name2ip'[n]
             /\ name2ip'[n] # NoIp
             /\ \A m \in Name : m # n \/ name2ip[m] # NoIp => name2ip'[m] = name2ip[m]
  BY <1>a, <1>t DEF Assign, NoIp
<1>b. name2ip'[n] # NoIp => ipByTime' # << >>
  BY <1>u DEF Ips
<1>2. CASE GenerateKnown(n)
  BY <1>1, <1>b, <1>2 DEF GenerateKnown
<1>3. CASE GenerateFirst(n)
  BY <1>1, <1>a, <1>b, <1>t, <1>3 DEF GenerateFirst
<1>4. CASE GenerateEvict(n)
  <2>1. ipByTime[1].ip \in Nat /\ ipByTime[1].ip \in ipByAddr
    BY <1>t, <1>4, Leases DEF GenerateEvict, Evictable, Ips
  <2> QED BY <1>1, <1>a, <1>b, <1>4, <2>1 DEF GenerateEvict
<1>5. CASE GenerateNew(n)
  <2>1. PICK ip \in Latest + 1 .. conf.last : ipByAddr' = ipByAddr \cup {ip} /\ Assign(n, ip)
    BY <1>5 DEF GenerateNew
  <2>2. Latest \in Nat
    BY <1>t, <1>5, Leases DEF GenerateNew, Latest
  <2>3. ip \in Nat
    BY <1>t, <2>2
  <2> QED BY <1>1, <1>a, <1>b, <1>5, <2>1, <2>3 DEF GenerateNew
<1>6. CASE GenerateRefused(n)
  <2>1. /\ name2ip[n] = NoIp /\ ipByTime # << >> /\ Exhausted
        /\ reply'.ip = NoIp /\ UNCHANGED <<conf, ipByTime, ipByAddr, name2ip>>
    BY <1>6 DEF GenerateRefused, Refuses
  <2>2. Latest \in Nat /\ Latest \in ipByAddr
    BY <1>t, <2>1, Leases DEF Latest, Ips
  <2>3. conf.first .. Latest \subseteq ipByAddr
    BY <1>t, <2>2 DEF NoGap
  <2>4. conf.first .. conf.last \subseteq ipByAddr
    BY <1>t, <2>1, <2>2, <2>3 DEF Exhausted
  <2> QED BY <1>1, <2>1, <2>4
<1> QED BY <1>2, <1>3, <1>4, <1>5, <1>6 DEF Generate

\* While no lease can run out, an exhausted range gives no name an address.
LEMMA FullRefuses ==
  ASSUME IInv, now = 0, NEW n \in Name, Generate(n),
         ipByTime # << >>, conf.first .. conf.last \subseteq ipByAddr
  PROVE  name2ip' = name2ip
<1>t. /\ ipByTime \in Seq(Lease) /\ ipByAddr = Ips(ipByTime) /\ ipByAddr \subseteq Nat
      /\ NoGap /\ conf.first \in Nat /\ conf.last \in Nat /\ TypeOK
  BY ConfType DEF IInv, TypeOK, IndicesAgree
<1>1. ~Evictable
  BY <1>t, Leases DEF Evictable
<1>2. Latest \in Nat /\ Latest >= conf.first
  BY <1>t, Leases DEF Latest, Ips, NoGap
<1>3. \A ip \in Latest + 1 .. conf.last : ip \in ipByAddr
  BY <1>t, <1>2
<1>4. ~GenerateNew(n)
  BY <1>3 DEF GenerateNew, Finds
<1> QED BY <1>1, <1>4 DEF Generate, GenerateKnown, GenerateFirst, GenerateEvict, GenerateRefused

LEMMA AddrInvariance == Spec => []IInv
BY AddrInit, AddrStep, PTL DEF Spec

\* The address tables, the clock and the replies keep their kinds.
THEOREM TypeCorrect == Spec => []TypeOK
<1>1. IInv => TypeOK BY DEF IInv
<1> QED BY <1>1, AddrInvariance, PTL

\* The two indices of the assigned addresses never disagree, and the one by
\* time stays in order (generateIp, lines 111-153).
THEOREM IndicesCorrect == Spec => []IndicesAgree
<1>1. IInv => IndicesAgree BY DEF IInv
<1> QED BY <1>1, AddrInvariance, PTL

\* Every address a name has is one of the assigned ones and of the range.
THEOREM InRange == Spec => []NamesInRange
<1>1. IInv => NamesInRange BY DEF IInv
<1> QED BY <1>1, AddrInvariance, PTL

\* For every range and clock, a request is refused only when all addresses are
\* assigned and no lease has run out.
THEOREM NoSpuriousRefusal == Spec => []RefusedOnlyWhenFull
<1>1. IInv => RefusedOnlyWhenFull
  <2> SUFFICES ASSUME IInv, NEW n \in Name, Refuses(n), Valid
               PROVE  /\ conf.first .. conf.last \subseteq ipByAddr
                      /\ \A i \in DOMAIN ipByTime : ipByTime[i].at >= now
    BY DEF RefusedOnlyWhenFull
  <2>1. /\ TypeOK /\ ipByAddr = Ips(ipByTime) /\ Ordered(ipByTime) /\ NoGap
        /\ ipByTime # << >> /\ ~(ipByTime[1].at < now) /\ Exhausted /\ now \in Nat
    BY ConfAssumption DEF IInv, IndicesAgree, TypeOK, Refuses, Evictable
  <2>2. conf.first \in Nat /\ conf.last \in Nat
    BY <2>1, ConfType
  <2>3. Latest \in ipByAddr /\ Latest \in Nat
    BY <2>1, Leases DEF Latest, Ips
  <2>4. \A b \in conf.first .. Latest : b \in ipByAddr
    BY <2>1, <2>3 DEF NoGap
  <2>5. conf.first .. conf.last \subseteq ipByAddr
    BY <2>1, <2>2, <2>3, <2>4 DEF Exhausted
  <2>6. ASSUME NEW i \in DOMAIN ipByTime PROVE ipByTime[i].at >= now
    <3>1. 1 \in DOMAIN ipByTime /\ ipByTime[1].at \in Nat /\ ipByTime[i].at \in Nat
          /\ i \in Nat /\ i >= 1
      BY <2>1, Leases
    <3>2. 1 < i => ipByTime[1].at <= ipByTime[i].at
      BY <2>1, <3>1 DEF Ordered
    <3> QED BY <2>1, <3>1, <3>2
  <2> QED BY <2>5, <2>6
<1> QED BY <1>1, AddrInvariance, PTL

\* For every range and clock, no lease is given away before it has run out.
THEOREM LeaseRespected == Spec => NoEarlyReassignment
<1> DEFINE A == \A m, n \in Name :
                  /\ name2ip[m] # NoIp /\ name2ip[n] = NoIp
                  /\ name2ip'[n] = name2ip[m]
                  => \A i \in DOMAIN ipByTime :
                       ipByTime[i].ip = name2ip[m] => ipByTime[i].at < now
<1>1. IInv /\ [Next]_vars => [A]_vars
  <2> SUFFICES ASSUME IInv, Next, NEW m \in Name, NEW n \in Name,
                      name2ip[m] # NoIp, name2ip[n] = NoIp, name2ip'[n] = name2ip[m],
                      NEW i \in DOMAIN ipByTime, ipByTime[i].ip = name2ip[m]
               PROVE  ipByTime[i].at < now
    OBVIOUS
  <2>t. /\ TypeOK /\ ipByAddr = Ips(ipByTime) /\ Ordered(ipByTime) /\ NamesInRange
        /\ name2ip \in [Name -> Nat \cup {NoIp}] /\ ipByTime # << >>
    BY DEF IInv, IndicesAgree, TypeOK
  <2>1. ASSUME UNCHANGED name2ip PROVE FALSE
    BY <2>1
  <2>2. ASSUME NEW k \in Name, NEW ip, Assign(k, ip) PROVE k = n /\ name2ip[m] = ip
    BY <2>t, <2>2 DEF Assign
  <2>3. ASSUME NEW k \in Name, GenerateEvict(k) PROVE ipByTime[i].at < now
    <3>1. ipByTime[1].ip = ipByTime[i].ip /\ ipByTime[1].at < now
      BY <2>2, <2>3 DEF GenerateEvict, Evictable
    <3>2. 1 \in DOMAIN ipByTime BY <2>t, Leases
    <3> QED BY <2>t, <3>1, <3>2 DEF Ordered
  <2>4. ASSUME NEW k \in Name, GenerateNew(k) PROVE FALSE
    <3>1. PICK ip \in Latest + 1 .. conf.last : Finds(ip) /\ Assign(k, ip)
      BY <2>4 DEF GenerateNew
    <3>2. ip \notin ipByAddr /\ name2ip[m] = ip
      BY <2>2, <3>1 DEF Finds
    <3> QED BY <2>t, <3>2 DEF NamesInRange
  <2>5. ASSUME NEW k \in Name, GenerateFirst(k) PROVE FALSE
    BY <2>t, <2>5 DEF GenerateFirst
  <2> QED BY <2>1, <2>3, <2>4, <2>5
          DEF Next, Tick, Generate, GenerateKnown, GenerateRefused
<1>2. Spec => [][A]_vars
  BY <1>1, AddrInvariance, PTL DEF Spec
<1> QED BY <1>2 DEF NoEarlyReassignment
=============================================================================
