--------------------------- MODULE Ip4DupDetector ---------------------------
(***************************************************************************)
(* Ip4DupDetector (net/filter/IpPacketParser.h, Ip4DupDetector.cc), the    *)
(* object every receive thread of a process asks whether a packet has      *)
(* already arrived on another bearer.  It is two detectors in one: a set   *)
(* of packet numbers for UDP and TCP bearers, and for GRE bearers, per     *)
(* pair of addresses, a set of header digests with the history of the      *)
(* duplicates found, at most DUP_HISTORY_LEN long.                         *)
(*                                                                         *)
(* A detector is a record; each call is the pair of its answer and the     *)
(* record it leaves.  Both overloads run under the detector's mutex.       *)
(***************************************************************************)
EXTENDS Naturals, Sequences

CONSTANTS
  Flow,             \* Flow[p]: SrcDestPair of the header of p (IpPacketParser)
  UniqueId,         \* UniqueId[p]: makeUniqueId(p)
  Icmp,             \* the ICMP packets
  DUP_HISTORY_LEN   \* 10 in the code

ASSUME HistoryAssumption == DUP_HISTORY_LEN \in Nat

Range_(f) == {f[x] : x \in DOMAIN f}
Flows == Range_(Flow)

NewDetector == [ids  |-> {},
                tbl  |-> [f \in Flows |-> {}],
                hist |-> [f \in Flows |-> << >>]]

Detector == [ids: SUBSET Nat,
             tbl: [Flows -> SUBSET Range_(UniqueId)],
             hist: [Flows -> Seq(Range_(UniqueId))]]

\* Mutant: the number is tested but not recorded.
AfterIdForgets(det, id) == det

\* isADuplicated(id): insert, and a duplicate if it was there.
IdIsDuplicate(det, id) == id \in det.ids
AfterId(det, id) == [det EXCEPT !.ids = @ \cup {id}]

\* Mutant: a packet of the same flow is a duplicate.
PktOfSameFlow(det, p) == det.tbl[Flow[p]] # {}

\* isADuplicated(parser).
PktIsDuplicate(det, p) == UniqueId[p] \in det.tbl[Flow[p]]

\* Mutant: every packet enters the history, not only the duplicates.
AfterPktAll(det, p) ==
  LET f == Flow[p]  u == UniqueId[p]  h == Append(det.hist[f], u) IN
  IF Len(h) <= DUP_HISTORY_LEN
  THEN [det EXCEPT !.hist[f] = h, !.tbl[f] = @ \cup {u}]
  ELSE [det EXCEPT !.hist[f] = Tail(h), !.tbl[f] = (@ \cup {u}) \ {Head(h)}]

\* A duplicate enters the history; one too many, and the oldest leaves the
\* history and the table, and would be accepted again.
AfterPkt(det, p) ==
  LET f == Flow[p]  u == UniqueId[p]  h == Append(det.hist[f], u) IN
  CASE ~PktIsDuplicate(det, p) -> [det EXCEPT !.tbl[f] = @ \cup {u}]
    [] PktIsDuplicate(det, p) /\ Len(h) <= DUP_HISTORY_LEN ->
         [det EXCEPT !.hist[f] = h]
    [] OTHER -> [det EXCEPT !.hist[f] = Tail(h), !.tbl[f] = @ \ {Head(h)}]
=============================================================================
