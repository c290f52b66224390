----------------------------- MODULE PacketPath -----------------------------
(***************************************************************************)
(* What the gateways promise the hosts behind them, with bearers, threads  *)
(* and packet numbers hidden: a packet offered to a tunnel device may be   *)
(* delivered, in any order or not at all, to a device at the other end of  *)
(* the same tunnel and nowhere else; and if duplicates can be told on all  *)
(* the bearers of the tunnel, at most once by one run of the gateway, not  *)
(* counting what came from a message that had been cut short.              *)
(***************************************************************************)
EXTENDS Sequences

CONSTANTS Gateway, Dev, Packet,
          Exits,        \* Exits[p]: the ends of the tunnel p is offered to
          Filtered      \* packets whose copies are recognised on every bearer

VARIABLES offered,      \* packets handed to the tunnels
          delivered     \* delivered[g]: [dev, pkt, form] in order, by this run of g

vars == <<offered, delivered>>

Init == offered = {} /\ delivered = [g \in Gateway |-> << >>]

Offer(p) == /\ p \in Packet \ offered
            /\ offered' = offered \cup {p}
            /\ UNCHANGED delivered

Fresh(g, p) == \A i \in DOMAIN delivered[g] :
                 delivered[g][i].form = "whole" => delivered[g][i].pkt # p

Deliver(g, d, p, form) ==
  /\ p \in offered
  /\ [gw |-> g, dev |-> d] \in Exits[p]
  /\ p \in Filtered /\ form = "whole" => Fresh(g, p)
  /\ delivered' = [delivered EXCEPT ![g] =
                      Append(@, [dev |-> d, pkt |-> p, form |-> form])]
  /\ UNCHANGED offered

\* A gateway ends, and what it delivers next is a new run's.
Forget(g) == /\ delivered' = [delivered EXCEPT ![g] = << >>]
             /\ UNCHANGED offered

Next == \/ \E p \in Packet : Offer(p)
        \/ \E g \in Gateway : \/ Forget(g)
                              \/ \E d \in Dev, p \in Packet, form \in {"whole", "cut"} :
                                   Deliver(g, d, p, form)

Spec == Init /\ [][Next]_vars
=============================================================================
