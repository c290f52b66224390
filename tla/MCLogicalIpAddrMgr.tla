------------------------- MODULE MCLogicalIpAddrMgr -------------------------
(***************************************************************************)
(* Instances of LogicalIpAddrMgr: ranges of one, three and four addresses, *)
(* one that is empty, and the configuration without a range.               *)
(***************************************************************************)
EXTENDS LogicalIpAddrMgr

Conf_(f, l) == [first |-> f, last |-> l, ttl |-> 1]
Ranges == {Conf_(1, 3), Conf_(2, 5), Conf_(4, 4), Conf_(3, 1), Conf_(0, 0)}
Small == {Conf_(1, 3)}
=============================================================================
