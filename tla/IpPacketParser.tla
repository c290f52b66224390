--------------------------- MODULE IpPacketParser ---------------------------
(***************************************************************************)
(* What the duplicate detector reads of an IPv4 header, and the numbers it *)
(* makes of it: the pair of addresses that chooses the table, and the      *)
(* digest that is looked up in it (net/filter/IpPacketParser.h).           *)
(*                                                                         *)
(* Shifts by 16 bits are products with W and | of disjoint bits is +.      *)
(***************************************************************************)
EXTENDS Naturals

CONSTANT W  \* 2^16, the values of a 16-bit field

ASSUME WidthAssumption == W \in Nat \ {0}

Word == 0 .. W - 1

Ip4Header == [length: Word, ident: Word, fragment: Word, checksum: Word,
              protocol: Nat, src_addr: 0 .. W * W - 1, dest_addr: 0 .. W * W - 1]

isIcmp(h) == h.protocol = 1

\* fragment holds the flags too: the fragments of one datagram are told apart.
makeUniqueId(h) ==
  (h.ident * W + h.fragment) * (W * W) + (h.length * W + h.checksum)

SrcDestPair(h) == h.src_addr * (W * W) + h.dest_addr
=============================================================================
