----------------------------- MODULE MCSipServer -----------------------------
(* An instance of SipServer for TLC. *)
EXTENDS SipServer

Req(method, contact, from, to, host, tunnel, server) ==
  [method |-> method, contact |-> contact, from |-> from, to |-> to, host |-> host,
   tunnel |-> tunnel, server |-> server]

UserA   == Req("register", "a", "a", "", "", "t", FALSE)
ServerB == Req("register", "b", "b", "", "", "t", TRUE)
\* From only, and no tunnel.
FromA   == Req("register", "", "a", "", "", "", FALSE)
\* INVITE as scripts/invite_server_agent.sh sends it, and with ";host=b" in To.
Invite  == Req("invite", "", "a", "b", "", "t", FALSE)
InviteH == Req("invite", "", "a", "b", "b", "t", FALSE)

MCWish == [o |-> {UserA, InviteH}, n |-> {ServerB, FromA, Invite}]

MCLeases == [first: {1}, last: {1, 2}, ttl: {1}]
\* With address 0, which the servers take for no address.
MCAnyLeases == MCLeases \cup [first: {0}, last: {1}, ttl: {1}]
=============================================================================
