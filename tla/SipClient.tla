------------------------------ MODULE SipClient ------------------------------
(***************************************************************************)
(* The client through which an operator gateway forwards the requests of   *)
(* one agent's session (sip/SipClient.cc), and the TCP connections that    *)
(* carry SIP messages.                                                     *)
(*                                                                         *)
(* A request is its number in its session; an answer is a record with the  *)
(* number of the request it answers.  A message is sent whole and may be   *)
(* received in parts.  A peer that has closed its socket is noticed by the *)
(* first recv and by the second send.                                      *)
(***************************************************************************)
EXTENDS Integers, Sequences

CONSTANTS
  Session,     \* sessions of agents with a gateway
  OgSession,   \* those with the operator gateway: each has a client of its own
  MaxReq,      \* bound: requests of a session
  MaxConn,     \* bound: connections a client makes
  MaxSlow      \* bound: receive timeouts of the clients

ASSUME ClientAssumption ==
  OgSession \subseteq Session /\ {MaxReq, MaxConn, MaxSlow} \subseteq Nat

\* A connection: <<s, 0>> is the agent's, <<s, k>> the k-th of its client.
Conn == (Session \X {0}) \cup (OgSession \X (1 .. MaxConn))

Codes == {0, 200, 400, 405, 501}
Answer == [req: 0 .. MaxReq, code: Codes, whole: BOOLEAN]

\* What recv returns when it has received nothing.
EmptyAnswer == [req |-> 0, code |-> 0, whole |-> TRUE]

VARIABLES
  cli,      \* per client: its thread, flags and locals
  sendMsg,  \* _sendMsg, a queue of at most one
  recvMsg,  \* _recvMsg, a queue of at most one
  wire,     \* per connection: requests on the way, answers on the way, state
  slow      \* receive timeouts so far

cliVars == <<cli, sendMsg, recvMsg, wire, slow>>

NewClient == [pc |-> "connect", conn |-> 0, connected |-> FALSE, stop |-> FALSE,
              hears |-> TRUE, some |-> FALSE, prompt |-> TRUE, late |-> FALSE,
              buf |-> 0, got |-> EmptyAnswer]

ClientInit ==
  /\ cli = [s \in OgSession |-> NewClient]
  /\ sendMsg = [s \in OgSession |-> << >>]
  /\ recvMsg = [s \in OgSession |-> << >>]
  /\ wire = [c \in Conn |-> [to |-> << >>, back |-> << >>,
                             link |-> IF c[2] = 0 THEN "up" ELSE "none"]]
  /\ slow = 0

Here(s) == <<s, cli[s].conn>>
Link(s) == wire[Here(s)].link
Back(s) == wire[Here(s)].back

-----------------------------------------------------------------------------
(***************************************************************************)
(* sendrecv, on the thread of the session's task.                          *)
(***************************************************************************)

\* The result of push is ignored: a full queue drops the request.
Push(s, r) ==
  /\ sendMsg' = [sendMsg EXCEPT ![s] = IF @ = << >> THEN <<r>> ELSE @]
  /\ cli' = [cli EXCEPT ![s].prompt = cli[s].pc \in {"pop", "waiting"}]
  /\ UNCHANGED <<recvMsg, wire, slow>>

\* Mutant: the answer stays in the queue.
Peek(s) ==
  /\ recvMsg[s] # << >>
  /\ UNCHANGED <<recvMsg, cli, sendMsg, wire, slow>>

Pop(s) ==
  /\ recvMsg[s] # << >>
  /\ recvMsg' = [recvMsg EXCEPT ![s] = << >>]
  /\ UNCHANGED <<cli, sendMsg, wire, slow>>

\* A client that took the request at once gives up its recv, after 900 seconds
\* without a byte, before sendrecv does, after 901; otherwise sendrecv is first.
AnswersInTime(s) ==
  /\ cli[s].prompt
  /\ \/ cli[s].pc \in {"send", "push"}
     \/ cli[s].pc \in {"pop", "waiting"} /\ sendMsg[s] # << >>
     \/ cli[s].pc = "recv" /\ ~cli[s].some

\* Mutant: the wait has no timeout.
NeverTimesOut(s) == recvMsg[s] = << >> /\ FALSE /\ UNCHANGED cliVars

\* The wait ends with its timeout even when _connected has become false, since
\* nothing notifies the queue.
PopTimesOut(s) ==
  /\ recvMsg[s] = << >> /\ ~AnswersInTime(s)
  /\ cli' = [cli EXCEPT ![s].late = @ \/ cli[s].pc \in {"send", "recv", "push"}
                                      \/ sendMsg[s] # << >>]
  /\ UNCHANGED <<sendMsg, recvMsg, wire, slow>>

\* The destructor raises _stop, which does not wake a thread that waits in pop,
\* and joins the thread.
Stop(s) == cli' = [cli EXCEPT ![s].stop = TRUE]

-----------------------------------------------------------------------------
(***************************************************************************)
(* _connectionMgr, the client's thread.                                    *)
(***************************************************************************)
Goto(s, pc) == cli' = [cli EXCEPT ![s].pc = pc]

\* The socket goes out of scope: the other end will see it closed.
Leave(s, pc) ==
  /\ cli' = [cli EXCEPT ![s].pc = pc, ![s].connected = FALSE, ![s].some = FALSE,
                        ![s].buf = 0, ![s].got = EmptyAnswer]
  /\ wire' = [wire EXCEPT ![Here(s)].link =
                IF cli[s].conn = 0 \/ cli[s].pc = "connect" THEN @ ELSE "closed"]

Connect(s) ==
  /\ cli[s].pc = "connect" /\ cli[s].conn < MaxConn
  /\ cli' = [cli EXCEPT ![s].pc = "pop", ![s].conn = @ + 1,
                        ![s].connected = TRUE, ![s].hears = TRUE]
  /\ wire' = [wire EXCEPT ![<<s, cli[s].conn + 1>>].link = "up"]
  /\ UNCHANGED <<sendMsg, recvMsg, slow>>

Quit(s) ==
  /\ cli[s].stop
  /\ cli[s].pc = "connect" \/ (cli[s].pc = "pop" /\ sendMsg[s] = << >>)
  /\ Leave(s, "ended")
  /\ UNCHANGED <<sendMsg, recvMsg, slow>>

\* Mutant: pop is called without its condition.
WaitAnyway(s) ==
  /\ cli[s].pc = "pop" /\ sendMsg[s] = << >>
  /\ Goto(s, "waiting")
  /\ UNCHANGED <<sendMsg, recvMsg, wire, slow>>

Wait(s) ==
  /\ cli[s].pc = "pop" /\ sendMsg[s] = << >> /\ ~cli[s].stop
  /\ Goto(s, "waiting")
  /\ UNCHANGED <<sendMsg, recvMsg, wire, slow>>

\* A condition variable may wake without a notification.
Wake(s) ==
  /\ cli[s].pc = "waiting"
  /\ Goto(s, "pop")
  /\ UNCHANGED <<sendMsg, recvMsg, wire, slow>>

Take(s) ==
  /\ cli[s].pc \in {"pop", "waiting"} /\ sendMsg[s] # << >>
  /\ sendMsg' = [sendMsg EXCEPT ![s] = << >>]
  /\ IF cli[s].stop
     THEN Leave(s, "ended")
     ELSE /\ cli' = [cli EXCEPT ![s].pc = "send", ![s].buf = Head(sendMsg[s])]
          /\ UNCHANGED wire
  /\ UNCHANGED <<recvMsg, slow>>

\* The first send after the peer has closed succeeds, and is answered by RST.
Send(s) ==
  /\ cli[s].pc = "send"
  /\ \/ /\ Link(s) = "up"
        /\ wire' = [wire EXCEPT ![Here(s)].to = Append(@, cli[s].buf)]
     \/ /\ Link(s) = "fin"
        /\ wire' = [wire EXCEPT ![Here(s)].link = "rst"]
  /\ cli' = [cli EXCEPT ![s].pc = "recv", ![s].buf = 0]
  /\ UNCHANGED <<sendMsg, recvMsg, slow>>

SendFails(s) ==
  /\ cli[s].pc = "send" /\ Link(s) = "rst"
  /\ Leave(s, "connect")
  /\ UNCHANGED <<sendMsg, recvMsg, slow>>

Got(s, a, up) ==
  cli' = [cli EXCEPT ![s].pc = "push", ![s].got = a, ![s].hears = up, ![s].some = FALSE]

\* The answer begins to arrive: each byte has 900 seconds of its own.
RecvSome(s) ==
  /\ cli[s].pc = "recv" /\ cli[s].hears /\ ~cli[s].some /\ Back(s) # << >>
  /\ cli' = [cli EXCEPT ![s].some = TRUE]
  /\ UNCHANGED <<sendMsg, recvMsg, wire, slow>>

RecvAll(s) ==
  /\ cli[s].pc = "recv" /\ cli[s].hears /\ Back(s) # << >>
  /\ Got(s, Head(Back(s)), TRUE)
  /\ wire' = [wire EXCEPT ![Here(s)].back = Tail(@)]
  /\ UNCHANGED <<sendMsg, recvMsg, slow>>

\* recv never fails: after a timeout or the end of the stream it returns the
\* headers it has, and from then on this SipSocket returns nothing at once.
RecvTimesOut(s) ==
  /\ cli[s].pc = "recv" /\ cli[s].hears /\ slow < MaxSlow
  /\ \/ Got(s, EmptyAnswer, FALSE)
     \/ cli[s].some /\ Got(s, [Head(Back(s)) EXCEPT !.whole = FALSE], FALSE)
  /\ slow' = slow + 1
  /\ UNCHANGED <<sendMsg, recvMsg, wire>>

RecvClosed(s) ==
  /\ cli[s].pc = "recv"
  /\ ~cli[s].hears \/ (Link(s) # "up" /\ Back(s) = << >>)
  /\ Got(s, EmptyAnswer, FALSE)
  /\ UNCHANGED <<sendMsg, recvMsg, wire, slow>>

\* Mutant: the queue has no limit.
PushAnswerAny(s) ==
  /\ cli[s].pc = "push"
  /\ recvMsg' = [recvMsg EXCEPT ![s] = Append(@, cli[s].got)]
  /\ cli' = [cli EXCEPT ![s].pc = "pop", ![s].got = EmptyAnswer]
  /\ UNCHANGED <<sendMsg, wire, slow>>

PushAnswer(s) ==
  /\ cli[s].pc = "push" /\ recvMsg[s] = << >>
  /\ recvMsg' = [recvMsg EXCEPT ![s] = <<cli[s].got>>]
  /\ cli' = [cli EXCEPT ![s].pc = "pop", ![s].got = EmptyAnswer]
  /\ UNCHANGED <<sendMsg, wire, slow>>

\* An answer nobody has fetched is in the way: the client starts afresh.
PushFull(s) ==
  /\ cli[s].pc = "push" /\ recvMsg[s] # << >>
  /\ Leave(s, "connect")
  /\ UNCHANGED <<sendMsg, recvMsg, slow>>

Client(s) ==
  \/ Connect(s) \/ Quit(s) \/ Wait(s) \/ Take(s) \/ Send(s) \/ SendFails(s)
  \/ RecvSome(s) \/ RecvAll(s) \/ RecvTimesOut(s) \/ RecvClosed(s)
  \/ PushAnswer(s) \/ PushFull(s)

-----------------------------------------------------------------------------
ClientType ==
  /\ cli \in [OgSession ->
       [pc: {"connect", "pop", "waiting", "send", "recv", "push", "ended"},
        conn: 0 .. MaxConn, connected: BOOLEAN, stop: BOOLEAN, hears: BOOLEAN,
        some: BOOLEAN, prompt: BOOLEAN, late: BOOLEAN, buf: 0 .. MaxReq, got: Answer]]
  /\ sendMsg \in [OgSession -> Seq(1 .. MaxReq)] /\ recvMsg \in [OgSession -> Seq(Answer)]
  /\ \A s \in OgSession : Len(sendMsg[s]) <= 1 /\ Len(recvMsg[s]) <= 1
  /\ wire \in [Conn -> [to: Seq(1 .. MaxReq), back: Seq(Answer),
                        link: {"none", "up", "fin", "rst", "closed"}]]
  /\ slow \in 0 .. MaxSlow
=============================================================================
