--------------------------- MODULE MessageChannel ---------------------------
(***************************************************************************)
(* What a TCP bearer promises the tunnel at each of its ends, with queues, *)
(* threads, connections and their failures hidden: recvMessage returns     *)
(* messages that were handed to sendMessage at the other end, in the order *)
(* in which they were, some left out, none twice as a whole; a message may *)
(* come cut in its tail, before it comes whole if it does; and a buffer in *)
(* which not even the data is complete may come at any time.               *)
(***************************************************************************)
EXTENDS Integers, Sequences

CONSTANT End

VARIABLES
  handed,      \* handed[e]: messages 1 .. handed[e] were handed to e
  returned     \* returned[e]: [form, msg] in order

vars == <<handed, returned>>

Init == /\ handed = [e \in End |-> 0]
        /\ returned = [e \in End |-> << >>]

Hand(e) == /\ handed' = [handed EXCEPT ![e] = @ + 1]
           /\ UNCHANGED returned

\* m follows what e has returned so far.
Follows(e, m) ==
  \A i \in DOMAIN returned[e] :
    CASE returned[e][i].form = "whole" -> returned[e][i].msg < m
      [] returned[e][i].form = "cut" -> returned[e][i].msg <= m
      [] OTHER -> TRUE

Return(e, r) == /\ returned' = [returned EXCEPT ![e] = Append(@, r)]
                /\ UNCHANGED handed

\* A message of the other end, or a buffer without a message.
ReturnMessage(e) ==
  \E f \in End \ {e} : \E m \in 1 .. handed[f], form \in {"whole", "cut"} :
    Follows(e, m) /\ Return(e, [form |-> form, msg |-> m])

ReturnGarbage(e) == Return(e, [form |-> "garbage", msg |-> 0])

Next == \E e \in End : Hand(e) \/ ReturnMessage(e) \/ ReturnGarbage(e)

Spec == Init /\ [][Next]_vars
=============================================================================
