----------------------------- MODULE KTPStream -----------------------------
(***************************************************************************)
(* What KTP promises its two users: a reliable stream of messages.  What   *)
(* k_sendto accepts, k_recvfrom hands out once and in the same order, and  *)
(* no more than Capacity messages are accepted ahead of the receiver.      *)
(* Opening the two sockets again starts an empty stream.                   *)
(***************************************************************************)
EXTENDS Integers, Sequences

CONSTANTS Capacity,  \* messages the two rows can hold between them
          MaxMsgs    \* bound: messages a session accepts

VARIABLES sent,      \* how many messages the sender got accepted
          pending,   \* those not yet handed out, oldest first
          got        \* what the receiver was handed

streamVars == <<sent, pending, got>>

Opened == sent = 0 /\ pending = <<>> /\ got = <<>>

Send == /\ sent < MaxMsgs
        /\ Len(pending) < Capacity
        /\ sent' = sent + 1
        /\ pending' = Append(pending, sent + 1)
        /\ UNCHANGED got

Receive == /\ pending # <<>>
           /\ got' = Append(got, Head(pending))
           /\ pending' = Tail(pending)
           /\ UNCHANGED sent

Reset == sent' = 0 /\ pending' = <<>> /\ got' = <<>>

StreamNext == Send \/ Receive \/ Reset

(* Safety alone, and with the promise that a waiting message is received.  *)
Stream     == Opened /\ [][StreamNext]_streamVars
FairStream == Stream /\ WF_streamVars(Receive)
=============================================================================
