---------------------------- MODULE CLDP_proofs ----------------------------
(***************************************************************************)
(* For any number of clients and servers on any hosts, any numbers from    *)
(* rand and queues of any size: the types, that a client only waits for an *)
(* answer with cause, and that the answer it takes is one to its query.    *)
(* WaitingHasCause is not inductive alone: that a new transaction id, or a *)
(* new run, does not orphan a query needs that none is active at the menu  *)
(* and before the start.  That answers match is about every packet that is *)
(* anywhere: whose it is, when its number was drawn, what it asks for.     *)
(***************************************************************************)
EXTENDS CLDP, TLAPS

(* rand has a number for every message, and there is no query at the menu. *)
NumbersLast == \A c \in Clients : drawn[c] <= 2 * sends
QuietMenu == \A c \in Clients : at[c] # "select" => ~active[c]

TypeInv == TypeOK /\ NumbersLast
IInv == TypeInv /\ QuietMenu /\ WaitingHasCause

-----------------------------------------------------------------------------
(* What the programs send are packets.                                     *)

LEMMA HelloIsPacket ==
  ASSUME TypeOK, NEW p \in Procs, NEW h \in Hosts
  PROVE  Hello(p, h) \in Packet
BY CLDPAssumption DEF TypeOK, Hello, Packet, Runs, Me, Procs

LEMMA QueryIsPacket ==
  ASSUME TypeOK, NEW c \in Clients, NEW q \in Queries, tid'[c] \in Nat, CanSend(c)
  PROVE  Query(c, q) \in Packet
<1>1. target[c] \in Hosts
  BY CLDPAssumption DEF TypeOK, CanSend
<1> QED
  BY <1>1, CLDPAssumption DEF TypeOK, Query, Packet, Runs, Me, Procs

LEMMA ResponseIsPacket ==
  ASSUME NEW s \in Servers, NEW m \in Packet, m.type = "query"
  PROVE  Response(s, m) \in Packet
BY DEF Response, Packet

(* A queue keeps its bound when its head is taken, or a packet put where   *)
(* there is room.                                                          *)
LEMMA QueueTail ==
  ASSUME NEW Q \in Seq(Packet), Q # <<>>, Len(Q) <= RcvBuf
  PROVE  Tail(Q) \in Seq(Packet) /\ Len(Tail(Q)) <= RcvBuf /\ Head(Q) \in Packet
BY CLDPAssumption

LEMMA QueueAppend ==
  ASSUME NEW Q \in Seq(Packet), NEW m \in Packet, Len(Q) < RcvBuf
  PROVE  Append(Q, m) \in Seq(Packet) /\ Len(Append(Q, m)) <= RcvBuf
BY CLDPAssumption

-----------------------------------------------------------------------------
(* The programs start with their types.                                    *)
THEOREM InitTypes == Init => TypeInv
<1> SUFFICES ASSUME Init PROVE TypeInv
  OBVIOUS
<1>1. TypeOK
  BY CLDPAssumption DEF Init, TypeOK, Procs, Choices, Other, Exit
<1>2. NumbersLast
  BY DEF Init, NumbersLast
<1> QED
  BY <1>1, <1>2 DEF TypeInv

(* A step of each part of the system, one lemma for each part.             *)
LEMMA DeliverTypes ==
  ASSUME TypeInv, NEW m \in net, Deliver(m)
  PROVE  TypeInv'
<1> USE DEF TypeInv, TypeOK
<1>1. m \in Packet /\ net' \subseteq Packet
  BY DEF Deliver
<1>2. /\ queue' \in [Procs -> Seq(Packet)]
      /\ \A p \in Procs : Len(queue'[p]) <= RcvBuf
  <2>1. ASSUME NEW p \in Procs
        PROVE  queue'[p] \in Seq(Packet) /\ Len(queue'[p]) <= RcvBuf
    <3>1. CASE p \in Takers(m)
      <4>1. Len(queue[p]) < RcvBuf /\ queue[p] \in Seq(Packet)
        BY <3>1, <2>1 DEF Takers
      <4>2. queue'[p] = Append(queue[p], m)
        BY <3>1, <2>1 DEF Deliver
      <4> QED
        BY <4>1, <4>2, <1>1, QueueAppend
    <3>2. CASE p \notin Takers(m)
      <4>1. queue'[p] = queue[p]
        BY <3>2, <2>1 DEF Deliver
      <4> QED
        BY <4>1, <2>1
    <3> QED
      BY <3>1, <3>2
  <2>2. queue' = [p \in Procs |-> queue'[p]]
    BY DEF Deliver
  <2> QED
    BY <2>1, <2>2
<1>3. lost' \in [Clients -> BOOLEAN]
  BY DEF Deliver, Losing
<1> QED
  BY <1>1, <1>2, <1>3 DEF Deliver, menuVars, queryVars, NumbersLast

LEMMA LoseTypes ==
  ASSUME TypeInv, NEW m \in net, Lose(m)
  PROVE  TypeInv'
<1>1. lost' \in [Clients -> BOOLEAN]
  BY DEF Lose, Losing
<1> QED
  BY <1>1 DEF TypeInv, TypeOK, Lose, procVars, menuVars, queryVars, NumbersLast

LEMMA ServerTypes ==
  ASSUME TypeInv, NEW s \in Servers, Server(s)
  PROVE  TypeInv'
<1> USE DEF TypeInv, TypeOK, procVars, menuVars, queryVars, NumbersLast, Procs
<1>1. CASE ServerHello(s)
  <2>1. net' \subseteq Packet
    BY <1>1, HelloIsPacket DEF ServerHello
  <2>2. sends' \in 0 .. MaxSends /\ sends' = sends + 1
    BY <1>1, CLDPAssumption DEF ServerHello, Attempt
  <2>3. \A c \in Clients : drawn[c] <= 2 * sends'
    BY <2>2
  <2> QED
    BY <1>1, <2>1, <2>2, <2>3 DEF ServerHello
<1>2. CASE ServerRecv(s)
  <2>1. Head(queue[s]) \in Packet /\ Tail(queue[s]) \in Seq(Packet) /\ Len(Tail(queue[s])) <= RcvBuf
    BY <1>2, QueueTail DEF ServerRecv
  <2>2. net' \subseteq Packet
    BY <1>2, <2>1, ResponseIsPacket DEF ServerRecv, Respond
  <2>3. /\ queue' \in [Procs -> Seq(Packet)]
        /\ \A p \in Procs : Len(queue'[p]) <= RcvBuf
    BY <1>2, <2>1 DEF ServerRecv
  <2> QED
    BY <1>2, <2>2, <2>3 DEF ServerRecv
<1>3. CASE ServerStop(s)
  <2>1. lost' \in [Clients -> BOOLEAN]
    BY <1>3 DEF ServerStop, Losing
  <2>2. /\ queue' \in [Procs -> Seq(Packet)]
        /\ \A p \in Procs : Len(queue'[p]) <= RcvBuf
    BY <1>3, CLDPAssumption DEF ServerStop
  <2> QED
    BY <1>3, <2>1, <2>2 DEF ServerStop, Goto
<1>4. CASE ServerStart(s)
  BY <1>4 DEF ServerStart, Goto
<1> QED
  BY <1>1, <1>2, <1>3, <1>4 DEF Server

(* The choice that the menu obeys.                                         *)
LEMMA ObeyTypes ==
  ASSUME TypeInv, NEW c \in Clients, NEW k \in Choices, Obey(c, k),
         stuck' \in [Clients -> BOOLEAN]
  PROVE  TypeInv'
<1> USE DEF TypeInv, TypeOK
<1>1. /\ choice' \in [Clients -> Choices] /\ stop' \in [Clients -> BOOLEAN]
      /\ at' \in [Procs -> {"menu", "select", "gone"}]
      /\ UNCHANGED <<queue, life, target>>
  BY DEF Obey, Goto, Procs
<1>2. /\ net' \subseteq Packet /\ active' \in [Clients -> BOOLEAN] /\ tid' \in [Clients -> Nat]
      /\ lost' \in [Clients -> BOOLEAN] /\ sends' \in 0 .. MaxSends
      /\ drawn' \in [Clients -> 0 .. 2 * MaxSends] /\ NumbersLast'
  <2>1. CASE k \in Queries
    <3>1. SendQuery(c, k)
      BY <2>1 DEF Obey
    <3>2. sends' = sends + 1 /\ sends' \in 0 .. MaxSends
      BY <3>1, CLDPAssumption DEF SendQuery, Attempt
    <3>3. \E n \in {1, 2} : drawn' = [drawn EXCEPT ![c] = @ + n]
      BY <3>1 DEF SendQuery, Draw
    <3>4. drawn' \in [Clients -> 0 .. 2 * MaxSends] /\ NumbersLast'
      <4>1. \A d \in Clients : drawn'[d] \in Nat /\ drawn'[d] <= 2 * sends'
        BY <3>2, <3>3 DEF NumbersLast
      <4>2. \A d \in Clients : drawn'[d] \in 0 .. 2 * MaxSends
        BY <4>1, <3>2, CLDPAssumption
      <4> QED
        BY <4>1, <4>2, <3>3 DEF NumbersLast
    <3>5. tid' \in [Clients -> Nat]
      <4>1. drawn[c] + 1 \in 0 .. 2 * MaxSends
        BY <3>1, CLDPAssumption DEF NumbersLast, SendQuery, Attempt
      <4>2. Rand[drawn[c] + 1] \in Nat
        BY <4>1, CLDPAssumption
      <4> QED
        BY <3>1, <4>2 DEF SendQuery
    <3>6. net' \subseteq Packet /\ active' \in [Clients -> BOOLEAN] /\ lost' \in [Clients -> BOOLEAN]
      <4>1. CASE NotSent(c)
        BY <4>1 DEF NotSent
      <4>2. CASE CanSend(c) /\ Sent(c, k)
        <5>1. Query(c, k) \in Packet
          BY <4>2, <2>1, <3>5, QueryIsPacket
        <5> QED
          BY <4>2, <5>1 DEF Sent
      <4> QED
        BY <3>1, <4>1, <4>2 DEF SendQuery
    <3> QED
      BY <3>2, <3>4, <3>5, <3>6
  <2>2. CASE k \notin Queries
    BY <2>2 DEF Obey, queryVars, NumbersLast
  <2> QED
    BY <2>1, <2>2
<1> QED
  BY <1>1, <1>2

(* The head of the loop, after the receive queue has been looked at.       *)
LEMMA TurnTypes ==
  ASSUME TypeInv, NEW c \in Clients, Turn(c), UNCHANGED stuck,
         queue' \in [Procs -> Seq(Packet)], \A p \in Procs : Len(queue'[p]) <= RcvBuf,
         active' \in [Clients -> BOOLEAN]
  PROVE  TypeInv'
<1> USE DEF TypeInv, TypeOK
<1>1. /\ at' \in [Procs -> {"menu", "select", "gone"}]
      /\ UNCHANGED <<life, target, stop, choice, tid, lost>>
  BY DEF Turn, Goto, Procs, menuVars
<1>2. /\ net' \subseteq Packet /\ sends' \in 0 .. MaxSends
      /\ drawn' \in [Clients -> 0 .. 2 * MaxSends] /\ NumbersLast'
  <2>1. CASE UNCHANGED <<net, drawn, sends>>
    BY <2>1 DEF NumbersLast
  <2>2. CASE Attempt /\ ClientHello(c)
    <3>1. sends' = sends + 1 /\ sends' \in 0 .. MaxSends
      BY <2>2, CLDPAssumption DEF Attempt
    <3>2. \E n \in {1, 2} : drawn' = [drawn EXCEPT ![c] = @ + n]
      BY <2>2 DEF ClientHello, Draw
    <3>3. ASSUME NEW d \in Clients PROVE drawn'[d] \in Nat /\ drawn'[d] <= 2 * sends'
      <4>1. drawn[d] \in Nat /\ sends \in Nat /\ drawn[d] <= 2 * sends
        BY CLDPAssumption DEF NumbersLast
      <4>2. drawn'[d] \in {drawn[d], drawn[d] + 1, drawn[d] + 2}
        BY <3>2
      <4> QED
        BY <3>1, <4>1, <4>2
    <3>4. \A d \in Clients : drawn'[d] \in 0 .. 2 * MaxSends
      BY <3>1, <3>3, CLDPAssumption
    <3>5. net' \subseteq Packet
      <4>1. CanSend(c) => Hello(c, target[c]) \in Packet
        BY HelloIsPacket, CLDPAssumption DEF CanSend, Procs
      <4> QED
        BY <2>2, <4>1 DEF ClientHello
    <3> QED
      BY <3>1, <3>2, <3>3, <3>4, <3>5 DEF NumbersLast
  <2> QED
    BY <2>1, <2>2 DEF Turn, MayHello
<1> QED
  BY <1>1, <1>2

LEMMA ClientTypes ==
  ASSUME TypeInv, NEW c \in Clients, Client(c)
  PROVE  TypeInv'
<1> USE DEF TypeInv, TypeOK
<1>1. CASE ChooseAgain(c)
  BY <1>1, ObeyTypes DEF ChooseAgain
<1>2. CASE \E k \in Choices : Choose(c, k)
  BY <1>2, ObeyTypes DEF Choose
<1>3. CASE ClientRecv(c)
  <2>1. Tail(queue[c]) \in Seq(Packet) /\ Len(Tail(queue[c])) <= RcvBuf
    BY <1>3, QueueTail DEF ClientRecv, Procs
  <2>2. queue' \in [Procs -> Seq(Packet)] /\ \A p \in Procs : Len(queue'[p]) <= RcvBuf
    BY <1>3, <2>1 DEF ClientRecv, Procs
  <2>3. active' \in [Clients -> BOOLEAN]
    BY <1>3 DEF ClientRecv
  <2> QED
    BY <1>3, <2>2, <2>3, TurnTypes DEF ClientRecv, Turn, menuVars
<1>4. CASE ClientIdle(c)
  BY <1>4, TurnTypes DEF ClientIdle, Turn, menuVars
<1>5. CASE Leave(c)
  <2>1. queue' \in [Procs -> Seq(Packet)] /\ \A p \in Procs : Len(queue'[p]) <= RcvBuf
    BY <1>5, CLDPAssumption DEF Leave, Procs
  <2>2. drawn' \in [Clients -> 0 .. 2 * MaxSends] /\ \A d \in Clients : drawn'[d] <= 2 * sends
    BY <1>5, CLDPAssumption DEF Leave, NumbersLast
  <2> QED
    BY <1>5, <2>1, <2>2 DEF Leave, Goto, Procs, Choices, Other, NumbersLast
<1>6. CASE ClientSignal(c)
  BY <1>6 DEF ClientSignal, procVars, queryVars, NumbersLast
<1>7. CASE ClientStart(c)
  BY <1>7 DEF ClientStart, Goto, Procs, queryVars, NumbersLast
<1> QED
  BY <1>1, <1>2, <1>3, <1>4, <1>5, <1>6, <1>7 DEF Client

(* No step of the network, a server or a client leaves the types.          *)
THEOREM NextTypes == TypeInv /\ [Next]_vars => TypeInv'
<1> SUFFICES ASSUME TypeInv, [Next]_vars PROVE TypeInv'
  OBVIOUS
<1>1. CASE Network
  BY <1>1, DeliverTypes, LoseTypes DEF Network, Arrives
<1>2. CASE \E s \in Servers : Server(s)
  BY <1>2, ServerTypes
<1>3. CASE \E c \in Clients : Client(c)
  BY <1>3, ClientTypes
<1>4. CASE UNCHANGED vars
  BY <1>4 DEF TypeInv, TypeOK, vars, procVars, menuVars, queryVars, NumbersLast
<1> QED
  BY <1>1, <1>2, <1>3, <1>4 DEF Next

(* The state of CLDP has its types, whatever the constants.                *)
THEOREM TypeCorrect == Spec => []TypeOK
<1>1. TypeInv => TypeOK
  BY DEF TypeInv
<1> QED
  BY <1>1, InitTypes, NextTypes, PTL DEF Spec

-----------------------------------------------------------------------------
(* Why a client may wait: the disjunction of WaitingHasCause.              *)
OnTheWay(c) == \E m \in net : m.type # "hello" /\ Of(m, c)
Asked(c) == \E s \in Servers : \E m \in Waiting(s) : m.type = "query" /\ Of(m, c)
Answered(c) == \E m \in Waiting(c) : m.type = "response" /\ Of(m, c)
Cause(c) == lost[c] \/ OnTheWay(c) \/ Asked(c) \/ Answered(c)

(* What a client has as a cause remains one when nothing it is made of     *)
(* goes away; a server may take its query and send the answer.             *)
LEMMA CauseKept ==
  ASSUME NEW c \in Clients, Cause(c),
         life'[c] = life[c], tid'[c] = tid[c],
         lost[c] => lost'[c],
         net \subseteq net',
         Asked(c) => Cause(c)',
         Answered(c) => Cause(c)'
  PROVE  Cause(c)'
<1>1. OnTheWay(c) => OnTheWay(c)'
  BY DEF OnTheWay, Of, Me
<1> QED
  BY <1>1 DEF Cause

(* A client whose queue keeps its packets still has its answer in it.      *)
LEMMA AnsweredKept ==
  ASSUME NEW c \in Clients, Answered(c), life'[c] = life[c], tid'[c] = tid[c],
         Waiting(c) \subseteq Waiting(c)'
  PROVE  Answered(c)'
BY DEF Answered, Of, Me

LEMMA AskedKept ==
  ASSUME NEW c \in Clients, Asked(c), life'[c] = life[c], tid'[c] = tid[c],
         \A s \in Servers : Waiting(s) \subseteq Waiting(s)'
  PROVE  Asked(c)'
BY DEF Asked, Of, Me

(* What is in a queue is its head or in the rest of it, and stays when a   *)
(* packet is put behind it.                                                *)
LEMMA HeadOrRest ==
  ASSUME NEW Q \in Seq(Packet), Q # <<>>, NEW i \in DOMAIN Q
  PROVE  Q[i] = Head(Q) \/ \E j \in DOMAIN Tail(Q) : Tail(Q)[j] = Q[i]
<1>1. CASE i = 1
  BY <1>1
<1>2. CASE i # 1
  <2>1. i - 1 \in DOMAIN Tail(Q) /\ Tail(Q)[i - 1] = Q[i]
    BY <1>2
  <2> QED
    BY <2>1
<1> QED
  BY <1>1, <1>2

LEMMA AppendKeeps ==
  ASSUME NEW Q \in Seq(Packet), NEW m \in Packet
  PROVE  /\ \A i \in DOMAIN Q : i \in DOMAIN Append(Q, m) /\ Append(Q, m)[i] = Q[i]
         /\ Len(Q) + 1 \in DOMAIN Append(Q, m) /\ Append(Q, m)[Len(Q) + 1] = m
OBVIOUS

-----------------------------------------------------------------------------
(* A packet that arrives is put where it will be dealt with, or missed and *)
(* the loss is remembered; what was in the queues stays there.             *)
LEMMA DeliverKeepsCause ==
  ASSUME TypeInv, NEW m \in net, Deliver(m), NEW c \in Clients, Cause(c)
  PROVE  Cause(c)'
<1> USE DEF TypeInv, TypeOK
<1>1. m \in Packet /\ life' = life /\ tid' = tid /\ Me(c)' = Me(c)
  BY DEF Deliver, menuVars, queryVars, Me
<1>2. ASSUME NEW p \in Procs
      PROVE  Waiting(p) \subseteq Waiting(p)' /\ (p \in Takers(m) => m \in Waiting(p)')
  <2>1. CASE p \in Takers(m)
    <3>1. queue'[p] = Append(queue[p], m) /\ queue[p] \in Seq(Packet)
      BY <2>1, <1>2 DEF Deliver
    <3>2. \A i \in DOMAIN queue[p] : i \in DOMAIN queue'[p] /\ queue'[p][i] = queue[p][i]
      BY <3>1, <1>1, AppendKeeps
    <3>3. Len(queue[p]) + 1 \in DOMAIN queue'[p] /\ queue'[p][Len(queue[p]) + 1] = m
      BY <3>1, <1>1, AppendKeeps
    <3> HIDE DEF TypeOK, TypeInv
    <3> QED
      BY <3>2, <3>3 DEF Waiting
  <2>2. CASE p \notin Takers(m)
    <3>1. queue'[p] = queue[p]
      BY <2>2, <1>2 DEF Deliver
    <3> QED
      BY <3>1, <2>2 DEF Waiting
  <2> QED
    BY <2>1, <2>2
<1>3. lost[c] => lost'[c]
  BY DEF Deliver, Losing
<1>4. Answered(c) => Answered(c)'
  BY <1>1, <1>2, AnsweredKept DEF Procs
<1>5. Asked(c) => Asked(c)'
  BY <1>1, <1>2, AskedKept DEF Procs
<1>6. ASSUME OnTheWay(c) PROVE Cause(c)'
  <2>1. PICK n \in net : n.type # "hello" /\ Of(n, c)
    BY <1>6 DEF OnTheWay
  <2>2. Of(n, c)'
    BY <2>1, <1>1 DEF Of
  <2>3. CASE n # m
    BY <2>1, <2>2, <2>3 DEF Deliver, OnTheWay, Cause
  <2>4. CASE n = m /\ Missed(m, Takers(m))
    <3>1. lost'[c]
      BY <2>1, <2>4 DEF Deliver, Losing
    <3> QED
      BY <3>1 DEF Cause
  <2>5. CASE n = m /\ ~Missed(m, Takers(m)) /\ m.type = "query"
    <3>1. PICK s \in Servers : s \in Takers(m)
      BY <2>5 DEF Missed
    <3>2. m \in Waiting(s)'
      BY <3>1, <1>2 DEF Procs
    <3> QED
      BY <3>2, <2>2, <2>5 DEF Asked, Cause
  <2>6. CASE n = m /\ ~Missed(m, Takers(m)) /\ m.type = "response"
    <3>1. c \in Takers(m)
      BY <2>1, <2>6 DEF Missed, Of, Me
    <3>2. m \in Waiting(c)'
      BY <3>1, <1>2 DEF Procs
    <3> QED
      BY <3>2, <2>2, <2>6 DEF Answered, Cause
  <2>7. n.type \in {"query", "response"}
    BY <2>1 DEF Packet
  <2> QED
    BY <2>3, <2>4, <2>5, <2>6, <2>7
<1> QED
  BY <1>3, <1>4, <1>5, <1>6 DEF Cause

LEMMA LoseKeepsCause ==
  ASSUME NEW m \in net, Lose(m), NEW c \in Clients, Cause(c)
  PROVE  Cause(c)'
<1>1. /\ life' = life /\ tid' = tid /\ queue' = queue /\ Me(c)' = Me(c)
      /\ lost'[c] = (lost[c] \/ Of(m, c)) /\ net' = net \ {m}
  BY DEF Lose, Losing, procVars, menuVars, queryVars, Me
<1>2. (Answered(c) => Answered(c)') /\ (Asked(c) => Asked(c)')
  BY <1>1 DEF Answered, Asked, Waiting, Of
<1>3. OnTheWay(c) => OnTheWay(c)' \/ lost'[c]
  BY <1>1 DEF OnTheWay, Of
<1> QED
  BY <1>1, <1>2, <1>3 DEF Cause

(* A server that takes a query sends the answer; one that stops takes the  *)
(* queries in its queue with it, and their loss is remembered.             *)
LEMMA ServerKeepsCause ==
  ASSUME TypeInv, NEW s \in Servers, Server(s), NEW c \in Clients, Cause(c)
  PROVE  Cause(c)'
<1> USE DEF TypeInv, TypeOK
<1>0. s # c /\ s \in Procs /\ c \in Procs
  BY CLDPAssumption DEF Procs
<1>1. CASE ServerHello(s)
  <2>1. life' = life /\ tid' = tid /\ queue' = queue /\ lost' = lost /\ net \subseteq net'
    BY <1>1 DEF ServerHello, procVars, menuVars, queryVars
  <2>2. (Answered(c) => Answered(c)') /\ (Asked(c) => Asked(c)')
    BY <2>1 DEF Answered, Asked, Waiting, Of, Me
  <2> QED
    BY <2>1, <2>2, CauseKept DEF Cause
<1>2. CASE ServerRecv(s)
  <2>1. /\ life' = life /\ tid' = tid /\ lost' = lost /\ net \subseteq net'
        /\ queue[s] # <<>> /\ queue[s] \in Seq(Packet) /\ queue'[s] = Tail(queue[s])
        /\ \A p \in Procs : p # s => queue'[p] = queue[p]
    BY <1>0, <1>2 DEF ServerRecv, Respond, queryVars
  <2>2. Answered(c) => Answered(c)'
    <3>1. Waiting(c)' = Waiting(c)
      BY <2>1, <1>0 DEF Waiting
    <3> QED
      BY <2>1, <3>1, AnsweredKept
  <2>3. ASSUME Asked(c) PROVE Cause(c)'
    <3>0. PICK t \in Servers : \E m \in Waiting(t) : m.type = "query" /\ Of(m, c)
      BY <2>3 DEF Asked
    <3>1. PICK m \in Waiting(t) : m.type = "query" /\ Of(m, c)
      BY <3>0
    <3>2. Of(m, c)'
      BY <3>1, <2>1 DEF Of, Me
    <3>3. CASE t # s
      <4>1. m \in Waiting(t)'
        BY <3>1, <3>3, <2>1 DEF Waiting, Procs
      <4> QED
        BY <4>1, <3>1, <3>2 DEF Asked, Cause
    <3>4. CASE t = s /\ m = Head(queue[s])
      <4>1. Response(s, m) \in net'
        BY <3>1, <3>4, <1>2 DEF ServerRecv, Respond
      <4>2. Of(Response(s, m), c)'
        BY <3>2 DEF Of, Response
      <4>3. Response(s, m).type = "response"
        BY DEF Response
      <4> QED
        BY <4>1, <4>2, <4>3 DEF OnTheWay, Cause
    <3>5. CASE t = s /\ m # Head(queue[s])
      <4>1. PICK i \in DOMAIN queue[s] : m = queue[s][i]
        BY <3>1, <3>5 DEF Waiting
      <4>2. \E j \in DOMAIN Tail(queue[s]) : Tail(queue[s])[j] = m
        BY <4>1, <3>5, <2>1, HeadOrRest
      <4>3. m \in Waiting(s)'
        BY <4>2, <2>1 DEF Waiting
      <4> QED
        BY <4>3, <3>1, <3>2 DEF Asked, Cause
    <3> QED
      BY <3>3, <3>4, <3>5
  <2> QED
    BY <2>1, <2>2, <2>3, CauseKept DEF Cause
<1>3. CASE ServerStop(s)
  <2>1. /\ life' = life /\ tid' = tid /\ net' = net
        /\ \A p \in Procs : p # s => queue'[p] = queue[p]
        /\ lost[c] => lost'[c]
    BY <1>3 DEF ServerStop, queryVars, Losing
  <2>2. Answered(c) => Answered(c)'
    <3>1. Waiting(c)' = Waiting(c)
      BY <2>1, <1>0 DEF Waiting
    <3> QED
      BY <2>1, <3>1, AnsweredKept
  <2>3. ASSUME Asked(c) PROVE Cause(c)'
    <3>0. PICK t \in Servers : \E m \in Waiting(t) : m.type = "query" /\ Of(m, c)
      BY <2>3 DEF Asked
    <3>1. PICK m \in Waiting(t) : m.type = "query" /\ Of(m, c)
      BY <3>0
    <3>2. CASE t # s
      <4>1. m \in Waiting(t)' /\ Of(m, c)'
        BY <3>1, <3>2, <2>1 DEF Waiting, Procs, Of, Me
      <4> QED
        BY <4>1, <3>1 DEF Asked, Cause
    <3>3. CASE t = s
      <4>1. lost'[c]
        BY <3>1, <3>3, <1>3 DEF ServerStop, Losing
      <4> QED
        BY <4>1 DEF Cause
    <3> QED
      BY <3>2, <3>3
  <2> QED
    BY <2>1, <2>2, <2>3, CauseKept DEF Cause
<1>4. CASE ServerStart(s)
  <2>1. /\ life'[c] = life[c] /\ tid' = tid /\ net' = net /\ queue' = queue /\ lost' = lost
    BY <1>0, <1>4 DEF ServerStart, queryVars
  <2>2. (Answered(c) => Answered(c)') /\ (Asked(c) => Asked(c)')
    BY <2>1 DEF Answered, Asked, Waiting, Of, Me
  <2> QED
    BY <2>1, <2>2, CauseKept DEF Cause
<1> QED
  BY <1>1, <1>2, <1>3, <1>4 DEF Server

(* A step of client c that only adds to the network leaves the cause of    *)
(* every other client as it is.                                            *)
LEMMA OthersKeepCause ==
  ASSUME NEW c \in Clients, NEW d \in Clients, d # c, Cause(d),
         life'[d] = life[d], tid'[d] = tid[d], lost'[d] = lost[d],
         net \subseteq net',
         \A p \in Procs : p # c => queue'[p] = queue[p]
  PROVE  Cause(d)'
<1>1. Waiting(d)' = Waiting(d) /\ \A s \in Servers : Waiting(s)' = Waiting(s)
  <2>1. \A p \in Procs : p # c => Waiting(p)' = Waiting(p)
    BY DEF Waiting
  <2>2. d \in Procs /\ \A s \in Servers : s \in Procs /\ s # c
    BY CLDPAssumption DEF Procs
  <2> QED
    BY <2>1, <2>2
<1>2. (Answered(d) => Answered(d)') /\ (Asked(d) => Asked(d)')
  BY <1>1, AnsweredKept, AskedKept
<1> QED
  BY <1>2, CauseKept DEF Cause

(* A client is quiet when no query of its is active, and excused when it   *)
(* waits with cause.                                                       *)
Excused(c) == active[c] /\ at[c] # "gone" => Cause(c)
Quiet(c) == at[c] # "select" => ~active[c]

(* At the menu no query is active; one that is sent is on its way.         *)
LEMMA ObeyExcused ==
  ASSUME TypeInv, NEW c \in Clients, NEW k \in Choices, Obey(c, k), at[c] = "menu",
         QuietMenu, \A d \in Clients : Excused(d)
  PROVE  \A d \in Clients : Excused(d)' /\ Quiet(d)'
<1> USE DEF TypeInv, TypeOK
<1>1. /\ ~active[c] /\ queue' = queue /\ life' = life /\ at'[c] = "select"
      /\ \A d \in Clients : d # c => at'[d] = at[d]
  BY DEF Obey, QuietMenu, Goto, Procs
<1>2. /\ net \subseteq net'
      /\ \A d \in Clients \ {c} : tid'[d] = tid[d] /\ lost'[d] = lost[d] /\ active'[d] = active[d]
  BY DEF Obey, SendQuery, Sent, NotSent, queryVars
<1>3. active'[c] => Cause(c)'
  <2>1. CASE active' = active
    BY <1>1, <2>1
  <2>2. CASE k \in Queries /\ CanSend(c) /\ Sent(c, k) /\ tid' = [tid EXCEPT ![c] = Rand[drawn[c] + 1]]
    <3>1. Query(c, k) \in net' /\ Query(c, k).type # "hello"
      BY <2>2 DEF Sent, Query
    <3>2. Query(c, k).by = Me(c)' /\ Query(c, k).tid = tid'[c]
      BY <1>1 DEF Query, Me
    <3> QED
      BY <3>1, <3>2 DEF Of, OnTheWay, Cause
  <2> QED
    BY <2>1, <2>2 DEF Obey, SendQuery, NotSent, queryVars
<1>4. ASSUME NEW d \in Clients, d # c PROVE Excused(d)' /\ Quiet(d)'
  <2>1. Cause(d) => Cause(d)'
    BY <1>1, <1>2, <1>4, OthersKeepCause
  <2> QED
    BY <2>1, <1>1, <1>2, <1>4 DEF Excused, Quiet, QuietMenu
<1> QED
  BY <1>1, <1>3, <1>4 DEF Excused, Quiet

(* After the receive queue has been looked at: the menu is shown only to a *)
(* client that has no query.                                               *)
LEMMA TurnExcused ==
  ASSUME TypeInv, NEW c \in Clients, Turn(c), QuietMenu,
         \A p \in Procs : p # c => queue'[p] = queue[p],
         active' \in [Clients -> BOOLEAN],
         \A d \in Clients : d # c => active'[d] = active[d],
         \A d \in Clients : Excused(d),
         active'[c] => active[c] /\ at[c] # "gone" /\ (Answered(c) => Answered(c)')
  PROVE  \A d \in Clients : Excused(d)' /\ Quiet(d)'
<1> USE DEF TypeInv, TypeOK
<1>1. /\ life' = life /\ tid' = tid /\ lost' = lost
      /\ at'[c] = IF active'[c] THEN "select" ELSE "menu"
      /\ \A d \in Clients : d # c => at'[d] = at[d]
      /\ net \subseteq net'
  BY DEF Turn, Goto, Procs, MayHello, ClientHello
<1>2. ASSUME active'[c] PROVE Cause(c)'
  <2>1. Cause(c) /\ (Answered(c) => Answered(c)')
    BY <1>2 DEF Excused
  <2>2. Asked(c) => Asked(c)'
    <3>1. \A s \in Servers : s # c /\ s \in Procs
      BY CLDPAssumption DEF Procs
    <3>2. \A s \in Servers : queue'[s] = queue[s]
      BY <3>1
    <3>3. \A s \in Servers : Waiting(s)' = Waiting(s)
      BY <3>2 DEF Waiting
    <3> QED
      BY <3>3, <1>1, AskedKept
  <2> QED
    BY <2>1, <2>2, <1>1, CauseKept DEF Cause
<1>3. ASSUME NEW d \in Clients, d # c PROVE Excused(d)' /\ Quiet(d)'
  <2>1. Cause(d) => Cause(d)'
    BY <1>1, <1>3, OthersKeepCause
  <2> QED
    BY <2>1, <1>1, <1>3 DEF Excused, Quiet, QuietMenu
<1> QED
  BY <1>1, <1>2, <1>3 DEF Excused, Quiet

(* A response that is not taken for the answer was not the answer.         *)
LEMMA RecvKeepsAnswer ==
  ASSUME TypeInv, NEW c \in Clients, ClientRecv(c), active'[c], Answered(c)
  PROVE  Answered(c)'
<1> USE DEF TypeInv, TypeOK
<1>1. /\ queue[c] # <<>> /\ queue[c] \in Seq(Packet) /\ queue'[c] = Tail(queue[c])
      /\ active[c] /\ ~Accepts(c, Head(queue[c])) /\ life' = life /\ tid' = tid
  BY DEF ClientRecv, Turn, Procs
<1>2. PICK m \in Waiting(c) : m.type = "response" /\ Of(m, c)
  BY DEF Answered
<1>3. Accepts(c, m)
  BY <1>1, <1>2 DEF Accepts, Matches, Of
<1>4. PICK i \in DOMAIN queue[c] : m = queue[c][i]
  BY <1>2 DEF Waiting
<1>5. m # Head(queue[c])
  BY <1>1, <1>3
<1>6. \E j \in DOMAIN Tail(queue[c]) : Tail(queue[c])[j] = m
  BY <1>1, <1>4, <1>5, HeadOrRest
<1>7. m \in Waiting(c)'
  BY <1>1, <1>6 DEF Waiting
<1>8. Of(m, c)'
  BY <1>1, <1>2 DEF Of, Me
<1> QED
  BY <1>2, <1>7, <1>8 DEF Answered

LEMMA ClientExcused ==
  ASSUME TypeInv, NEW c \in Clients, Client(c), QuietMenu, \A d \in Clients : Excused(d)
  PROVE  \A d \in Clients : Excused(d)' /\ Quiet(d)'
<1> USE DEF TypeInv, TypeOK
<1>1. CASE ChooseAgain(c)
  BY <1>1, ObeyExcused DEF ChooseAgain
<1>2. CASE \E k \in Choices : Choose(c, k)
  BY <1>2, ObeyExcused DEF Choose
<1>3. CASE ClientRecv(c)
  <2>1. /\ Turn(c) /\ at[c] = "select"
        /\ \A p \in Procs : p # c => queue'[p] = queue[p]
        /\ active' \in [Clients -> BOOLEAN] /\ (active'[c] => active[c])
        /\ \A d \in Clients : d # c => active'[d] = active[d]
    BY <1>3 DEF ClientRecv
  <2> QED
    BY <1>3, <2>1, RecvKeepsAnswer, TurnExcused
<1>4. CASE ClientIdle(c)
  <2>1. Turn(c) /\ at[c] = "select" /\ queue' = queue /\ active' = active
    BY <1>4 DEF ClientIdle
  <2>2. Answered(c) => Answered(c)'
    BY <2>1, AnsweredKept DEF Waiting, Turn
  <2> QED
    BY <2>1, <2>2, TurnExcused
<1>5. CASE Leave(c)
  <2>1. /\ net' = net /\ life' = life /\ ~active'[c]
        /\ \A p \in Procs : p # c => queue'[p] = queue[p] /\ at'[p] = at[p]
        /\ \A d \in Clients : d # c => tid'[d] = tid[d] /\ lost'[d] = lost[d] /\ active'[d] = active[d]
    BY <1>5 DEF Leave, Goto
  <2>2. ASSUME NEW d \in Clients, d # c PROVE Excused(d)' /\ Quiet(d)'
    <3>1. Cause(d) => Cause(d)'
      BY <2>1, <2>2, OthersKeepCause
    <3> QED
      BY <3>1, <2>1, <2>2 DEF Excused, Quiet, QuietMenu, Procs
  <2> QED
    BY <2>1, <2>2 DEF Excused, Quiet
<1>6. CASE ClientSignal(c)
  <2>1. UNCHANGED <<net, procVars, queryVars, lost>>
    BY <1>6 DEF ClientSignal
  <2>2. ASSUME NEW d \in Clients PROVE Excused(d)' = Excused(d) /\ Quiet(d)' = Quiet(d)
    BY <2>1 DEF Excused, Quiet, Cause, OnTheWay, Asked, Answered, Waiting, Of, Me, procVars, queryVars
  <2> QED
    BY <2>2 DEF QuietMenu, Quiet
<1>7. CASE ClientStart(c)
  <2>1. /\ UNCHANGED <<net, queue, active, tid, lost>> /\ at[c] = "gone"
        /\ \A d \in Clients : d # c => life'[d] = life[d] /\ at'[d] = at[d]
    BY <1>7 DEF ClientStart, Goto, queryVars, Procs
  <2>2. ~active'[c]
    BY <2>1 DEF QuietMenu
  <2>3. ASSUME NEW d \in Clients, d # c PROVE Excused(d)' /\ Quiet(d)'
    <3>1. Cause(d) => Cause(d)'
      BY <2>1, <2>3, OthersKeepCause
    <3> QED
      BY <3>1, <2>1, <2>3 DEF Excused, Quiet, QuietMenu
  <2> QED
    BY <2>2, <2>3 DEF Excused, Quiet
<1> QED
  BY <1>1, <1>2, <1>3, <1>4, <1>5, <1>6, <1>7 DEF Client

(* The invariant is the excuse of each client.                             *)
LEMMA ExcuseIsCause == WaitingHasCause <=> \A c \in Clients : Excused(c)
BY DEF WaitingHasCause, Excused, Cause, OnTheWay, Asked, Answered

(* The inductive invariant holds at the start and is kept by every step.   *)
THEOREM InitInvariant == Init => IInv
<1> SUFFICES ASSUME Init PROVE IInv
  OBVIOUS
<1>1. \A c \in Clients : ~active[c]
  BY DEF Init
<1> QED
  BY <1>1, InitTypes DEF IInv, QuietMenu, WaitingHasCause

(* No step of the network or a server touches a query that a client has    *)
(* open, and a client's own step opens it with a query on its way.         *)
THEOREM NextInvariant == IInv /\ [Next]_vars => IInv'
<1> SUFFICES ASSUME IInv, [Next]_vars PROVE IInv'
  OBVIOUS
<1>1. TypeInv'
  BY NextTypes DEF IInv
<1>2. TypeInv /\ QuietMenu /\ \A c \in Clients : Excused(c)
  BY ExcuseIsCause DEF IInv
<1>3. \A c \in Clients : Excused(c)' /\ Quiet(c)'
  <2>1. CASE Network
    <3>1. PICK m \in net : Deliver(m) \/ Lose(m)
      BY <2>1 DEF Network, Arrives
    <3>2. at' = at /\ active' = active
      BY <3>1 DEF Deliver, Lose, procVars, queryVars
    <3>3. ASSUME NEW c \in Clients, Cause(c) PROVE Cause(c)'
      BY <1>2, <3>1, <3>3, DeliverKeepsCause, LoseKeepsCause
    <3> QED
      BY <1>2, <3>2, <3>3 DEF Excused, Quiet, QuietMenu
  <2>2. CASE \E s \in Servers : Server(s)
    <3>1. PICK s \in Servers : Server(s)
      BY <2>2
    <3>2. active' = active /\ \A c \in Clients : at'[c] = at[c]
      <4>1. \A c \in Clients : c # s /\ c \in Procs
        BY CLDPAssumption DEF Procs
      <4>2. active' = active /\ (at' = at \/ Goto(s, "gone") \/ Goto(s, "select"))
        BY <3>1 DEF Server, ServerHello, ServerRecv, ServerStop, ServerStart, procVars, queryVars
      <4> QED
        BY <4>1, <4>2, <1>2 DEF Goto, TypeInv, TypeOK
    <3>3. ASSUME NEW c \in Clients, Cause(c) PROVE Cause(c)'
      BY <1>2, <3>1, <3>3, ServerKeepsCause
    <3> QED
      BY <1>2, <3>2, <3>3 DEF Excused, Quiet, QuietMenu
  <2>3. CASE \E c \in Clients : Client(c)
    BY <1>2, <2>3, ClientExcused
  <2>4. CASE UNCHANGED vars
    <3>1. UNCHANGED <<net, procVars, queryVars, lost>>
      BY <2>4 DEF vars
    <3>2. ASSUME NEW d \in Clients PROVE Excused(d)' = Excused(d) /\ Quiet(d)' = Quiet(d)
      BY <3>1 DEF Excused, Quiet, Cause, OnTheWay, Asked, Answered, Waiting, Of, Me, procVars, queryVars
    <3> QED
      BY <1>2, <3>2 DEF QuietMenu, Quiet
  <2> QED
    BY <2>1, <2>2, <2>3, <2>4 DEF Next
<1>4. WaitingHasCause'
  BY <1>3 DEF WaitingHasCause, Excused, Cause, OnTheWay, Asked, Answered
<1>5. QuietMenu'
  BY <1>3 DEF QuietMenu, Quiet
<1> QED
  BY <1>1, <1>4, <1>5 DEF IInv

(* A client waits only while a packet of its query is on its way or in the *)
(* queue of who will deal with it, or when one was lost: no choice, late   *)
(* answer, signal or restart leaves query_active set for nothing.          *)
THEOREM WaitsWithCause == Spec => []WaitingHasCause
<1>1. IInv => WaitingHasCause
  BY DEF IInv
<1> QED
  BY <1>1, InitInvariant, NextInvariant, PTL DEF Spec

-----------------------------------------------------------------------------
(* Answers that match.  The queries of one run are told apart by nothing   *)
(* but the numbers that rand has given.                                    *)

(* The packets of the protocol that are anywhere.                          *)
Around == net \cup UNION {Waiting(p) : p \in Procs}

(* No packet is of a run to come; one of this run has a number drawn in    *)
(* it; and unless the number of the active query was drawn twice, what     *)
(* has this number asks for, or answers, what was chosen, of the host that *)
(* was given.                                                              *)
Past(m, c) == m.by[1] = c => m.by[2] <= life[c]
Numbered(m, c) == m.type # "hello" /\ m.by = Me(c) /\ at[c] # "gone" =>
                    \E i \in 0 .. 2 * MaxSends : i < drawn[c] /\ m.tid = Rand[i]
Fitting(m, c) == m.type # "hello" /\ Of(m, c) /\ active[c] /\ ~Repeats(c) =>
                   /\ m.query = choice[c]
                   /\ m.type = "query" => m.to = target[c]
                   /\ m.type = "response" => m.src = target[c]
Fits(m) == \A c \in Clients : Past(m, c) /\ Numbered(m, c) /\ Fitting(m, c)
PacketsFit == \A m \in Around : Fits(m)

MatchInv == IInv /\ PacketsFit

(* A packet fits on when its client has neither been started again nor     *)
(* chosen again nor asked again.                                           *)
LEMMA FitsKept ==
  ASSUME TypeInv, NEW m \in Packet, NEW c \in Clients,
         Past(m, c), Numbered(m, c), Fitting(m, c),
         life'[c] = life[c], drawn'[c] \in Nat, drawn[c] <= drawn'[c],
         at'[c] # "gone" => at[c] # "gone",
         active'[c] => active[c],
         tid'[c] = tid[c], choice'[c] = choice[c], target'[c] = target[c]
  PROVE  Past(m, c)' /\ Numbered(m, c)' /\ Fitting(m, c)'
<1>0. Repeats(c) => Repeats(c)'
  <2> SUFFICES ASSUME Repeats(c) PROVE Repeats(c)'
    OBVIOUS
  <2>1. PICK i, j \in 0 .. 2 * MaxSends : i < j /\ j < drawn[c] /\ Rand[i] = tid[c] /\ Rand[j] = tid[c]
    BY DEF Repeats
  <2>2. j < drawn'[c]
    BY <2>1, CLDPAssumption DEF TypeInv, TypeOK
  <2> QED
    BY <2>1, <2>2 DEF Repeats
<1>1. Past(m, c)' /\ Fitting(m, c)'
  BY <1>0 DEF Past, Fitting, Of, Me
<1>2. ASSUME m.type # "hello", m.by = Me(c)', at'[c] # "gone"
      PROVE  \E i \in 0 .. 2 * MaxSends : i < drawn'[c] /\ m.tid = Rand[i]
  <2>1. PICK i \in 0 .. 2 * MaxSends : i < drawn[c] /\ m.tid = Rand[i]
    BY <1>2 DEF Numbered, Me
  <2>2. i < drawn'[c]
    BY <2>1, CLDPAssumption DEF TypeInv, TypeOK
  <2> QED
    BY <2>1, <2>2
<1> QED
  BY <1>1, <1>2 DEF Numbered

(* What goes round are packets, and a step that only moves them adds none. *)
LEMMA AroundIsPackets ==
  ASSUME TypeOK
  PROVE  Around \subseteq Packet
BY DEF TypeOK, Around, Waiting

LEMMA TailMoves ==
  ASSUME TypeOK, NEW p \in Procs, queue[p] # <<>>, queue' = [queue EXCEPT ![p] = Tail(@)]
  PROVE  /\ Head(queue[p]) \in Waiting(p)
         /\ \A q \in Procs : Waiting(q)' \subseteq Waiting(q)
<1>1. queue[p] \in Seq(Packet)
  BY DEF TypeOK
<1>2. Head(queue[p]) = queue[p][1] /\ 1 \in DOMAIN queue[p]
  BY <1>1
<1>3. \A i \in DOMAIN Tail(queue[p]) : i + 1 \in DOMAIN queue[p] /\ Tail(queue[p])[i] = queue[p][i + 1]
  BY <1>1
<1>4. queue'[p] = Tail(queue[p]) /\ \A q \in Procs : q # p => queue'[q] = queue[q]
  BY DEF TypeOK
<1>5. Waiting(p)' \subseteq Waiting(p)
  BY <1>3, <1>4 DEF Waiting
<1>6. \A q \in Procs : q # p => Waiting(q)' = Waiting(q)
  BY <1>4 DEF Waiting
<1>7. Head(queue[p]) \in Waiting(p)
  BY <1>2 DEF Waiting
<1> QED
  BY <1>5, <1>6, <1>7

LEMMA NetworkMoves ==
  ASSUME TypeOK, NEW m \in net, Deliver(m) \/ Lose(m)
  PROVE  Around' \subseteq Around
<1>1. net' \subseteq net
  BY DEF Deliver, Lose
<1>2. ASSUME NEW p \in Procs PROVE Waiting(p)' \subseteq Waiting(p) \cup {m}
  <2>1. CASE queue'[p] = queue[p]
    BY <2>1 DEF Waiting
  <2>2. CASE queue'[p] = Append(queue[p], m)
    <3>1. queue[p] \in Seq(Packet) /\ m \in Packet
      BY DEF TypeOK
    <3>2. \A i \in DOMAIN Append(queue[p], m) :
             Append(queue[p], m)[i] = m \/ (i \in DOMAIN queue[p] /\ Append(queue[p], m)[i] = queue[p][i])
      BY <3>1
    <3> QED
      BY <2>2, <3>2 DEF Waiting
  <2> QED
    BY <2>1, <2>2 DEF Deliver, Lose, procVars
<1> QED
  BY <1>1, <1>2 DEF Around

-----------------------------------------------------------------------------
(* The network and the servers touch nothing a client knows; a response    *)
(* fits because its query did.                                             *)
LEMMA ClientsAsBefore ==
  ASSUME TypeInv, PacketsFit, NEW m \in Around,
         \A c \in Clients : life'[c] = life[c] /\ at'[c] = at[c],
         UNCHANGED <<drawn, menuVars, queryVars>>
  PROVE  Fits(m)'
<1>1. m \in Packet /\ Fits(m)
  BY AroundIsPackets DEF TypeInv, PacketsFit
<1>2. \A c \in Clients : drawn[c] \in Nat /\ drawn[c] <= drawn[c]
  BY CLDPAssumption DEF TypeInv, TypeOK
<1> QED
  BY <1>1, <1>2, FitsKept DEF Fits, menuVars, queryVars

LEMMA NetworkFits ==
  ASSUME TypeInv, PacketsFit, Network
  PROVE  PacketsFit'
<1>1. PICK m \in net : Deliver(m) \/ Lose(m)
  BY DEF Network, Arrives
<1>2. Around' \subseteq Around
  BY <1>1, NetworkMoves DEF TypeInv
<1>3. UNCHANGED <<life, at, drawn, menuVars, queryVars>>
  BY <1>1 DEF Deliver, Lose, procVars
<1> QED
  BY <1>2, <1>3, ClientsAsBefore DEF PacketsFit

LEMMA ServerFits ==
  ASSUME TypeInv, PacketsFit, NEW s \in Servers, Server(s)
  PROVE  PacketsFit'
<1>0. s \in Procs /\ \A c \in Clients : c # s /\ c \in Procs
  BY CLDPAssumption DEF Procs
<1>1. /\ UNCHANGED <<drawn, menuVars, queryVars>>
      /\ \A c \in Clients : life'[c] = life[c] /\ at'[c] = at[c]
  <2>1. UNCHANGED <<drawn, menuVars, queryVars>>
    BY DEF Server, ServerHello, ServerRecv, ServerStop, ServerStart, procVars
  <2>2. at' = at \/ Goto(s, "gone") \/ Goto(s, "select")
    BY DEF Server, ServerHello, ServerRecv, ServerStop, ServerStart, procVars
  <2>3. life' = life \/ life' = [life EXCEPT ![s] = @ + 1]
    BY DEF Server, ServerHello, ServerRecv, ServerStop, ServerStart, procVars
  <2> QED
    BY <1>0, <2>1, <2>2, <2>3 DEF Goto, TypeInv, TypeOK
<1>2. \A m \in Around : Fits(m)'
  BY <1>1, ClientsAsBefore
<1>3. ASSUME NEW m \in Around', m \notin Around PROVE Fits(m)'
  <2>1. CASE ServerHello(s)
    <3>1. life' = life /\ at' = at /\ Me(s)' = Me(s) /\ queue' = queue
      BY <2>1 DEF ServerHello, procVars, Me
    <3>2. PICK h \in Hosts : m = Hello(s, h)
      BY <1>3, <2>1, <3>1 DEF ServerHello, Around, Waiting
    <3>3. m.type = "hello" /\ m.by = <<s, life[s]>>
      BY <3>2 DEF Hello, Me
    <3> QED
      BY <3>1, <3>3, <1>0 DEF Fits, Past, Numbered, Fitting
  <2>2. CASE ServerRecv(s)
    <3>1. /\ Head(queue[s]) \in Waiting(s)
          /\ \A q \in Procs : Waiting(q)' \subseteq Waiting(q)
      BY <2>2, <1>0, TailMoves DEF ServerRecv, TypeInv
    <3>2. net' \subseteq net \cup {Response(s, Head(queue[s]))}
          /\ (Head(queue[s]).type # "query" => net' = net)
      BY <2>2 DEF ServerRecv, Respond
    <3>3. m = Response(s, Head(queue[s])) /\ Head(queue[s]).type = "query"
      BY <1>3, <3>1, <3>2 DEF Around
    <3>4. Head(queue[s]) \in Around
      BY <1>0, <3>1 DEF Around
    <3>5. PICK q \in Around : q = Head(queue[s])
      BY <3>4
    <3>6. /\ m.type = "response" /\ m.query = q.query /\ m.tid = q.tid
          /\ m.src = q.to /\ m.by = q.by /\ q.type = "query"
      BY <3>3, <3>5 DEF Response
    <3>7. \A c \in Clients : Past(q, c)' /\ Numbered(q, c)' /\ Fitting(q, c)'
      BY <1>2 DEF Fits
    <3>8. ASSUME NEW c \in Clients PROVE Past(m, c)' /\ Numbered(m, c)' /\ Fitting(m, c)'
      BY <3>6, <3>7 DEF Past, Numbered, Fitting, Of
    <3> QED
      BY <3>8 DEF Fits
  <2>3. CASE ServerStop(s)
    <3>1. net' = net /\ \A p \in Procs : Waiting(p)' \subseteq Waiting(p)
      BY <2>3 DEF ServerStop, Waiting, TypeInv, TypeOK
    <3> QED
      BY <1>3, <3>1 DEF Around
  <2>4. CASE ServerStart(s)
    BY <1>3, <2>4 DEF ServerStart, Around, Waiting
  <2> QED
    BY <2>1, <2>2, <2>3, <2>4 DEF Server
<1> QED
  BY <1>2, <1>3 DEF PacketsFit

-----------------------------------------------------------------------------
(* A step of client c: for the others nothing changes.                     *)
LEMMA OtherClientsFit ==
  ASSUME TypeInv, NEW m \in Packet, NEW c \in Clients, NEW d \in Clients, d # c,
         Past(m, d), Numbered(m, d), Fitting(m, d), Client(c)
  PROVE  Past(m, d)' /\ Numbered(m, d)' /\ Fitting(m, d)'
<1> USE DEF TypeInv, TypeOK
<1>0. d \in Procs /\ c \in Procs
  BY DEF Procs
<1> DEFINE Untouched ==
             /\ life'[d] = life[d] /\ at'[d] = at[d] /\ drawn'[d] = drawn[d] /\ active'[d] = active[d]
             /\ tid'[d] = tid[d] /\ choice'[d] = choice[d] /\ target'[d] = target[d]
<1>1. Untouched
  <2>1. ASSUME NEW k, Obey(c, k) PROVE Untouched
    BY <2>1, <1>0 DEF Obey, SendQuery, Sent, NotSent, Goto, Draw, queryVars
  <2>2. ASSUME Turn(c), \A e \in Clients : e # c => active'[e] = active[e] PROVE Untouched
    BY <2>2, <1>0 DEF Turn, MayHello, ClientHello, Goto, Draw, menuVars
  <2>3. CASE ChooseAgain(c) \/ \E k \in Choices : Choose(c, k)
    BY <2>1, <2>3 DEF ChooseAgain, Choose
  <2>4. CASE ClientRecv(c) \/ ClientIdle(c)
    BY <2>2, <2>4 DEF ClientRecv, ClientIdle
  <2>5. CASE Leave(c)
    BY <1>0, <2>5 DEF Leave, Goto
  <2>6. CASE ClientSignal(c)
    BY <2>6 DEF ClientSignal, procVars, queryVars
  <2>7. CASE ClientStart(c)
    BY <1>0, <2>7 DEF ClientStart, Goto, queryVars
  <2> QED
    BY <2>3, <2>4, <2>5, <2>6, <2>7 DEF Client
<1>2. drawn'[d] \in Nat /\ drawn[d] <= drawn'[d]
  BY <1>1, CLDPAssumption
<1> QED
  BY <1>1, <1>2, FitsKept

(* A packet that client c makes says nothing of another one.               *)
LEMMA OwnPacketFits ==
  ASSUME NEW m, NEW c \in Clients, m.by = Me(c)', NEW d \in Clients, d # c
  PROVE  Past(m, d)' /\ Numbered(m, d)' /\ Fitting(m, d)'
BY DEF Past, Numbered, Fitting, Of, Me

(* The new query fits.  If an older packet of this run has its number, the *)
(* number was drawn for that one and is drawn again now; at the menu there *)
(* was no query.                                                           *)
LEMMA ObeyFits ==
  ASSUME TypeInv, QuietMenu, PacketsFit,
         NEW c \in Clients, NEW k \in Choices, Obey(c, k), at[c] = "menu", Client(c)
  PROVE  PacketsFit'
<1> USE DEF TypeInv, TypeOK
<1>0. c \in Procs
  BY DEF Procs
<1>1. /\ ~active[c] /\ queue' = queue /\ life' = life /\ at'[c] = "select"
      /\ target' = target /\ choice'[c] = k
  BY <1>0 DEF Obey, QuietMenu, Goto
<1>2. drawn'[c] \in Nat /\ drawn[c] \in Nat /\ drawn[c] <= drawn'[c]
  <2>1. drawn[c] \in Nat
    BY CLDPAssumption
  <2>2. drawn'[c] \in {drawn[c], drawn[c] + 1, drawn[c] + 2}
    BY DEF Obey, SendQuery, Draw
  <2> QED
    BY <2>1, <2>2
<1>3. CASE active'[c] = active[c] /\ net' = net
  <2>1. Around' = Around
    BY <1>1, <1>3 DEF Around, Waiting
  <2>2. ASSUME NEW m \in Around PROVE Fits(m)'
    <3>1. m \in Packet /\ Fits(m)
      BY AroundIsPackets DEF PacketsFit
    <3>2. Past(m, c)' /\ Fitting(m, c)'
      BY <3>1, <1>1, <1>3 DEF Fits, Past, Fitting
    <3>3. Numbered(m, c)'
      <4> SUFFICES ASSUME m.type # "hello", m.by = Me(c)'
                   PROVE  \E i \in 0 .. 2 * MaxSends : i < drawn'[c] /\ m.tid = Rand[i]
        BY DEF Numbered
      <4>1. PICK i \in 0 .. 2 * MaxSends : i < drawn[c] /\ m.tid = Rand[i]
        BY <1>1, <3>1 DEF Fits, Numbered, Me
      <4>2. i < drawn'[c]
        BY <4>1, <1>2
      <4> QED
        BY <4>1, <4>2
    <3> QED
      BY <3>1, <3>2, <3>3, OtherClientsFit DEF Fits
  <2> QED
    BY <2>1, <2>2 DEF PacketsFit
<1>4. CASE ~(active'[c] = active[c] /\ net' = net)
  <2>1. /\ k \in Queries /\ Attempt /\ drawn' = [drawn EXCEPT ![c] = @ + 2]
        /\ tid' = [tid EXCEPT ![c] = Rand[drawn[c] + 1]]
        /\ net' = net \cup {Query(c, k)}
    BY <1>4 DEF Obey, SendQuery, Sent, NotSent, Draw, queryVars
  <2>2. drawn[c] + 1 \in 0 .. 2 * MaxSends /\ drawn[c] + 1 < drawn'[c]
    <3>1. drawn'[c] = drawn[c] + 2
      BY <2>1
    <3>2. sends \in Nat /\ MaxSends \in Nat /\ sends < MaxSends /\ drawn[c] <= 2 * sends
      BY <2>1, CLDPAssumption DEF NumbersLast, Attempt
    <3> QED
      BY <1>2, <3>1, <3>2
  <2>3. tid'[c] = Rand[drawn[c] + 1]
    BY <2>1
  <2>4. ASSUME NEW m \in Around PROVE Fits(m)'
    <3>1. m \in Packet /\ Past(m, c) /\ Numbered(m, c)
      BY AroundIsPackets DEF PacketsFit, Fits
    <3>2. Past(m, c)'
      BY <3>1, <1>1 DEF Past
    <3>3. ASSUME m.type # "hello", m.by = Me(c)'
          PROVE  /\ \E i \in 0 .. 2 * MaxSends : i < drawn'[c] /\ m.tid = Rand[i]
                 /\ m.tid = tid'[c] => Repeats(c)'
      <4>1. PICK i \in 0 .. 2 * MaxSends : i < drawn[c] /\ m.tid = Rand[i]
        BY <1>1, <3>1, <3>3 DEF Numbered, Me
      <4>2. i < drawn'[c] /\ i < drawn[c] + 1
        BY <4>1, <1>2
      <4>3. ASSUME m.tid = tid'[c] PROVE Repeats(c)'
        <5>1. Rand[i] = tid'[c] /\ Rand[drawn[c] + 1] = tid'[c]
          BY <4>1, <4>3, <2>3
        <5> QED
          BY <5>1, <4>2, <2>2 DEF Repeats
      <4> QED
        BY <4>1, <4>2, <4>3
    <3>4. Numbered(m, c)' /\ Fitting(m, c)'
      BY <3>3 DEF Numbered, Fitting, Of
    <3>5. \A d \in Clients : Past(m, d) /\ Numbered(m, d) /\ Fitting(m, d)
      BY DEF PacketsFit, Fits
    <3>6. \A d \in Clients : d # c => Past(m, d)' /\ Numbered(m, d)' /\ Fitting(m, d)'
      BY <3>1, <3>5, OtherClientsFit
    <3> QED
      BY <3>2, <3>4, <3>6 DEF Fits
  <2>5. ASSUME NEW m, m = Query(c, k) PROVE Fits(m)'
    <3>1. /\ m.type = "query" /\ m.query = k /\ m.tid = tid'[c]
          /\ m.to = target[c] /\ m.by = Me(c)'
      BY <2>5, <1>1 DEF Query, Me
    <3>2. Past(m, c)'
      <4>1. life[c] \in Nat /\ m.by[2] = life'[c]
        BY <1>0, <1>1, <3>1 DEF Me
      <4>2. m.by[2] <= life'[c]
        BY <4>1, <1>1
      <4> QED
        BY <4>2 DEF Past
    <3>3. Numbered(m, c)' /\ Fitting(m, c)'
      BY <3>1, <2>2, <2>3, <1>1 DEF Numbered, Fitting
    <3>4. \A d \in Clients : d # c => Past(m, d)' /\ Numbered(m, d)' /\ Fitting(m, d)'
      BY <3>1, OwnPacketFits
    <3> QED
      BY <3>2, <3>3, <3>4 DEF Fits
  <2>6. Around' = Around \cup {Query(c, k)}
    BY <1>1, <2>1 DEF Around, Waiting
  <2>7. ASSUME NEW m \in Around' PROVE Fits(m)'
    <3>1. m \in Around \/ m = Query(c, k)
      BY <2>6
    <3> QED
      BY <3>1, <2>4, <2>5
  <2> QED
    BY <2>7 DEF PacketsFit
<1> QED
  BY <1>3, <1>4

(* At the head of the loop an announcement may be made, and nothing else.  *)
LEMMA TurnFits ==
  ASSUME TypeInv, PacketsFit, NEW c \in Clients, Turn(c), Client(c), at[c] # "gone",
         \A p \in Procs : Waiting(p)' \subseteq Waiting(p),
         active'[c] => active[c]
  PROVE  PacketsFit'
<1> USE DEF TypeInv, TypeOK
<1>0. c \in Procs
  BY DEF Procs
<1>1. UNCHANGED <<life, target, choice, tid>>
  BY DEF Turn, menuVars
<1>2. drawn'[c] \in Nat /\ drawn[c] <= drawn'[c]
  <2>1. drawn[c] \in Nat
    BY CLDPAssumption
  <2>2. drawn'[c] \in {drawn[c], drawn[c] + 1, drawn[c] + 2}
    BY DEF Turn, MayHello, ClientHello, Draw
  <2> QED
    BY <2>1, <2>2
<1>3. net' \subseteq net \cup {Hello(c, target[c])}
  BY DEF Turn, MayHello, ClientHello
<1>4. ASSUME NEW m \in Around' PROVE Fits(m)'
  <2>1. CASE m \in Around
    <3>1. m \in Packet /\ \A d \in Clients : Past(m, d) /\ Numbered(m, d) /\ Fitting(m, d)
      BY <2>1, AroundIsPackets DEF PacketsFit, Fits
    <3>2. Past(m, c)' /\ Numbered(m, c)' /\ Fitting(m, c)'
      BY <3>1, <1>1, <1>2, FitsKept
    <3>3. \A d \in Clients : d # c => Past(m, d)' /\ Numbered(m, d)' /\ Fitting(m, d)'
      BY <3>1, OtherClientsFit
    <3> QED
      BY <3>2, <3>3 DEF Fits
  <2>2. CASE m \notin Around
    <3>1. m = Hello(c, target[c])
      BY <2>2, <1>3, <1>4 DEF Around
    <3>2. m.type = "hello" /\ m.by = Me(c)'
      BY <3>1, <1>1 DEF Hello, Me
    <3>3. Past(m, c)'
      <4>1. life[c] \in Nat /\ m.by[2] = life'[c]
        BY <1>0, <1>1, <3>2 DEF Me
      <4>2. m.by[2] <= life'[c]
        BY <4>1, <1>1
      <4> QED
        BY <4>2 DEF Past
    <3>4. Numbered(m, c)' /\ Fitting(m, c)'
      BY <3>2 DEF Numbered, Fitting
    <3>5. \A d \in Clients : d # c => Past(m, d)' /\ Numbered(m, d)' /\ Fitting(m, d)'
      BY <3>2, OwnPacketFits
    <3> QED
      BY <3>3, <3>4, <3>5 DEF Fits
  <2> QED
    BY <2>1, <2>2
<1> QED
  BY <1>4 DEF PacketsFit

LEMMA ClientFits ==
  ASSUME TypeInv, QuietMenu, PacketsFit, NEW c \in Clients, Client(c)
  PROVE  PacketsFit'
<1> USE DEF TypeInv, TypeOK
<1>0. c \in Procs
  BY DEF Procs
<1>1. CASE ChooseAgain(c) \/ \E k \in Choices : Choose(c, k)
  BY <1>1, ObeyFits DEF ChooseAgain, Choose
<1>2. CASE ClientRecv(c)
  <2>1. /\ Turn(c) /\ at[c] # "gone" /\ (active'[c] => active[c])
        /\ queue[c] # <<>> /\ queue' = [queue EXCEPT ![c] = Tail(@)]
    BY <1>2 DEF ClientRecv
  <2>2. \A p \in Procs : Waiting(p)' \subseteq Waiting(p)
    BY <2>1, <1>0, TailMoves
  <2> QED
    BY <1>2, <2>1, <2>2, TurnFits DEF ClientRecv
<1>3. CASE ClientIdle(c)
  <2>1. Turn(c) /\ at[c] # "gone" /\ active' = active /\ queue' = queue
    BY <1>3 DEF ClientIdle
  <2>2. \A p \in Procs : Waiting(p)' \subseteq Waiting(p)
    BY <2>1 DEF Waiting
  <2> QED
    BY <2>1, <2>2, TurnFits
<1>4. CASE Leave(c) \/ ClientSignal(c) \/ ClientStart(c)
  <2>1. Around' \subseteq Around
    <3>1. net' = net /\ \A p \in Procs : queue'[p] = queue[p] \/ queue'[p] = <<>>
      BY <1>4 DEF Leave, ClientSignal, ClientStart, procVars
    <3>2. ASSUME NEW p \in Procs PROVE Waiting(p)' \subseteq Waiting(p)
      <4>1. CASE queue'[p] = queue[p]
        BY <4>1 DEF Waiting
      <4>2. CASE queue'[p] = <<>>
        <5>1. DOMAIN queue'[p] = {}
          BY <4>2
        <5> QED
          BY <5>1 DEF Waiting
      <4> QED
        BY <3>1, <4>1, <4>2
    <3>3. net' = net
      BY <3>1
    <3> HIDE DEF TypeInv, TypeOK
    <3> QED
      BY <3>2, <3>3 DEF Around
  <2>2. ASSUME NEW m \in Around PROVE Fits(m)'
    <3>1. m \in Packet /\ \A d \in Clients : Past(m, d) /\ Numbered(m, d) /\ Fitting(m, d)
      BY AroundIsPackets DEF PacketsFit, Fits
    <3>2. Past(m, c)' /\ Numbered(m, c)' /\ Fitting(m, c)'
      <4>1. CASE Leave(c)
        <5>1. life' = life /\ at'[c] = "gone" /\ ~active'[c]
          BY <4>1, <1>0 DEF Leave, Goto
        <5> QED
          BY <5>1, <3>1 DEF Past, Numbered, Fitting
      <4>2. CASE ClientSignal(c)
        <5>1. UNCHANGED <<life, drawn, at, active, tid, choice, target>>
          BY <4>2 DEF ClientSignal, procVars, queryVars
        <5> QED
          BY <5>1, <3>1 DEF Past, Numbered, Fitting, Of, Me, Repeats
      <4>3. CASE ClientStart(c)
        <5>1. /\ life'[c] = life[c] + 1 /\ life[c] \in Nat /\ ~active'[c]
          BY <4>3, <1>0 DEF ClientStart, QuietMenu, queryVars
        <5>2. m.by[1] = c => m.by[2] \in Nat /\ m.by[2] <= life[c]
          BY <3>1 DEF Past, Packet, Runs
        <5>3. Past(m, c)' /\ m.by # Me(c)'
          BY <5>1, <5>2 DEF Past, Me
        <5> QED
          BY <5>1, <5>3 DEF Numbered, Fitting
      <4> QED
        BY <1>4, <4>1, <4>2, <4>3
    <3>3. \A d \in Clients : d # c => Past(m, d)' /\ Numbered(m, d)' /\ Fitting(m, d)'
      BY <3>1, OtherClientsFit
    <3> QED
      BY <3>2, <3>3 DEF Fits
  <2> QED
    BY <2>1, <2>2 DEF PacketsFit
<1> QED
  BY <1>1, <1>2, <1>3, <1>4 DEF Client

(* The packets fit at the start, when there are none, and after any step.  *)
THEOREM InitMatches == Init => MatchInv
<1> SUFFICES ASSUME Init PROVE MatchInv
  OBVIOUS
<1>1. \A p \in Procs : Waiting(p) = {}
  BY DEF Init, Waiting
<1>2. Around = {}
  BY <1>1 DEF Init, Around
<1> QED
  BY <1>2, InitInvariant DEF MatchInv, PacketsFit

THEOREM NextMatches == MatchInv /\ [Next]_vars => MatchInv'
<1> SUFFICES ASSUME MatchInv, [Next]_vars PROVE MatchInv'
  OBVIOUS
<1>1. IInv' /\ TypeInv /\ QuietMenu /\ PacketsFit
  BY NextInvariant DEF MatchInv, IInv
<1>2. CASE Network
  BY <1>1, <1>2, NetworkFits DEF MatchInv
<1>3. CASE \E s \in Servers : Server(s)
  BY <1>1, <1>3, ServerFits DEF MatchInv
<1>4. CASE \E c \in Clients : Client(c)
  BY <1>1, <1>4, ClientFits DEF MatchInv
<1>5. CASE UNCHANGED vars
  <2>1. Around' = Around
    BY <1>5 DEF Around, Waiting, vars, procVars
  <2>2. \A m \in Around : Fits(m)'
    BY <1>1, <1>5, ClientsAsBefore DEF vars, procVars
  <2>3. PacketsFit'
    BY <2>1, <2>2 DEF PacketsFit
  <2> QED
    BY <1>1, <2>3 DEF MatchInv
<1> QED
  <2>1. Network \/ (\E s \in Servers : Server(s)) \/ (\E c \in Clients : Client(c)) \/ UNCHANGED vars
    BY DEF Next
  <2> QED
    BY <2>1, <1>2, <1>3, <1>4, <1>5

(* query_active is only cleared while the program runs on by the head of   *)
(* the receive queue, and that packet fits.                                *)
LEMMA AcceptedFits ==
  ASSUME MatchInv, Next, NEW c \in Clients, active[c], ~active'[c], at'[c] # "gone",
         Head(queue[c]).by = Me(c), ~Repeats(c)
  PROVE  Head(queue[c]).query = choice[c] /\ Head(queue[c]).src = target[c]
<1> USE DEF MatchInv, IInv, TypeInv, TypeOK
<1>0. c \in Procs
  BY DEF Procs
<1>1. CASE ClientRecv(c)
  <2>1. /\ queue[c] # <<>> /\ queue' = [queue EXCEPT ![c] = Tail(@)]
        /\ Accepts(c, Head(queue[c]))
    BY <1>1 DEF ClientRecv
  <2>2. Head(queue[c]) \in Waiting(c)
    BY <2>1, <1>0, TailMoves
  <2>3. Head(queue[c]) \in Around
    BY <2>2, <1>0 DEF Around
  <2>4. Fitting(Head(queue[c]), c)
    BY <2>3 DEF PacketsFit, Fits
  <2> QED
    BY <2>1, <2>4 DEF Accepts, Matches, Fitting, Of
<1>2. CASE ~ClientRecv(c)
  <2>1. CASE Network
    BY <2>1 DEF Network, Arrives, Deliver, Lose, queryVars
  <2>2. CASE \E s \in Servers : Server(s)
    BY <2>2 DEF Server, ServerHello, ServerRecv, ServerStop, ServerStart, queryVars
  <2>3. CASE \E d \in Clients : Client(d)
    <3>1. PICK d \in Clients : Client(d)
      BY <2>3
    <3>2. CASE ChooseAgain(d) \/ \E k \in Choices : Choose(d, k)
      BY <3>2 DEF ChooseAgain, Choose, Obey, SendQuery, Sent, NotSent, queryVars
    <3>3. CASE ClientRecv(d)
      BY <1>2, <3>3 DEF ClientRecv
    <3>4. CASE Leave(d)
      BY <3>4, <1>0 DEF Leave, Goto
    <3>5. CASE ClientIdle(d) \/ ClientSignal(d) \/ ClientStart(d)
      BY <3>5 DEF ClientIdle, ClientSignal, ClientStart, queryVars
    <3> QED
      BY <3>1, <3>2, <3>3, <3>4, <3>5 DEF Client
  <2> QED
    BY <2>1, <2>2, <2>3 DEF Next
<1> QED
  BY <1>1, <1>2

(* The answer that a client takes for its query is of the kind that was    *)
(* chosen and from the host that was given, whatever packets of its        *)
(* earlier queries and of other programs are about.  Only an answer to     *)
(* another run, or a number that rand has given this run twice, can        *)
(* deceive it.                                                             *)
THEOREM AnswersMatch == Spec => AnswersToOwnQueriesMatch
<1> DEFINE Match == \A c \in Clients : active[c] /\ ~active'[c] /\ at'[c] # "gone" =>
                      LET m == Head(queue[c]) IN
                      \/ m.query = choice[c] /\ m.src = target[c]
                      \/ m.by # Me(c)
                      \/ Repeats(c)
<1>1. MatchInv /\ [Next]_vars => [Match]_vars
  BY AcceptedFits
<1>2. Spec => []MatchInv
  BY InitMatches, NextMatches, PTL DEF Spec
<1> QED
  BY <1>1, <1>2, PTL DEF Spec, AnswersToOwnQueriesMatch
=============================================================================
