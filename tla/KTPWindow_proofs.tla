-------------------------- MODULE KTPWindow_proofs --------------------------
(***************************************************************************)
(* Proofs about KTPWindow.                                                 *)
(***************************************************************************)
EXTENDS KTPWindow, FiniteSetTheorems, SequenceTheorems, TLAPS

(* A remainder lies below its divisor.                                     *)
LEMMA ModRange == \A x \in Int, n \in Nat \ {0} : x % n \in 0 .. n - 1
BY SMT

(* Sequence numbers are closed under the arithmetic of R_Thread.           *)
LEMMA SeqnoClosed ==
  /\ MAX_SEQ_NUM \in Nat \ {0} /\ BUFF_SIZE \in Nat \ {0}
  /\ \A s \in Int, k \in Int : After(s, k) \in Seqno
  /\ \A s \in Int, base \in Int : Dist(s, base) \in Seqno
  /\ \A x \in Int : x % BUFF_SIZE \in Buf
  /\ 0 \in Seqno /\ 0 \in Buf
<1>1. MAX_SEQ_NUM \in Nat \ {0} /\ BUFF_SIZE \in Nat \ {0}
  BY SizesAssumption DEF SizesAssumption
<1>2. \A s \in Int, k \in Int : After(s, k) \in Seqno
  BY <1>1, ModRange DEF After, Seqno
<1>3. \A s \in Int, base \in Int : Dist(s, base) \in Seqno
  BY <1>1, ModRange DEF Dist, Seqno
<1>4. \A x \in Int : x % BUFF_SIZE \in Buf
  BY <1>1, ModRange DEF Buf
<1> QED BY <1>1, <1>2, <1>3, <1>4 DEF Seqno, Buf

(* The loops that renumber seq_buf_index_map keep it a map to buffers.     *)
LEMMA RemapType ==
  ASSUME NEW map \in [Seqno -> Buf], NEW base \in Seqno, NEW k
  PROVE  Remap(map, base, k) \in [Seqno -> Buf]
<1>1. ASSUME NEW s \in Seqno
      PROVE  (map[base] + Dist(s, base)) % BUFF_SIZE \in Buf
  <2>1. s \in Int /\ base \in Int
    BY DEF Seqno
  <2>2. Dist(s, base) \in Int
    BY <2>1, SeqnoClosed DEF Seqno
  <2>3. map[base] \in Int
    BY DEF Buf
  <2>4. map[base] + Dist(s, base) \in Int
    BY <2>2, <2>3
  <2> QED BY <2>4, SeqnoClosed
<1> QED BY <1>1 DEF Remap

(* Taking a datagram out of a socket, or queueing some more, leaves a      *)
(* sequence of datagrams.                                                  *)
LEMMA RemoveAtType ==
  ASSUME NEW S, NEW q \in Seq(S), NEW i \in 1 .. Len(q)
  PROVE  RemoveAt(q, i) \in Seq(S)
<1>1. SubSeq(q, 1, i - 1) \in Seq(S)
  OBVIOUS
<1>2. SubSeq(q, i + 1, Len(q)) \in Seq(S)
  OBVIOUS
<1> QED BY <1>1, <1>2 DEF RemoveAt

LEMMA EnqueueType ==
  ASSUME NEW S, NEW q \in Seq(S), NEW batch \in Seq(S)
  PROVE  Enqueue(q, batch) \in Seq(S)
<1> DEFINE r == q \o batch
<1>1. r \in Seq(S)
  OBVIOUS
<1>2. NetCap \in Nat
  BY SizesAssumption DEF SizesAssumption
<1>3. CASE Len(r) <= NetCap
  BY <1>1, <1>3 DEF Enqueue
<1>4. CASE ~ (Len(r) <= NetCap)
  <2>1. SubSeq(r, 1, NetCap) \in Seq(S)
    BY <1>1, <1>2, <1>4
  <2> QED BY <2>1, <1>4 DEF Enqueue
<1> QED BY <1>3, <1>4

(* Queueing one reply, or taking one away, keeps the types of the sockets. *)
LEMMA ReplyType ==
  ASSUME ackNet \in Seq(AckMsg), NEW kind \in {"ack", "space"},
         NEW s \in Seqno, NEW w \in Window, Reply(kind, s, w)
  PROVE  ackNet' \in Seq(AckMsg)
<1>1. Ack(kind, s, w) \in AckMsg
  BY DEF Ack, AckMsg
<1>2. <<Ack(kind, s, w)>> \in Seq(AckMsg)
  BY <1>1
<1> QED BY <1>2, EnqueueType DEF Reply

LEMMA TakeData ==
  ASSUME dataNet \in Seq(DataMsg), NEW i \in DataArrivals
  PROVE  /\ i \in 1 .. Len(dataNet)
         /\ dataNet[i] \in DataMsg
         /\ dataNet[i].seq \in Seqno /\ dataNet[i].body \in 0 .. MaxMsgs
         /\ RemoveAt(dataNet, i) \in Seq(DataMsg)
<1>1. i \in 1 .. Len(dataNet)
  BY DEF DataArrivals
<1>2. dataNet[i] \in DataMsg
  BY <1>1
<1>3. dataNet[i].seq \in Seqno /\ dataNet[i].body \in 0 .. MaxMsgs
  BY <1>2 DEF DataMsg
<1> QED BY <1>1, <1>2, <1>3, RemoveAtType

LEMMA TakeAck ==
  ASSUME ackNet \in Seq(AckMsg), NEW i \in AckArrivals
  PROVE  /\ i \in 1 .. Len(ackNet)
         /\ ackNet[i].seq \in Seqno /\ ackNet[i].wnd \in Window
         /\ RemoveAt(ackNet, i) \in Seq(AckMsg)
<1>1. i \in 1 .. Len(ackNet)
  BY DEF AckArrivals
<1>2. ackNet[i] \in AckMsg
  BY <1>1
<1>3. ackNet[i].seq \in Seqno /\ ackNet[i].wnd \in Window
  BY <1>2 DEF AckMsg
<1> QED BY <1>1, <1>3, RemoveAtType

-----------------------------------------------------------------------------
(* Type correctness, action by action.                                     *)

LEMMA InitType == Init => TypeOK
<1> SUFFICES ASSUME Init PROVE TypeOK
  OBVIOUS
<1>1. Remap([s \in Seqno |-> 0], 0, BUFF_SIZE) \in [Seqno -> Buf]
  <2>1. [s \in Seqno |-> 0] \in [Seqno -> Buf]
    BY SeqnoClosed
  <2> QED BY <2>1, SeqnoClosed, RemapType
<1>2. [s \in Seqno |-> IF s < BUFF_SIZE THEN s ELSE 0] \in [Seqno -> Buf]
  BY SeqnoClosed DEF Seqno, Buf
<1>3. MaxMsgs \in Nat /\ MaxSessions \in Nat \ {0}
  BY SizesAssumption DEF SizesAssumption
<1>4. BUFF_SIZE \in Window /\ 1 \in 0 .. BUFF_SIZE
  BY SeqnoClosed DEF Window
<1>5. /\ snd_map \in [Seqno -> Buf] /\ rcv_map \in [Seqno -> Buf]
      /\ snd_valid \in [Buf -> 0 .. 2] /\ rcv_valid \in [Buf -> 0 .. 1]
      /\ send_buff \in [Buf -> 0 .. MaxMsgs]
      /\ recv_buff \in [Buf -> 0 .. MaxMsgs]
  BY <1>1, <1>2, <1>3 DEF Init
<1>6. /\ snd_window \in Window /\ rcv_window \in Window
      /\ last_seq_ack \in Seqno /\ last_inorder \in Seqno
      /\ last_buf_index \in Buf /\ to_deliver \in 0 .. BUFF_SIZE
  BY <1>4, SeqnoClosed DEF Init
<1>7. /\ nospace \in 0 .. 1 /\ prev_empty \in 0 .. 1
      /\ dataNet \in Seq(DataMsg) /\ ackNet \in Seq(AckMsg)
      /\ accepted \in 0 .. MaxMsgs /\ delivered \in Seq(0 .. MaxMsgs)
      /\ session \in 1 .. MaxSessions
  BY <1>3 DEF Init
<1> QED BY <1>5, <1>6, <1>7 DEF TypeOK

LEMMA ReopenType == TypeOK /\ Reopen => TypeOK'
<1> SUFFICES ASSUME TypeOK, Reopen PROVE TypeOK'
  OBVIOUS
<1>1. snd_map' \in [Seqno -> Buf]
  <2>1. [snd_map EXCEPT ![0] = 0] \in [Seqno -> Buf]
    BY SeqnoClosed DEF TypeOK
  <2> QED BY <2>1, SeqnoClosed, RemapType DEF Reopen, ReopenSender
<1>2. rcv_map' \in [Seqno -> Buf]
  <2>1. \A s \in Seqno : s < BUFF_SIZE => s \in Buf
    BY SeqnoClosed DEF Seqno, Buf
  <2> QED BY <2>1 DEF Reopen, ReopenReceiver, TypeOK
<1>3. MaxMsgs \in Nat /\ MaxSessions \in Nat \ {0}
  BY SizesAssumption DEF SizesAssumption
<1>4. BUFF_SIZE \in Window /\ 1 \in 0 .. BUFF_SIZE
  BY SeqnoClosed DEF Window
<1>5. session' \in 1 .. MaxSessions
  BY <1>3 DEF Reopen, TypeOK
<1>6. /\ snd_window' \in Window /\ rcv_window' \in Window
      /\ last_seq_ack' \in Seqno /\ last_inorder' \in Seqno
      /\ last_buf_index' \in Buf /\ to_deliver' \in 0 .. BUFF_SIZE
  BY <1>4, SeqnoClosed DEF Reopen, ReopenSender, ReopenReceiver
<1>7. /\ snd_valid' \in [Buf -> 0 .. 2] /\ rcv_valid' \in [Buf -> 0 .. 1]
      /\ dataNet' \in Seq(DataMsg) /\ ackNet' \in Seq(AckMsg)
      /\ accepted' \in 0 .. MaxMsgs /\ delivered' \in Seq(0 .. MaxMsgs)
  BY <1>3 DEF Reopen, ReopenSender, ReopenReceiver
<1>8. UNCHANGED <<send_buff, nospace, recv_buff, prev_empty>>
  BY DEF Reopen, ReopenSender, ReopenReceiver
<1> QED BY <1>1, <1>2, <1>5, <1>6, <1>7, <1>8 DEF TypeOK

LEMMA KSendtoType == TypeOK /\ KSendto => TypeOK'
<1> SUFFICES ASSUME TypeOK, KSendto PROVE TypeOK'
  OBVIOUS
<1> DEFINE next == Advance(last_buf_index)
<1>1. next \in Buf
  <2>1. last_buf_index + 1 \in Int
    BY DEF TypeOK, Buf
  <2> QED BY <2>1, SeqnoClosed DEF Advance
<1>2. accepted' = accepted + 1 /\ accepted' \in 0 .. MaxMsgs
  BY SizesAssumption DEF SizesAssumption, KSendto, TypeOK
<1>3. snd_valid' \in [Buf -> 0 .. 2]
  BY <1>1 DEF KSendto, TypeOK
<1>4. send_buff' \in [Buf -> 0 .. MaxMsgs]
  BY <1>1, <1>2 DEF KSendto, TypeOK
<1> QED BY <1>1, <1>2, <1>3, <1>4 DEF KSendto, TypeOK, rcvVars

LEMMA KRecvfromType == TypeOK /\ KRecvfrom => TypeOK'
<1> SUFFICES ASSUME TypeOK, KRecvfrom PROVE TypeOK'
  OBVIOUS
<1> DEFINE next == to_deliver % BUFF_SIZE
<1>0. to_deliver \in Int /\ to_deliver + 1 \in Int
  BY DEF TypeOK
<1>1. next \in Buf
  BY <1>0, SeqnoClosed
<1>2. recv_buff[next] \in 0 .. MaxMsgs
  BY <1>1 DEF TypeOK
<1>3. delivered' \in Seq(0 .. MaxMsgs)
  BY <1>2 DEF KRecvfrom, TypeOK
<1>4. rcv_valid' \in [Buf -> 0 .. 1]
  BY <1>1 DEF KRecvfrom, TypeOK
<1>5. to_deliver' \in 0 .. BUFF_SIZE
  <2>1. Advance(to_deliver) \in Buf
    BY <1>0, SeqnoClosed DEF Advance
  <2>2. to_deliver' = Advance(to_deliver)
    BY DEF KRecvfrom
  <2> QED BY <2>1, <2>2, SeqnoClosed DEF Buf
<1>6. rcv_window' \in Window
  BY SeqnoClosed DEF KRecvfrom, TypeOK, Window
<1>7. rcv_map' \in [Seqno -> Buf]
  BY RemapType DEF KRecvfrom, TypeOK
<1>8. /\ nospace' \in 0 .. 1
      /\ UNCHANGED <<last_inorder, recv_buff, prev_empty, sndVars, dataNet,
                     ackNet, accepted, session>>
  BY DEF KRecvfrom
<1> QED BY <1>3, <1>4, <1>5, <1>6, <1>7, <1>8 DEF TypeOK, sndVars

LEMMA SThreadType == TypeOK /\ SThread => TypeOK'
<1> SUFFICES ASSUME TypeOK, NEW due \in SUBSET Buf, SPass(due) PROVE TypeOK'
  BY DEF SThread
<1> DEFINE n == Cardinality(due)
<1>1. n \in Nat
  <2>1. IsFiniteSet(Buf)
    BY SeqnoClosed, FS_Interval DEF Buf
  <2> QED BY <2>1, FS_Subset, FS_CardinalityType
<1>2. \A j \in Buf : SendSlot(j) \in Buf
  <2>1. last_seq_ack \in Int /\ 1 \in Int
    BY DEF TypeOK, Seqno
  <2>. After(last_seq_ack, 1) \in Seqno
    BY <2>1, SeqnoClosed
  <2>2. snd_map[After(last_seq_ack, 1)] \in Int
    BY DEF TypeOK, Buf
  <2>3. \A j \in Buf : snd_map[After(last_seq_ack, 1)] + j \in Int
    BY <2>2 DEF Buf
  <2> QED BY <2>3, SeqnoClosed DEF SendSlot
<1>3. dataNet' \in Seq(DataMsg)
  <2>1. PICK pick \in [1 .. n -> due] :
          dataNet' = Enqueue(dataNet,
                       [i \in 1 .. n |-> Data(After(last_seq_ack, pick[i] + 1),
                                              send_buff[SendSlot(pick[i])])])
    BY DEF SPass
  <2>2. ASSUME NEW i \in 1 .. n
        PROVE  Data(After(last_seq_ack, pick[i] + 1),
                    send_buff[SendSlot(pick[i])]) \in DataMsg
    <3>1. pick[i] \in Buf
      BY <2>1, <2>2
    <3>2. pick[i] + 1 \in Int /\ last_seq_ack \in Int
      BY <3>1 DEF Buf, TypeOK, Seqno
    <3>3. After(last_seq_ack, pick[i] + 1) \in Seqno
      BY <3>2, SeqnoClosed
    <3>4. send_buff[SendSlot(pick[i])] \in 0 .. MaxMsgs
      BY <3>1, <1>2 DEF TypeOK
    <3> QED BY <3>3, <3>4 DEF Data, DataMsg
  <2>3. [i \in 1 .. n |-> Data(After(last_seq_ack, pick[i] + 1),
                               send_buff[SendSlot(pick[i])])] \in Seq(DataMsg)
    BY <1>1, <2>2
  <2> QED BY <2>1, <2>3, EnqueueType DEF TypeOK
<1>4. snd_valid' \in [Buf -> 0 .. 2]
  BY DEF SPass, TypeOK
<1> QED BY <1>3, <1>4 DEF SPass, TypeOK, rcvVars, histVars

LEMMA DropType == TypeOK /\ (DropData \/ DropAck) => TypeOK'
<1> SUFFICES ASSUME TypeOK, DropData \/ DropAck PROVE TypeOK'
  OBVIOUS
<1>1. dataNet' \in Seq(DataMsg) /\ ackNet' \in Seq(AckMsg)
  BY TakeData, TakeAck DEF DropData, DropAck, TypeOK
<1>2. UNCHANGED <<sndVars, rcvVars, histVars>>
  BY DEF DropData, DropAck
<1> QED BY <1>1, <1>2 DEF TypeOK, sndVars, rcvVars, histVars

LEMMA RecvEmptyType == TypeOK /\ RecvEmpty => TypeOK'
<1> SUFFICES ASSUME TypeOK, RecvEmpty PROVE TypeOK'
  OBVIOUS
<1>1. dataNet' \in Seq(DataMsg)
  BY TakeData DEF RecvEmpty, TypeOK
<1>2. /\ nospace' \in 0 .. 1 /\ prev_empty' \in 0 .. 1
      /\ UNCHANGED <<to_deliver, last_inorder, rcv_window, rcv_valid, rcv_map,
                     recv_buff, sndVars, ackNet, histVars>>
  BY DEF RecvEmpty
<1> QED BY <1>1, <1>2 DEF TypeOK, sndVars, histVars

LEMMA RecvDuplicateType == TypeOK /\ RecvDuplicate => TypeOK'
<1> SUFFICES ASSUME TypeOK, RecvDuplicate PROVE TypeOK'
  OBVIOUS
<1>1. dataNet' \in Seq(DataMsg)
  BY TakeData DEF RecvDuplicate, TypeOK
<1>2. /\ Reply("ack", last_inorder, rcv_window)
      /\ UNCHANGED <<rcvVars, sndVars, histVars>>
  BY DEF RecvDuplicate
<1>3. ackNet' \in Seq(AckMsg)
  BY <1>2, ReplyType DEF TypeOK
<1> QED BY <1>1, <1>2, <1>3 DEF TypeOK, sndVars, rcvVars, histVars

LEMMA RecvExpectedType == TypeOK /\ RecvExpected => TypeOK'
<1> SUFFICES ASSUME TypeOK, RecvExpected PROVE TypeOK'
  OBVIOUS
<1> DEFINE next    == After(last_inorder, 1)
           slot    == rcv_map[next]
           map     == Remap(rcv_map, next, BUFF_SIZE)
           outside == map[After(last_inorder, rcv_window + 1)]
           counted(f) == outside - (map[last_inorder'] + 1) + BUFF_SIZE + f
<1>1. PICK i \in DataArrivals :
        /\ dataNet' = RemoveAt(dataNet, i)
        /\ recv_buff' = [recv_buff EXCEPT ![slot] = dataNet[i].body]
        /\ rcv_valid' = [rcv_valid EXCEPT ![slot] = 1]
        /\ rcv_map' = map
        /\ \E f, n \in Window : /\ last_inorder' = After(next, n)
                                /\ rcv_window' = counted(f) % BUFF_SIZE
        /\ IF rcv_window' = 0 THEN nospace' = 1 /\ prev_empty' = 1
                              ELSE prev_empty' = 0 /\ UNCHANGED nospace
        /\ Reply("ack", last_inorder', rcv_window')
        /\ UNCHANGED <<to_deliver, sndVars, histVars>>
  BY DEF RecvExpected
<1>2. dataNet' \in Seq(DataMsg) /\ dataNet[i].body \in 0 .. MaxMsgs
  BY <1>1, TakeData DEF TypeOK
<1>3. next \in Seqno
  <2>1. last_inorder \in Int /\ 1 \in Int
    BY DEF TypeOK, Seqno
  <2> QED BY <2>1, SeqnoClosed
<1>4. map \in [Seqno -> Buf] /\ slot \in Buf
  BY <1>3, RemapType DEF TypeOK
<1> HIDE DEF next, slot, map, outside, counted
<1>5. /\ recv_buff' \in [Buf -> 0 .. MaxMsgs]
      /\ rcv_valid' \in [Buf -> 0 .. 1]
      /\ rcv_map' \in [Seqno -> Buf]
  <2>1. recv_buff' = [recv_buff EXCEPT ![slot] = dataNet[i].body]
    BY <1>1
  <2>2. rcv_valid' = [rcv_valid EXCEPT ![slot] = 1] /\ rcv_map' = map
    BY <1>1
  <2>3. recv_buff' \in [Buf -> 0 .. MaxMsgs]
    BY <2>1, <1>2, <1>4 DEF TypeOK
  <2>4. rcv_valid' \in [Buf -> 0 .. 1]
    BY <2>2, <1>4 DEF TypeOK
  <2> QED BY <2>2, <2>3, <2>4, <1>4
<1>6. last_inorder' \in Seqno
  <2>1. PICK n \in Window : last_inorder' = After(next, n)
    BY <1>1
  <2>2. next \in Int /\ n \in Int
    BY <1>3, SeqnoClosed DEF Seqno, Window
  <2> QED BY <2>1, <2>2, SeqnoClosed
<1>7. rcv_window' \in Window
  <2>1. PICK f \in Window : rcv_window' = counted(f) % BUFF_SIZE
    BY <1>1
  <2>2. After(last_inorder, rcv_window + 1) \in Seqno
    <3>1. last_inorder \in Int /\ rcv_window + 1 \in Int
      BY SeqnoClosed DEF TypeOK, Seqno, Window
    <3> QED BY <3>1, SeqnoClosed
  <2>3. outside \in Int /\ map[last_inorder'] \in Int
    BY <2>2, <1>4, <1>6 DEF Buf, outside
  <2>4. f \in Int /\ BUFF_SIZE \in Int
    BY SeqnoClosed DEF Window
  <2>5. counted(f) \in Int
    BY <2>3, <2>4 DEF counted
  <2>6. counted(f) % BUFF_SIZE \in Buf
    BY <2>5, SeqnoClosed
  <2> QED BY <2>1, <2>6, SeqnoClosed DEF Buf, Window
<1>8. ackNet' \in Seq(AckMsg)
  <2>1. Ack("ack", last_inorder', rcv_window') \in AckMsg
    BY <1>6, <1>7 DEF Ack, AckMsg
  <2>2. <<Ack("ack", last_inorder', rcv_window')>> \in Seq(AckMsg)
    BY <2>1
  <2> QED BY <1>1, <2>2, EnqueueType DEF Reply, TypeOK
<1>9. nospace' \in 0 .. 1 /\ prev_empty' \in 0 .. 1
  <2>1. IF rcv_window' = 0 THEN nospace' = 1 /\ prev_empty' = 1
                           ELSE prev_empty' = 0 /\ UNCHANGED nospace
    BY <1>1
  <2>2. nospace \in 0 .. 1
    BY DEF TypeOK
  <2> QED BY <2>1, <2>2
<1>10. UNCHANGED <<to_deliver, sndVars, histVars>>
  BY <1>1
<1> QED BY <1>2, <1>5, <1>6, <1>7, <1>8, <1>9, <1>10
        DEF TypeOK, sndVars, histVars

LEMMA RecvAheadType == TypeOK /\ RecvAhead => TypeOK'
<1> SUFFICES ASSUME TypeOK, RecvAhead PROVE TypeOK'
  OBVIOUS
<1>1. PICK i \in DataArrivals :
        LET m == dataNet[i] IN
        /\ dataNet' = RemoveAt(dataNet, i)
        /\ IF Storable(m.seq)
           THEN /\ rcv_valid' = [rcv_valid EXCEPT ![rcv_map[m.seq]] = 1]
                /\ recv_buff' = [recv_buff EXCEPT ![rcv_map[m.seq]] = m.body]
           ELSE UNCHANGED <<rcv_valid, recv_buff>>
        /\ prev_empty' = IF rcv_window # 0 THEN 0 ELSE prev_empty
        /\ Reply("ack", last_inorder, rcv_window)
        /\ UNCHANGED <<to_deliver, last_inorder, rcv_window, nospace, rcv_map,
                       sndVars, histVars>>
  BY DEF RecvAhead
<1>2. /\ dataNet' \in Seq(DataMsg)
      /\ dataNet[i].seq \in Seqno /\ dataNet[i].body \in 0 .. MaxMsgs
  BY <1>1, TakeData DEF TypeOK
<1>3. rcv_map[dataNet[i].seq] \in Buf
  BY <1>2 DEF TypeOK
<1>4. /\ rcv_valid' \in [Buf -> 0 .. 1]
      /\ recv_buff' \in [Buf -> 0 .. MaxMsgs]
      /\ prev_empty' \in 0 .. 1
  <2>1. CASE ~ Storable(dataNet[i].seq)
    BY <1>1, <2>1 DEF TypeOK
  <2>2. CASE Storable(dataNet[i].seq)
    <3> DEFINE b == rcv_map[dataNet[i].seq]
    <3>1. /\ rcv_valid' = [rcv_valid EXCEPT ![b] = 1]
          /\ recv_buff' = [recv_buff EXCEPT ![b] = dataNet[i].body]
          /\ prev_empty' \in {0, prev_empty}
      BY <1>1, <2>2
    <3>2. b \in Buf
      BY <1>3
    <3> HIDE DEF b
    <3>3. rcv_valid' \in [Buf -> 0 .. 1]
      BY <3>1, <3>2 DEF TypeOK
    <3>4. recv_buff' \in [Buf -> 0 .. MaxMsgs]
      BY <3>1, <3>2, <1>2 DEF TypeOK
    <3>5. prev_empty' \in 0 .. 1
      BY <3>1 DEF TypeOK
    <3> QED BY <3>3, <3>4, <3>5
  <2> QED BY <2>1, <2>2
<1>5. ackNet' \in Seq(AckMsg)
  BY <1>1, ReplyType DEF TypeOK
<1> QED BY <1>1, <1>2, <1>4, <1>5 DEF TypeOK, sndVars, histVars

LEMMA RecvOutsideType == TypeOK /\ RecvOutside => TypeOK'
<1> SUFFICES ASSUME TypeOK, RecvOutside PROVE TypeOK'
  OBVIOUS
<1>1. dataNet' \in Seq(DataMsg)
  BY TakeData DEF RecvOutside, TypeOK
<1>2. /\ Reply("ack", last_inorder, rcv_window) \/ UNCHANGED ackNet
      /\ UNCHANGED <<rcvVars, sndVars, histVars>>
  BY DEF RecvOutside
<1>3. ackNet' \in Seq(AckMsg)
  BY <1>2, ReplyType DEF TypeOK
<1> QED BY <1>1, <1>2, <1>3 DEF TypeOK, sndVars, rcvVars, histVars

LEMMA RTimeoutType == TypeOK /\ RTimeout => TypeOK'
<1> SUFFICES ASSUME TypeOK, RTimeout PROVE TypeOK'
  OBVIOUS
<1>1. rcv_window' \in Window
  BY DEF RTimeout
<1>2. rcv_map' \in [Seqno -> Buf]
  BY RemapType DEF RTimeout, TypeOK
<1>3. /\ Reply("space", last_inorder, rcv_window')
      /\ UNCHANGED <<to_deliver, last_inorder, nospace, rcv_valid, recv_buff,
                     prev_empty, sndVars, dataNet, histVars>>
  BY DEF RTimeout
<1>4. ackNet' \in Seq(AckMsg)
  <2>1. Ack("space", last_inorder, rcv_window') \in AckMsg
    BY <1>1 DEF Ack, AckMsg, TypeOK
  <2>2. <<Ack("space", last_inorder, rcv_window')>> \in Seq(AckMsg)
    BY <2>1
  <2> QED BY <1>3, <2>2, EnqueueType DEF Reply, TypeOK
<1> QED BY <1>1, <1>2, <1>3, <1>4 DEF TypeOK, sndVars, histVars

LEMMA RecvAckType == TypeOK /\ RecvAck => TypeOK'
<1> SUFFICES ASSUME TypeOK, RecvAck PROVE TypeOK'
  OBVIOUS
<1>1. PICK i \in AckArrivals :
        LET m == ackNet[i] IN
        /\ ackNet' = RemoveAt(ackNet, i)
        /\ last_seq_ack' \in {m.seq, last_seq_ack}
        /\ snd_window' = m.wnd
        /\ snd_map' = Remap(snd_map, m.seq, m.wnd)
        /\ dataNet' \in {Enqueue(dataNet, <<Empty>>), dataNet}
  BY DEF RecvAck
<1>2. /\ ackNet' \in Seq(AckMsg)
      /\ ackNet[i].seq \in Seqno /\ ackNet[i].wnd \in Window
  BY <1>1, TakeAck DEF TypeOK
<1>3. last_seq_ack' \in Seqno /\ snd_window' \in Window
  BY <1>1, <1>2 DEF TypeOK
<1>4. snd_map' \in [Seqno -> Buf]
  BY <1>1, <1>2, RemapType DEF TypeOK
<1>5. dataNet' \in Seq(DataMsg)
  <2>1. Empty \in DataMsg
    BY SeqnoClosed, SizesAssumption DEF SizesAssumption, Empty, DataMsg
  <2>2. <<Empty>> \in Seq(DataMsg)
    BY <2>1
  <2> QED BY <1>1, <2>2, EnqueueType DEF TypeOK
<1>6. snd_valid' \in [Buf -> 0 .. 2]
  BY DEF RecvAck, TypeOK
<1>7. UNCHANGED <<last_buf_index, send_buff, rcvVars, histVars>>
  BY DEF RecvAck
<1> QED BY <1>2, <1>3, <1>4, <1>5, <1>6, <1>7 DEF TypeOK, rcvVars, histVars

LEMMA StepType == TypeOK /\ [Next]_vars => TypeOK'
<1> SUFFICES ASSUME TypeOK, [Next]_vars PROVE TypeOK'
  OBVIOUS
<1>1. CASE KSendto
  BY <1>1, KSendtoType
<1>2. CASE KRecvfrom
  BY <1>2, KRecvfromType
<1>3. CASE SThread
  BY <1>3, SThreadType
<1>4. CASE RThread
  <2>1. CASE RecvData
    BY <2>1, RecvDuplicateType, RecvExpectedType, RecvAheadType,
       RecvOutsideType DEF RecvData
  <2> QED BY <1>4, <2>1, RecvEmptyType, RecvAckType, DropType, RTimeoutType
          DEF RThread
<1>5. CASE Reopen
  BY <1>5, ReopenType
<1>6. CASE UNCHANGED vars
  BY <1>6 DEF TypeOK, vars, sndVars, rcvVars, histVars
<1> QED BY <1>1, <1>2, <1>3, <1>4, <1>5, <1>6 DEF Next

(* Every index into the rows' arrays stays within the array, every counter *)
(* within its range, for every buffer size and every run of numbers.       *)
THEOREM TypeCorrect == Spec => []TypeOK
<1>1. Init => TypeOK
  BY InitType
<1>2. TypeOK /\ [Next]_vars => TypeOK'
  BY StepType
<1> QED BY <1>1, <1>2, PTL DEF Spec
=============================================================================
