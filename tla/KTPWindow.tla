----------------------------- MODULE KTPWindow -----------------------------
(***************************************************************************)
(* The KTP sliding window: one direction of a connection, from the row of  *)
(* the sending user process (send_window, send_buff) to the row of the     *)
(* receiving one (receive_window, recv_buff), with the S_Thread and the    *)
(* R_Thread of initksocket between them.  The data handler touches only    *)
(* receive_window and the ack handler only send_window, so the other       *)
(* direction of the same connection is an independent copy.                *)
(*                                                                         *)
(* Every handler holds sem_row[i] from its first read of the row to its    *)
(* last write, so each is one action.  Message number n of the session is  *)
(* represented by the number n: accepted counts what k_sendto took, and    *)
(* delivered is what k_recvfrom handed out.                                *)
(***************************************************************************)
EXTENDS Integers, SequencesExt

CONSTANTS
  BUFF_SIZE,     \* SEND_BUFF_SIZE and RECV_BUFF_SIZE
  MAX_SEQ_NUM,   \* sequence numbers live in 0 .. MAX_SEQ_NUM-1
  NetCap,        \* bound: datagrams a UDP socket queues; the rest are lost
  MaxMsgs,       \* bound: messages a session accepts
  MaxSessions,   \* bound: how often the two rows are opened
  Lossy,         \* which of "data" and "ack" datagrams dropMessage(P) may discard
  Reordered,     \* which of "data" and "ack" datagrams may overtake each other
  SlowNet        \* datagrams may stay in flight for longer than the timers

ASSUME SizesAssumption ==
  /\ BUFF_SIZE \in Nat \ {0}
  /\ MAX_SEQ_NUM \in Nat
  /\ BUFF_SIZE + 1 < MAX_SEQ_NUM
  /\ NetCap \in Nat \ {0}
  /\ MaxMsgs \in Nat
  /\ MaxSessions \in Nat \ {0}
  /\ Lossy \subseteq {"data", "ack"} /\ Reordered \subseteq {"data", "ack"}
  /\ SlowNet \in BOOLEAN

VARIABLES
  \* send_window and send_buff of the sending row
  snd_window, last_seq_ack, last_buf_index, snd_valid, snd_map, send_buff,
  \* receive_window and recv_buff of the receiving row, prev_empty of R_Thread
  to_deliver, last_inorder, rcv_window, nospace, rcv_valid, rcv_map,
  recv_buff, prev_empty,
  \* datagrams in flight, in each direction
  dataNet, ackNet,
  \* history: what the two users have seen in this session
  accepted, delivered, session

sndVars  == <<snd_window, last_seq_ack, last_buf_index, snd_valid, snd_map,
              send_buff>>
rcvVars  == <<to_deliver, last_inorder, rcv_window, nospace, rcv_valid,
              rcv_map, recv_buff, prev_empty>>
histVars == <<accepted, delivered, session>>
vars     == <<sndVars, rcvVars, dataNet, ackNet, histVars>>

Buf == 0 .. BUFF_SIZE - 1
Seqno == 0 .. MAX_SEQ_NUM - 1
Window == 0 .. BUFF_SIZE

DataMsg == [kind : {"data", "empty"}, seq : Seqno, body : 0 .. MaxMsgs]
AckMsg  == [kind : {"ack", "space"}, seq : Seqno, wnd : Window]

(* A data datagram, and the two-character special message, whose sequence  *)
(* number and body are never read.                                         *)
Data(s, b) == [kind |-> "data", seq |-> s, body |-> b]
Empty      == [kind |-> "empty", seq |-> 0, body |-> 0]

(* An ack for s that advertises w slots; and one that adds the slot of the *)
(* message it acknowledges.                                                *)
AckOneMore(kind, s, w) == [kind |-> kind, seq |-> s, wnd |-> w + 1]
Ack(kind, s, w) == [kind |-> kind, seq |-> s, wnd |-> w]

(* Sequence number k places after s, and how far s is after base.          *)
After(s, k)   == (s + k) % MAX_SEQ_NUM
Dist(s, base) == (s - base + MAX_SEQ_NUM) % MAX_SEQ_NUM

(* The next slot of a buffer that is used as a ring.                       *)
Advance(b) == (b + 1) % BUFF_SIZE

(* seq_buf_index_map after the loops that number the k sequence numbers    *)
(* following base with the buffers that follow base's; and with loops that  *)
(* stop one short.                                                         *)
RemapShort(map, base, k) ==
  [s \in Seqno |-> IF Dist(s, base) \in 1 .. k - 1
                   THEN (map[base] + Dist(s, base)) % BUFF_SIZE
                   ELSE map[s]]
Remap(map, base, k) ==
  [s \in Seqno |-> IF Dist(s, base) \in 1 .. k
                   THEN (map[base] + Dist(s, base)) % BUFF_SIZE
                   ELSE map[s]]

(* A loop over offsets 0, 1, ... that stops at the first one not in good   *)
(* has passed n of them.                                                   *)
StopsAt(good, n) == 0 .. n - 1 \subseteq good /\ n \notin good

Enqueue(net, batch) ==
  LET q == net \o batch
  IN  IF Len(q) <= NetCap THEN q ELSE SubSeq(q, 1, NetCap)

(* The datagrams recvfrom may return next.                                 *)
DataArrivals == {i \in 1 .. Len(dataNet) : i = 1 \/ "data" \in Reordered}
AckArrivals  == {i \in 1 .. Len(ackNet) : i = 1 \/ "ack" \in Reordered}

(* With a fast network the T-second timers find the sockets drained.       *)
TimersMayFire == SlowNet \/ (dataNet = <<>> /\ ackNet = <<>>)

-----------------------------------------------------------------------------
(* k_socket on two rows of zero-filled shared memory, then k_bind.         *)
Init ==
  /\ snd_window = BUFF_SIZE
  /\ last_seq_ack = 0
  /\ last_buf_index = 0
  /\ snd_valid = [b \in Buf |-> 0]
  /\ snd_map = Remap([s \in Seqno |-> 0], 0, BUFF_SIZE)
  /\ send_buff = [b \in Buf |-> 0]
  /\ to_deliver = 1
  /\ last_inorder = 0
  /\ rcv_window = BUFF_SIZE
  /\ nospace = 0
  /\ rcv_valid = [b \in Buf |-> 0]
  /\ rcv_map = [s \in Seqno |-> IF s < BUFF_SIZE THEN s ELSE 0]
  /\ recv_buff = [b \in Buf |-> 0]
  /\ prev_empty = 0
  /\ dataNet = <<>> /\ ackNet = <<>>
  /\ accepted = 0 /\ delivered = <<>> /\ session = 1

(* Both users k_close, Garbage_Collector closes the UDP sockets, and the   *)
(* next k_socket calls are given the same rows.  Only what k_socket        *)
(* assigns is reset: nospace, the rest of the maps, the buffers and        *)
(* R_Thread's prev_empty keep what the previous owner left.                *)
ReopenSender ==
  /\ snd_window' = BUFF_SIZE
  /\ last_seq_ack' = 0
  /\ last_buf_index' = 0
  /\ snd_valid' = [b \in Buf |-> 0]
  /\ snd_map' = Remap([snd_map EXCEPT ![0] = 0], 0, BUFF_SIZE)
  /\ UNCHANGED send_buff

(* A k_socket that forgets receive_window.to_deliver.                      *)
ReopenReceiverMidway ==
  /\ last_inorder' = 0
  /\ rcv_window' = BUFF_SIZE
  /\ rcv_valid' = [b \in Buf |-> 0]
  /\ rcv_map' = [s \in Seqno |-> IF s < BUFF_SIZE THEN s ELSE rcv_map[s]]
  /\ UNCHANGED <<to_deliver, nospace, recv_buff, prev_empty>>

ReopenReceiver ==
  /\ to_deliver' = 1
  /\ last_inorder' = 0
  /\ rcv_window' = BUFF_SIZE
  /\ rcv_valid' = [b \in Buf |-> 0]
  /\ rcv_map' = [s \in Seqno |-> IF s < BUFF_SIZE THEN s ELSE rcv_map[s]]
  /\ UNCHANGED <<nospace, recv_buff, prev_empty>>

Reopen ==
  /\ session < MaxSessions
  /\ session' = session + 1
  /\ ReopenSender /\ ReopenReceiver
  /\ dataNet' = <<>> /\ ackNet' = <<>>
  /\ accepted' = 0 /\ delivered' = <<>>

-----------------------------------------------------------------------------
(* The calls of the two users.                                             *)

(* k_sendto, when the next slot is free; ENOSPACE changes nothing.         *)
KSendto ==
  LET next == Advance(last_buf_index) IN
  /\ accepted < MaxMsgs
  /\ snd_valid[next] = 0
  /\ snd_valid' = [snd_valid EXCEPT ![next] = 1]
  /\ send_buff' = [send_buff EXCEPT ![next] = accepted + 1]
  /\ last_buf_index' = next
  /\ accepted' = accepted + 1
  /\ UNCHANGED <<snd_window, last_seq_ack, snd_map, rcvVars, dataNet, ackNet,
                 delivered, session>>

(* k_recvfrom, when a message waits; ENOMESSAGE changes nothing.           *)
KRecvfrom ==
  LET next == to_deliver % BUFF_SIZE IN
  /\ rcv_valid[next] = 1
  /\ delivered' = Append(delivered, recv_buff[next])
  /\ rcv_valid' = [rcv_valid EXCEPT ![next] = 0]
  /\ to_deliver' = Advance(to_deliver)
  /\ rcv_window' = IF rcv_window < BUFF_SIZE THEN rcv_window + 1
                   ELSE rcv_window
  /\ rcv_map' = Remap(rcv_map, last_inorder, BUFF_SIZE)
  /\ nospace' = 0
  /\ UNCHANGED <<last_inorder, recv_buff, prev_empty, sndVars, dataNet,
                 ackNet, accepted, session>>

-----------------------------------------------------------------------------
(* S_Thread: one pass over the row.                                        *)

(* The slot of the message at offset j of the window; and counted from the *)
(* last number acknowledged.                                               *)
SendSlotEarly(j) == (snd_map[last_seq_ack] + j) % BUFF_SIZE
SendSlot(j) == (snd_map[After(last_seq_ack, 1)] + j) % BUFF_SIZE

(* A pass sends, in order, the offsets of the set due: every slot of the   *)
(* window that holds a new message, and those already sent whose timer has *)
(* expired.                                                                *)
SPass(due) ==
  LET n == Cardinality(due) IN
  /\ due # {} /\ due \subseteq 0 .. snd_window - 1
  /\ \A j \in 0 .. snd_window - 1 : snd_valid[SendSlot(j)] = 1 => j \in due
  /\ \A j \in due : \/ snd_valid[SendSlot(j)] = 1
                    \/ snd_valid[SendSlot(j)] = 2 /\ TimersMayFire
  /\ snd_valid' = [b \in Buf |-> IF \E j \in due : b = SendSlot(j)
                                 THEN 2 ELSE snd_valid[b]]
  /\ \E pick \in [1 .. n -> due] :
       /\ \A i, k \in 1 .. n : i < k => pick[i] < pick[k]
       /\ dataNet' = Enqueue(dataNet,
                       [i \in 1 .. n |-> Data(After(last_seq_ack, pick[i] + 1),
                                              send_buff[SendSlot(pick[i])])])
  /\ UNCHANGED <<snd_window, last_seq_ack, last_buf_index, snd_map,
                 send_buff, rcvVars, ackNet, histVars>>

SThread == \E due \in SUBSET Buf : SPass(due)

-----------------------------------------------------------------------------
(* R_Thread: a datagram is read from the socket of a row.                  *)

DropData == /\ "data" \in Lossy
            /\ \E i \in DataArrivals : dataNet' = RemoveAt(dataNet, i)
            /\ UNCHANGED <<sndVars, rcvVars, ackNet, histVars>>

DropAck == /\ "ack" \in Lossy
           /\ \E i \in AckArrivals : ackNet' = RemoveAt(ackNet, i)
           /\ UNCHANGED <<sndVars, rcvVars, dataNet, histVars>>

Reply(kind, s, w) == ackNet' = Enqueue(ackNet, <<Ack(kind, s, w)>>)

(* The special message: the sender knows about the free space.             *)
RecvEmpty ==
  \E i \in DataArrivals :
    /\ dataNet[i].kind = "empty"
    /\ dataNet' = RemoveAt(dataNet, i)
    /\ nospace' = 0
    /\ prev_empty' = 0
    /\ UNCHANGED <<to_deliver, last_inorder, rcv_window, rcv_valid, rcv_map,
                   recv_buff, sndVars, ackNet, histVars>>

(* A repetition of the last message in order is in the window, but not to  *)
(* be stored again; and a handler without that test.                       *)
StorableAlways(s) == TRUE
Storable(s) == s # last_inorder

(* The free slots behind the old end of the window, up to the slot of the  *)
(* last message in order; and a count that does not look at the slots.     *)
FreeBehindUnchecked(outside, map, valid) ==
  {j \in Buf : (outside + j) % BUFF_SIZE # map[last_inorder]}
FreeBehind(outside, map, valid) ==
  {j \in Buf : LET b == (outside + j) % BUFF_SIZE
               IN  b # map[last_inorder] /\ valid[b] = 0}

(* The branches of the data handler: the slot the number is mapped to is   *)
(* occupied; or the number is within the window; or it is not.             *)
Occupied(s) == rcv_valid[rcv_map[s]] = 1
InWindow(s) == ~ Occupied(s) /\ Dist(s, last_inorder) <= rcv_window

RecvDuplicate ==
  \E i \in DataArrivals :
    /\ dataNet[i].kind = "data"
    /\ Occupied(dataNet[i].seq)
    /\ dataNet' = RemoveAt(dataNet, i)
    /\ Reply("ack", last_inorder, rcv_window)
    /\ UNCHANGED <<rcvVars, sndVars, histVars>>

(* The next number in order: the window slides over it and over whatever   *)
(* was received ahead of it, and grows by the free slots behind its old    *)
(* end.                                                                    *)
RecvExpected ==
  \E i \in DataArrivals :
    LET m       == dataNet[i]
        next    == After(last_inorder, 1)
        slot    == rcv_map[next]
        valid   == [rcv_valid EXCEPT ![slot] = 1]
        map     == Remap(rcv_map, next, BUFF_SIZE)
        outside == map[After(last_inorder, rcv_window + 1)]
        free    == FreeBehind(outside, map, valid)
        ahead   == {j \in 0 .. rcv_window - 2 :
                      valid[map[After(next, j + 1)]] = 1}
    IN
    /\ m.kind = "data"
    /\ m.seq = next
    /\ InWindow(next)
    /\ dataNet' = RemoveAt(dataNet, i)
    /\ recv_buff' = [recv_buff EXCEPT ![slot] = m.body]
    /\ rcv_valid' = valid
    /\ rcv_map' = map
    /\ \E f, n \in Window :
         /\ StopsAt(free, f)
         /\ StopsAt(ahead, n)
         /\ last_inorder' = After(next, n)
         /\ rcv_window' = (outside - (map[last_inorder'] + 1) + BUFF_SIZE + f)
                            % BUFF_SIZE
    /\ IF rcv_window' = 0 THEN nospace' = 1 /\ prev_empty' = 1
                          ELSE prev_empty' = 0 /\ UNCHANGED nospace
    /\ Reply("ack", last_inorder', rcv_window')
    /\ UNCHANGED <<to_deliver, sndVars, histVars>>

(* Another number of the window is stored for later.                       *)
RecvAhead ==
  \E i \in DataArrivals :
    LET m == dataNet[i] IN
    /\ m.kind = "data"
    /\ InWindow(m.seq)
    /\ m.seq # After(last_inorder, 1)
    /\ dataNet' = RemoveAt(dataNet, i)
    /\ IF Storable(m.seq)
       THEN /\ rcv_valid' = [rcv_valid EXCEPT ![rcv_map[m.seq]] = 1]
            /\ recv_buff' = [recv_buff EXCEPT ![rcv_map[m.seq]] = m.body]
       ELSE UNCHANGED <<rcv_valid, recv_buff>>
    /\ prev_empty' = IF rcv_window # 0 THEN 0 ELSE prev_empty
    /\ Reply("ack", last_inorder, rcv_window)
    /\ UNCHANGED <<to_deliver, last_inorder, rcv_window, nospace, rcv_map,
                   sndVars, histVars>>

(* Outside the window: answered only while there is no space.              *)
RecvOutside ==
  \E i \in DataArrivals :
    LET s == dataNet[i].seq IN
    /\ dataNet[i].kind = "data"
    /\ ~ Occupied(s) /\ ~ InWindow(s)
    /\ dataNet' = RemoveAt(dataNet, i)
    /\ IF nospace = 1 THEN Reply("ack", last_inorder, rcv_window)
                      ELSE UNCHANGED ackNet
    /\ UNCHANGED <<rcvVars, sndVars, histVars>>

(* A full buffer has space again; and the test with nospace inverted.      *)
SpaceReturnedInverted == prev_empty = 1 /\ nospace = 1
SpaceReturned == prev_empty = 1 /\ nospace = 0

(* select timed out: tell the sender that a full buffer has space again.   *)
(* The free slots are counted from the last message in order, its own slot *)
(* included.                                                               *)
RTimeout ==
  LET free == {j \in Buf : rcv_valid[rcv_map[After(last_inorder, j)]] # 1} IN
  /\ TimersMayFire
  /\ SpaceReturned
  /\ \E n \in Window : StopsAt(free, n) /\ rcv_window' = n
  /\ rcv_map' = Remap(rcv_map, last_inorder, BUFF_SIZE)
  /\ Reply("space", last_inorder, rcv_window')
  /\ UNCHANGED <<to_deliver, last_inorder, nospace, rcv_valid, recv_buff,
                 prev_empty, sndVars, dataNet, histVars>>

(* The slots an ack for number s frees; and one too many.                  *)
FreedAndNext(s) ==
  {snd_map[After(last_seq_ack, j)] : j \in 1 .. Dist(s, last_seq_ack) + 1}
Freed(s) ==
  {snd_map[After(last_seq_ack, j)] : j \in 1 .. Dist(s, last_seq_ack)}

(* The ack handler.  The window and the map are overwritten even when the  *)
(* acknowledged number is outside the window.                              *)
RecvAck ==
  \E i \in AckArrivals :
    LET m     == ackNet[i]
        taken == Dist(m.seq, last_seq_ack) <= snd_window
        map   == Remap(snd_map, m.seq, m.wnd)
        idle  == snd_valid'[map[After(m.seq, 1)]] = 0
    IN
    /\ ackNet' = RemoveAt(ackNet, i)
    /\ last_seq_ack' = IF taken THEN m.seq ELSE last_seq_ack
    /\ snd_valid' = [b \in Buf |-> IF taken /\ b \in Freed(m.seq) THEN 0
                                   ELSE snd_valid[b]]
    /\ snd_window' = m.wnd
    /\ snd_map' = map
    /\ dataNet' = IF m.wnd > 0 /\ idle /\ m.kind = "space"
                  THEN Enqueue(dataNet, <<Empty>>) ELSE dataNet
    /\ UNCHANGED <<last_buf_index, send_buff, rcvVars, histVars>>

RecvData == RecvDuplicate \/ RecvExpected \/ RecvAhead \/ RecvOutside
RThread  == RecvEmpty \/ RecvData \/ RecvAck \/ DropData \/ DropAck \/ RTimeout

Next == KSendto \/ KRecvfrom \/ SThread \/ RThread \/ Reopen

Spec == Init /\ [][Next]_vars

(* The threads never stop and the receiving user polls (user2.c).  What    *)
(* keeps being sent again is not dropped for ever, and the timers, which   *)
(* wait for the sockets to be drained, are not put off for ever.           *)
Fairness ==
  /\ WF_vars(KRecvfrom) /\ SF_vars(RTimeout)
  /\ \A j \in Buf : SF_vars(\E due \in SUBSET Buf : j \in due /\ SPass(due))
  /\ SF_vars(RecvExpected) /\ SF_vars(RecvAhead)
  /\ SF_vars(RecvDuplicate) /\ SF_vars(RecvOutside)
  /\ SF_vars(RecvEmpty) /\ SF_vars(RecvAck)

FairSpec == Spec /\ Fairness

-----------------------------------------------------------------------------
(* Properties.                                                             *)

(* Each variable of the rows stays within the range its C array or counter *)
(* has, and the buffers hold what its comment in documentation.txt says.   *)
TypeOK ==
  /\ snd_window \in Window /\ rcv_window \in Window
  /\ last_seq_ack \in Seqno /\ last_inorder \in Seqno
  /\ last_buf_index \in Buf
  /\ snd_valid \in [Buf -> 0 .. 2] /\ rcv_valid \in [Buf -> 0 .. 1]
  /\ snd_map \in [Seqno -> Buf] /\ rcv_map \in [Seqno -> Buf]
  /\ send_buff \in [Buf -> 0 .. MaxMsgs] /\ recv_buff \in [Buf -> 0 .. MaxMsgs]
  /\ to_deliver \in 0 .. BUFF_SIZE
  /\ nospace \in 0 .. 1 /\ prev_empty \in 0 .. 1
  /\ dataNet \in Seq(DataMsg) /\ ackNet \in Seq(AckMsg)
  /\ accepted \in 0 .. MaxMsgs
  /\ delivered \in Seq(0 .. MaxMsgs)
  /\ session \in 1 .. MaxSessions

(* How many messages the receiver has in order, and how many the sender    *)
(* knows to be there.                                                      *)
InOrderCount == Len(delivered)
                  + Dist(last_inorder, Len(delivered) % MAX_SEQ_NUM)
Waiting(n) == \E b \in Buf : rcv_valid[b] = 1 /\ recv_buff[b] = n
Kept(n)    == \E b \in Buf : snd_valid[b] # 0 /\ send_buff[b] = n

(* KTP is the reliable stream of KTPStream: nothing is lost, repeated,     *)
(* reordered or made up between k_sendto and k_recvfrom.                   *)
Users == INSTANCE KTPStream WITH
           Capacity <- 2 * BUFF_SIZE, sent <- accepted, got <- delivered,
           pending  <- [i \in 1 .. accepted - Len(delivered) |->
                          Len(delivered) + i]
ReliableStream == Users!Stream
ReliableFairStream == Users!FairStream

(* The ack handler frees a slot of send_buff only once the receiver holds  *)
(* the message: what is neither delivered nor kept by the sender waits in  *)
(* recv_buff.                                                              *)
NothingFreedEarly ==
  \A n \in Len(delivered) + 1 .. accepted : Kept(n) \/ Waiting(n)

(* A data datagram in flight carries the message its sequence number       *)
(* stands for, also after the numbers have wrapped: what S_Thread reads    *)
(* through seq_buf_index_map was not overwritten by k_sendto.              *)
NumbersNameMessages ==
  \A i \in 1 .. Len(dataNet) :
    dataNet[i].kind = "data" =>
      dataNet[i].body > 0 /\ dataNet[i].body % MAX_SEQ_NUM = dataNet[i].seq

(* The window the receiver advertises never promises more slots than the   *)
(* buffer has beyond the messages that are still to be read.               *)
WindowFitsBuffer ==
  InOrderCount + rcv_window <= Len(delivered) + BUFF_SIZE

(* Every slot of recv_buff in use holds the one message of the next        *)
(* BUFF_SIZE that k_recvfrom will look for in that slot.                   *)
SlotsHoldNextMessages ==
  \A b \in Buf : rcv_valid[b] = 1 =>
    /\ recv_buff[b] \in Len(delivered) + 1 .. Len(delivered) + BUFF_SIZE
    /\ recv_buff[b] % BUFF_SIZE = b

(* documentation.txt: the receiver goes on announcing the space it has     *)
(* until the sender has answered, so a sender whose window is closed, with *)
(* messages to send, does not stay so for ever.                            *)
SpaceIsAnnounced ==
  snd_window = 0 /\ rcv_window > 0 /\ (\E b \in Buf : snd_valid[b] # 0)
    ~> snd_window > 0
=============================================================================
