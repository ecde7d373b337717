---------------------------- MODULE KTPWindowInv ----------------------------
(***************************************************************************)
(* Why the KTP window is a reliable stream: an inductive invariant that    *)
(* counts in message numbers what the rows hold modulo MAX_SEQ_NUM and     *)
(* modulo BUFF_SIZE.  Three numbers that no variable holds tie the two     *)
(* rows together:                                                          *)
(*   a   the messages the sender knows to be acknowledged,                 *)
(*   r   the messages the receiver has in order,                           *)
(*   h   the last message the sender has a slot numbered for.              *)
(***************************************************************************)
EXTENDS KTPWindow

(* The slot of message n in either buffer, and its sequence number.        *)
Slot(n) == n % BUFF_SIZE
Num(n)  == n % MAX_SEQ_NUM

(* The numbers that can be under way at once, those of the BUFF_SIZE       *)
(* messages before the next one in order and of the BUFF_SIZE after it,    *)
(* must differ; and neither socket lets datagrams overtake each other.     *)
NumbersSuffice  == 2 * BUFF_SIZE <= MAX_SEQ_NUM
InOrderNetworks == Reordered = {}

(* The messages read, and whether a message beyond them has been received. *)
Read      == Len(delivered)
Stored(n) == rcv_valid[Slot(n)] = 1

(* send_buff holds what is accepted and not known to be acknowledged, and  *)
(* the map is right from the last number acknowledged to h.                *)
SenderPart(a, h) ==
  /\ last_seq_ack = Num(a)
  /\ last_buf_index = Slot(accepted)
  /\ a <= accepted /\ accepted <= a + BUFF_SIZE
  /\ a + snd_window <= h /\ h <= a + BUFF_SIZE
  /\ \A n \in a + 1 .. a + BUFF_SIZE :
       IF n <= accepted THEN snd_valid[Slot(n)] # 0 /\ send_buff[Slot(n)] = n
                        ELSE snd_valid[Slot(n)] = 0
  /\ \A n \in a .. h : snd_map[Num(n)] = Slot(n)

(* recv_buff holds what is in order and not read, and some messages of the *)
(* window but never the next one in order; none at all beyond r when the   *)
(* sender is to be told of new space.                                      *)
ReceiverPart(r, h) ==
  /\ last_inorder = Num(r)
  /\ Slot(to_deliver) = Slot(Read + 1)
  /\ Read <= r /\ r + rcv_window <= Read + BUFF_SIZE
  /\ \A n \in r .. r + rcv_window : rcv_map[Num(n)] = Slot(n)
  /\ \A n \in Read + 1 .. r : Stored(n)
  /\ \A n \in Read + 1 .. Read + BUFF_SIZE : Stored(n) =>
       /\ recv_buff[Slot(n)] = n
       /\ n <= accepted /\ n <= h
       /\ n <= r + rcv_window /\ n # r + 1
       /\ prev_empty = 1 => n <= r

(* Whatever is in flight is too recent to be taken for a message of the    *)
(* next round of slots or numbers.                                         *)
Recent(n, r) ==
  /\ r < n + BUFF_SIZE
  /\ \A k \in Read + 1 .. Read + BUFF_SIZE : Stored(k) => k < n + BUFF_SIZE

DataPart(r, h) ==
  /\ \A i \in 1 .. Len(dataNet) : dataNet[i].kind = "data" =>
       /\ dataNet[i].seq = Num(dataNet[i].body)
       /\ dataNet[i].body \in 1 .. accepted /\ dataNet[i].body <= h
       /\ Recent(dataNet[i].body, r)
  /\ \A i, j \in 1 .. Len(dataNet) :
       j < i /\ dataNet[i].kind = "data" /\ dataNet[j].kind = "data" =>
         dataNet[j].body < dataNet[i].body + BUFF_SIZE

(* The acknowledgements in flight never go back.                           *)
AckPart(a, r) ==
  \E last \in [1 .. Len(ackNet) -> a .. r] :
    /\ \A i \in 1 .. Len(ackNet) : ackNet[i].seq = Num(last[i])
    /\ \A i, j \in 1 .. Len(ackNet) : i <= j => last[i] <= last[j]

Linked(a, r, h) ==
  /\ a <= r /\ r <= accepted /\ r <= h
  /\ SenderPart(a, h)
  /\ ReceiverPart(r, h)
  /\ DataPart(r, h)
  /\ AckPart(a, r)

(* k_socket numbers BUFF_SIZE slots of recv_buff but not the number after  *)
(* them, which has the slot the previous owner's window gave it: right in  *)
(* the first session, and after sessions too short to use it again.        *)
ShortSessions == MaxMsgs < MAX_SEQ_NUM
NoStaleMap    == MaxSessions = 1 \/ ShortSessions
MapTrusted    == session = 1 \/ ShortSessions

(* While the map can be trusted, whatever the handlers have done and the   *)
(* network has lost, the rows and the datagrams are those of some          *)
(* a <= r <= h: the numbers that k_socket, S_Thread and R_Thread compute   *)
(* modulo 256 and modulo 10 never stand for two messages at once.          *)
RowsAgree ==
  MapTrusted =>
    \E a \in 0 .. accepted, r \in 0 .. accepted :
      \E h \in 0 .. a + BUFF_SIZE : Linked(a, r, h)
=============================================================================
