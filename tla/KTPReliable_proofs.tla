------------------------- MODULE KTPReliable_proofs -------------------------
(***************************************************************************)
(* KTPWindow is a reliable stream: the invariant of KTPWindowInv is        *)
(* inductive, and the properties the runs check follow from it.  First     *)
(* comes the arithmetic of the two rings: message n has the slot           *)
(* n % BUFF_SIZE and the number n % MAX_SEQ_NUM, and what the handlers     *)
(* compute from slots and numbers is what they would compute from the      *)
(* messages themselves, as long as these are close enough to each other.   *)
(***************************************************************************)
EXTENDS KTPWindowInv, KTPWindow_proofs

-----------------------------------------------------------------------------
(* Division with remainder.                                                *)

LEMMA DivMod ==
  ASSUME NEW n \in Nat \ {0}, NEW x \in Int
  PROVE  /\ x \div n \in Int
         /\ x % n \in 0 .. n - 1
         /\ x = n * (x \div n) + (x % n)
BY SMT

LEMMA ModUnique ==
  ASSUME NEW n \in Nat \ {0}, NEW x \in Int, NEW q \in Int,
         NEW s \in 0 .. n - 1, x = n * q + s
  PROVE  x % n = s
BY SMT

LEMMA ModSmall ==
  ASSUME NEW n \in Nat \ {0}, NEW x \in 0 .. n - 1
  PROVE  x % n = x
BY SMT

(* A remainder may be taken before or after something is added to it.      *)
LEMMA ModPlus ==
  ASSUME NEW n \in Nat \ {0}, NEW x \in Int, NEW y \in Int
  PROVE  ((x % n) + y) % n = (x + y) % n
<1> DEFINE q == x \div n
           s == x % n
           p == (s + y) \div n
           t == (s + y) % n
<1>1. x = n * q + s /\ q \in Int /\ s \in 0 .. n - 1
  BY DivMod
<1>2. s + y = n * p + t /\ p \in Int /\ t \in 0 .. n - 1
  <2>1. s + y \in Int
    BY <1>1
  <2> HIDE DEF s
  <2> QED BY <2>1, DivMod
<1> SUFFICES (x + y) % n = t
  OBVIOUS
<1> HIDE DEF q, s, p, t
<1>3. x + y = n * (q + p) + t
  BY <1>1, <1>2, SMT
<1>4. x + y \in Int /\ q + p \in Int
  BY <1>1, <1>2
<1> QED BY <1>2, <1>3, <1>4, ModUnique

(* Whole turns do not change a remainder.                                  *)
LEMMA ModTurn ==
  ASSUME NEW n \in Nat \ {0}, NEW x \in Int
  PROVE  (x + n) % n = x % n
<1> DEFINE q == x \div n
           s == x % n
<1>1. x = n * q + s /\ q \in Int /\ s \in 0 .. n - 1
  BY DivMod
<1> HIDE DEF q, s
<1>2. x + n = n * (q + 1) + s
  BY <1>1, SMT
<1>3. (x + n) % n = s
  BY <1>1, <1>2, ModUnique
<1> QED BY <1>3 DEF s

(* Two numbers less than a turn apart differ in their remainders.          *)
LEMMA ModInjective ==
  ASSUME NEW n \in Nat \ {0}, NEW x \in Int, NEW y \in Int,
         x % n = y % n, x - y < n, y - x < n
  PROVE  x = y
<1> DEFINE q == x \div n
           s == x % n
           p == y \div n
<1>1. x = n * q + s /\ q \in Int /\ s \in 0 .. n - 1
  BY DivMod
<1>2. y = n * p + s /\ p \in Int
  BY DivMod
<1> HIDE DEF q, s, p
<1>3. x - y = n * (q - p) /\ y - x = n * (p - q)
  BY <1>1, <1>2, SMT
<1>4. \A d \in Int : d >= 1 => n * d >= n
  BY SMT
<1>5. ~ (q - p >= 1) /\ ~ (p - q >= 1)
  BY <1>1, <1>2, <1>3, <1>4, SMT
<1>6. p = q
  BY <1>1, <1>2, <1>5
<1> QED BY <1>1, <1>2, <1>6

(* A difference of remainders, taken round once, is the difference.        *)
LEMMA ModMinus ==
  ASSUME NEW n \in Nat \ {0}, NEW x \in Int, NEW y \in Int
  PROVE  /\ x - y \in 0 .. n - 1 =>
              ((x % n) - (y % n) + n) % n = x - y
         /\ y - x \in 1 .. n =>
              ((x % n) - (y % n) + n) % n = n - (y - x)
<1> DEFINE q == y \div n
           s == y % n
           d == x - s + n
<1>1. y = n * q + s /\ q \in Int /\ s \in 0 .. n - 1
  BY DivMod
<1>2. ((x % n) - s + n) % n = d % n
  <2>1. n - s \in Int
    BY <1>1
  <2>2. ((x % n) + (n - s)) % n = (x + (n - s)) % n
    BY <2>1, ModPlus
  <2>3. (x % n) - s + n = (x % n) + (n - s) /\ d = x + (n - s)
    BY <1>1, DivMod
  <2> QED BY <2>2, <2>3
<1> HIDE DEF q, s
<1>3. d \in Int
  BY <1>1
<1>4. ASSUME x - y \in 0 .. n - 1 PROVE d % n = x - y
  <2>1. d = n * (q + 1) + (x - y)
    BY <1>1, SMT
  <2>2. q + 1 \in Int
    BY <1>1
  <2> HIDE DEF d
  <2> QED BY <1>3, <1>4, <2>1, <2>2, ModUnique
<1>5. ASSUME y - x \in 1 .. n PROVE d % n = n - (y - x)
  <2>1. d = n * q + (n - (y - x))
    BY <1>1, SMT
  <2>2. n - (y - x) \in 0 .. n - 1
    BY <1>5
  <2> HIDE DEF d
  <2> QED BY <1>1, <1>3, <2>1, <2>2, ModUnique
<1> QED BY <1>2, <1>4, <1>5 DEF s

-----------------------------------------------------------------------------
(* Slots.                                                                  *)

LEMMA Sizes ==
  /\ BUFF_SIZE \in Nat \ {0} /\ MAX_SEQ_NUM \in Nat \ {0}
  /\ BUFF_SIZE < MAX_SEQ_NUM /\ NetCap \in Nat \ {0} /\ MaxMsgs \in Nat
BY SizesAssumption DEF SizesAssumption

(* Every message has a slot, a turn later it is the same slot, messages    *)
(* less than a turn apart have different ones, and the slot k after that   *)
(* of message n is that of message n + k.                                  *)
LEMMA SlotFacts ==
  /\ \A n \in Int : Slot(n) \in Buf /\ Slot(n) \in Int
  /\ \A n \in Int : Slot(n + BUFF_SIZE) = Slot(n)
  /\ \A n, k \in Int : (Slot(n) + k) % BUFF_SIZE = Slot(n + k)
  /\ \A b \in Buf : Slot(b) = b
<1>1. \A n \in Int : Slot(n) \in Buf /\ Slot(n) \in Int
  BY Sizes, ModRange DEF Slot, Buf
<1>2. \A n \in Int : Slot(n + BUFF_SIZE) = Slot(n)
  BY Sizes, ModTurn DEF Slot
<1>3. \A n, k \in Int : (Slot(n) + k) % BUFF_SIZE = Slot(n + k)
  BY Sizes, ModPlus DEF Slot
<1>4. \A b \in Buf : Slot(b) = b
  BY Sizes, ModSmall DEF Slot, Buf
<1> QED BY <1>1, <1>2, <1>3, <1>4

LEMMA SlotInjective ==
  ASSUME NEW x \in Int, NEW y \in Int, Slot(x) = Slot(y),
         x - y < BUFF_SIZE, y - x < BUFF_SIZE
  PROVE  x = y
BY Sizes, ModInjective DEF Slot

(* The BUFF_SIZE messages after m use every slot.                          *)
LEMMA SlotCover ==
  ASSUME NEW m \in Int, NEW b \in Buf
  PROVE  \E n \in m + 1 .. m + BUFF_SIZE : Slot(n) = b
<1> DEFINE k == (b - m - 1) % BUFF_SIZE
           n == m + 1 + k
<1>1. b \in Int /\ b - m - 1 \in Int /\ m + 1 \in Int
  BY DEF Buf
<1>2. k \in 0 .. BUFF_SIZE - 1
  BY <1>1, Sizes, ModRange
<1>3. n % BUFF_SIZE = b
  <2>1. (k + (m + 1)) % BUFF_SIZE = (b - m - 1 + (m + 1)) % BUFF_SIZE
    BY <1>1, Sizes, ModPlus
  <2>2. b - m - 1 + (m + 1) = b
    BY <1>1
  <2>3. b % BUFF_SIZE = b
    BY Sizes, ModSmall DEF Buf
  <2> HIDE DEF k
  <2>4. n = k + (m + 1)
    BY <1>2
  <2> QED BY <2>1, <2>2, <2>3, <2>4
<1> HIDE DEF k
<1>4. n \in m + 1 .. m + BUFF_SIZE
  BY <1>2, Sizes
<1> QED BY <1>3, <1>4 DEF Slot

-----------------------------------------------------------------------------
(* Sequence numbers.                                                       *)

LEMMA NumFacts ==
  /\ \A n \in Int : Num(n) \in Seqno /\ Num(n) \in Int
  /\ \A n, k \in Int : After(Num(n), k) = Num(n + k)
  /\ Num(0) = 0
<1>1. \A n \in Int : Num(n) \in Seqno /\ Num(n) \in Int
  BY Sizes, ModRange DEF Num, Seqno
<1>2. \A n, k \in Int : After(Num(n), k) = Num(n + k)
  BY Sizes, ModPlus DEF Num, After
<1>3. Num(0) = 0
  BY Sizes, ModSmall DEF Num
<1> QED BY <1>1, <1>2, <1>3

LEMMA NumInjective ==
  ASSUME NEW x \in Int, NEW y \in Int, Num(x) = Num(y),
         x - y < MAX_SEQ_NUM, y - x < MAX_SEQ_NUM
  PROVE  x = y
BY Sizes, ModInjective DEF Num

(* The distance between the numbers of two messages: that of the messages, *)
(* or what is left of a turn when the first is the earlier one.            *)
LEMMA DistNum ==
  ASSUME NEW x \in Int, NEW y \in Int
  PROVE  /\ Dist(Num(x), Num(y)) \in Seqno /\ Dist(Num(x), Num(y)) \in Int
         /\ x - y \in 0 .. MAX_SEQ_NUM - 1 => Dist(Num(x), Num(y)) = x - y
         /\ y - x \in 1 .. MAX_SEQ_NUM =>
              Dist(Num(x), Num(y)) = MAX_SEQ_NUM - (y - x)
<1>1. Dist(Num(x), Num(y)) \in Seqno
  BY NumFacts, SeqnoClosed
<1>2. /\ x - y \in 0 .. MAX_SEQ_NUM - 1 => Dist(Num(x), Num(y)) = x - y
      /\ y - x \in 1 .. MAX_SEQ_NUM =>
           Dist(Num(x), Num(y)) = MAX_SEQ_NUM - (y - x)
  BY Sizes, ModMinus DEF Num, Dist
<1> QED BY <1>1, <1>2 DEF Seqno

(* Renumbering the k slots after a message whose slot is right makes those *)
(* right too, and spoils none that was right within a buffer of it.        *)
LEMMA RemapRight ==
  ASSUME NumbersSuffice, NEW map \in [Seqno -> Buf], NEW y \in Int,
         NEW k \in Window, map[Num(y)] = Slot(y),
         NEW x \in y - BUFF_SIZE .. y + BUFF_SIZE,
         x \in y .. y + k \/ map[Num(x)] = Slot(x)
  PROVE  Remap(map, Num(y), k)[Num(x)] = Slot(x)
<1> DEFINE d == Dist(Num(x), Num(y))
<1>1. x \in Int /\ k \in 0 .. BUFF_SIZE
  BY Sizes DEF Window
<1>2. d \in Int /\ Num(x) \in Seqno
  BY <1>1, DistNum, NumFacts
<1>3. Remap(map, Num(y), k)[Num(x)] = IF d \in 1 .. k
                                      THEN (Slot(y) + d) % BUFF_SIZE
                                      ELSE map[Num(x)]
  BY <1>2 DEF Remap
<1>4. (Slot(y) + d) % BUFF_SIZE = Slot(y + d)
  BY <1>2, SlotFacts
<1>5. CASE x >= y
  <2>1. x - y \in 0 .. MAX_SEQ_NUM - 1
    BY <1>1, <1>5, Sizes
  <2>2. d = x - y
    BY <1>1, <2>1, DistNum
  <2> HIDE DEF d
  <2>3. CASE d \in 1 .. k
    <3>1. y + d = x
      BY <1>1, <2>2
    <3> QED BY <1>3, <1>4, <2>3, <3>1
  <2>4. CASE d \notin 1 .. k
    <3>1. CASE x = y
      BY <1>3, <2>4, <3>1
    <3>2. CASE x # y
      <4>1. x \notin y .. y + k
        BY <1>1, <1>5, <2>2, <2>4, <3>2
      <4> QED BY <1>3, <2>4, <4>1
    <3> QED BY <3>1, <3>2
  <2> QED BY <2>3, <2>4
<1>6. CASE x < y
  <2>1. y - x \in 1 .. BUFF_SIZE /\ y - x \in 1 .. MAX_SEQ_NUM
    BY <1>1, <1>6, Sizes
  <2>2. d = MAX_SEQ_NUM - (y - x)
    BY <1>1, <2>1, DistNum
  <2>3. map[Num(x)] = Slot(x)
    BY <1>1, <1>6
  <2> HIDE DEF d
  <2>4. CASE d \in 1 .. k
    <3>1. d = BUFF_SIZE /\ x + BUFF_SIZE = y
      BY <1>1, <2>1, <2>2, <2>4, Sizes DEF NumbersSuffice
    <3>2. Slot(y + d) = Slot(x)
      BY <1>1, <3>1, SlotFacts
    <3> QED BY <1>3, <1>4, <2>4, <3>2
  <2> QED BY <1>3, <2>3, <2>4
<1> QED BY <1>1, <1>5, <1>6

-----------------------------------------------------------------------------
(* The two rows are linked by some a, r and h.                             *)
Link == \E a, r, h \in Nat : Linked(a, r, h)

-----------------------------------------------------------------------------
(* What the operations on the sockets leave in them.                       *)

LEMMA TakeFirst ==
  ASSUME NEW S, NEW q \in Seq(S), 1 \in 1 .. Len(q)
  PROVE  /\ RemoveAt(q, 1) \in Seq(S)
         /\ Len(RemoveAt(q, 1)) = Len(q) - 1
         /\ \A i \in 1 .. Len(q) - 1 : RemoveAt(q, 1)[i] = q[i + 1]
<1>1. q # <<>>
  OBVIOUS
<1>2. RemoveAt(q, 1) = SubSeq(q, 1, 0) \o SubSeq(q, 2, Len(q))
  BY DEF RemoveAt
<1>3. SubSeq(q, 1, 0) = <<>> /\ SubSeq(q, 2, Len(q)) = Tail(q)
  BY <1>1, SubSeqEmpty, TailIsSubSeq
<1>4. /\ Tail(q) \in Seq(S) /\ Len(Tail(q)) = Len(q) - 1
      /\ \A i \in 1 .. Len(Tail(q)) : Tail(q)[i] = q[i + 1]
  BY <1>1, HeadTailProperties
<1>5. <<>> \o Tail(q) = Tail(q)
  BY <1>4
<1>6. RemoveAt(q, 1) = Tail(q)
  BY <1>2, <1>3, <1>5
<1> QED BY <1>4, <1>6

LEMMA EnqueueShape ==
  ASSUME NEW S, NEW q \in Seq(S), NEW batch \in Seq(S),
         NEW e, e = Enqueue(q, batch)
  PROVE  /\ e \in Seq(S) /\ Len(e) \in Nat
         /\ \A i \in 1 .. Len(e) :
              \/ i \in 1 .. Len(q) /\ e[i] = q[i]
              \/ /\ i > Len(q) /\ i - Len(q) \in 1 .. Len(batch)
                 /\ e[i] = batch[i - Len(q)]
<1> DEFINE c == q \o batch
<1>1. e \in Seq(S)
  BY EnqueueType
<1>2. c \in Seq(S) /\ Len(c) = Len(q) + Len(batch)
  OBVIOUS
<1>3. \A i \in 1 .. Len(c) : \/ i \in 1 .. Len(q) /\ c[i] = q[i]
                             \/ /\ i > Len(q) /\ i - Len(q) \in 1 .. Len(batch)
                                /\ c[i] = batch[i - Len(q)]
  OBVIOUS
<1>4. e = IF Len(c) <= NetCap THEN c ELSE SubSeq(c, 1, NetCap)
  BY DEF Enqueue
<1>5. NetCap \in Nat
  BY Sizes
<1> HIDE DEF c
<1>6. Len(e) \in Nat /\ \A i \in 1 .. Len(e) : i \in 1 .. Len(c) /\ e[i] = c[i]
  <2>1. CASE Len(c) <= NetCap
    BY <1>2, <1>4, <2>1
  <2>2. CASE ~ (Len(c) <= NetCap)
    <3>1. e = SubSeq(c, 1, NetCap) /\ NetCap <= Len(c)
      BY <1>2, <1>4, <1>5, <2>2
    <3>2. Len(e) = NetCap /\ \A i \in 1 .. NetCap : e[i] = c[i]
      BY <1>2, <1>5, <3>1
    <3> QED BY <1>2, <1>5, <3>1, <3>2
  <2> QED BY <2>1, <2>2
<1>7. \A i \in 1 .. Len(e) : \/ i \in 1 .. Len(q) /\ e[i] = q[i]
                             \/ /\ i > Len(q) /\ i - Len(q) \in 1 .. Len(batch)
                                /\ e[i] = batch[i - Len(q)]
  BY <1>3, <1>6
<1> QED BY <1>1, <1>6, <1>7

-----------------------------------------------------------------------------
(* Integers, and the order of the numbers of a link.                       *)

LEMMA Numbers ==
  ASSUME TypeOK
  PROVE  /\ accepted \in Nat /\ Read \in Nat
         /\ snd_window \in 0 .. BUFF_SIZE /\ rcv_window \in 0 .. BUFF_SIZE
         /\ to_deliver \in Nat
BY Sizes DEF TypeOK, Window, Read

LEMMA Order ==
  ASSUME TypeOK, NEW a \in Nat, NEW r \in Nat, NEW h \in Nat, Linked(a, r, h)
  PROVE  /\ a <= r /\ r <= accepted /\ r <= h /\ h <= a + BUFF_SIZE
         /\ accepted <= a + BUFF_SIZE /\ a + snd_window <= h
         /\ Read <= r /\ r <= Read + BUFF_SIZE
         /\ r + rcv_window <= Read + BUFF_SIZE
BY Numbers, Sizes DEF Linked, SenderPart, ReceiverPart

(* Sockets that keep the order are read at their head.                     *)
LEMMA OnlyFirst ==
  ASSUME InOrderNetworks
  PROVE  /\ \A i \in DataArrivals : i = 1 /\ 1 \in 1 .. Len(dataNet)
         /\ \A i \in AckArrivals : i = 1 /\ 1 \in 1 .. Len(ackNet)
BY DEF InOrderNetworks, DataArrivals, AckArrivals

(* Parts that a step does not touch.                                       *)
LEMMA SenderKept ==
  ASSUME NEW a, NEW h, SenderPart(a, h), UNCHANGED sndVars,
         accepted' = accepted
  PROVE  SenderPart(a, h)'
BY DEF SenderPart, sndVars

LEMMA ReceiverKept ==
  ASSUME TypeOK, NEW r \in Nat, NEW h \in Nat, NEW h1 \in Nat, h <= h1,
         ReceiverPart(r, h), accepted' \in Nat, accepted <= accepted',
         UNCHANGED <<to_deliver, last_inorder, rcv_window, rcv_valid, rcv_map,
                     recv_buff, delivered>>,
         prev_empty' \in {0, prev_empty}
  PROVE  ReceiverPart(r, h1)'
<1>1. /\ last_inorder' = Num(r)
      /\ Slot(to_deliver)' = Slot(Read' + 1)
      /\ Read' <= r /\ r + rcv_window' <= Read' + BUFF_SIZE
      /\ \A n \in r .. r + rcv_window' : rcv_map'[Num(n)] = Slot(n)
      /\ \A n \in Read' + 1 .. r : Stored(n)'
  BY DEF ReceiverPart, Read, Stored, Slot
<1>2. ASSUME NEW n \in Read' + 1 .. Read' + BUFF_SIZE, Stored(n)'
      PROVE  /\ recv_buff'[Slot(n)] = n
             /\ n <= accepted' /\ n <= h1
             /\ n <= r + rcv_window' /\ n # r + 1
             /\ prev_empty' = 1 => n <= r
  <2>1. n \in Read + 1 .. Read + BUFF_SIZE /\ Stored(n) /\ n \in Int
    BY <1>2, Numbers, Sizes DEF Read, Stored
  <2>2. /\ recv_buff[Slot(n)] = n
        /\ n <= accepted /\ n <= h
        /\ n <= r + rcv_window /\ n # r + 1
        /\ prev_empty = 1 => n <= r
    BY <2>1 DEF ReceiverPart
  <2>3. n <= accepted' /\ n <= h1
    BY <2>1, <2>2, Numbers
  <2> QED BY <2>2, <2>3
<1> QED BY <1>1, <1>2 DEF ReceiverPart, Slot, Num, Stored

LEMMA DataKept ==
  ASSUME TypeOK, NEW r \in Nat, NEW h \in Nat, NEW h1 \in Nat, h <= h1,
         DataPart(r, h), accepted' \in Nat, accepted <= accepted',
         UNCHANGED <<dataNet, rcv_valid, delivered>>
  PROVE  DataPart(r, h1)'
<1>1. \A n : Recent(n, r)' <=> Recent(n, r)
  BY DEF Recent, Read, Stored, Slot
<1>2. ASSUME NEW i \in 1 .. Len(dataNet), dataNet[i].kind = "data"
      PROVE  /\ dataNet[i].seq = Num(dataNet[i].body)
             /\ dataNet[i].body \in 1 .. accepted' /\ dataNet[i].body <= h1
             /\ Recent(dataNet[i].body, r)'
  <2>1. PICK n : n = dataNet[i].body
    OBVIOUS
  <2>2. /\ dataNet[i].seq = Num(n) /\ n \in 1 .. accepted /\ n <= h
        /\ Recent(n, r)
    BY <1>2, <2>1 DEF DataPart
  <2>3. n \in 1 .. accepted' /\ n <= h1
    BY <2>2, Numbers
  <2>4. Recent(dataNet[i].body, r)'
    BY <1>1, <2>1, <2>2 DEF Recent
  <2> QED BY <2>1, <2>2, <2>3, <2>4
<1>3. \A i, j \in 1 .. Len(dataNet') :
        j < i /\ dataNet'[i].kind = "data" /\ dataNet'[j].kind = "data" =>
          dataNet'[j].body < dataNet'[i].body + BUFF_SIZE
  BY DEF DataPart
<1> QED BY <1>2, <1>3 DEF DataPart, Num

(* A special message in the socket stands for no message number.           *)
LEMMA DataPutEmpty ==
  ASSUME TypeOK, NEW r \in Nat, NEW h \in Nat, NEW h1 \in Nat, h <= h1,
         DataPart(r, h), accepted' = accepted,
         UNCHANGED <<rcv_valid, delivered>>,
         dataNet' = Enqueue(dataNet, <<Empty>>)
  PROVE  DataPart(r, h1)'
<1>1. \A n : Recent(n, r)' <=> Recent(n, r)
  BY DEF Recent, Read, Stored, Slot
<1>2. \A i \in 1 .. Len(dataNet') : dataNet'[i].kind = "data" =>
        i \in 1 .. Len(dataNet) /\ dataNet'[i] = dataNet[i]
  <2> DEFINE q == dataNet'
             b == <<Empty>>
  <2>1. /\ q = Enqueue(dataNet, b) /\ b \in Seq(DataMsg)
        /\ \A i \in 1 .. Len(b) : b[i].kind = "empty"
        /\ dataNet \in Seq(DataMsg)
    <3>1. Empty \in DataMsg
      BY SeqnoClosed, Sizes DEF Empty, DataMsg
    <3> QED BY <3>1 DEF TypeOK, Empty
  <2> HIDE DEF q, b
  <2>2. \A i \in 1 .. Len(q) :
          \/ i \in 1 .. Len(dataNet) /\ q[i] = dataNet[i]
          \/ /\ i > Len(dataNet) /\ i - Len(dataNet) \in 1 .. Len(b)
             /\ q[i] = b[i - Len(dataNet)]
    BY <2>1, EnqueueShape
  <2>3. \A i \in 1 .. Len(q) : q[i].kind = "data" =>
          i \in 1 .. Len(dataNet) /\ q[i] = dataNet[i]
    BY <2>1, <2>2
  <2> QED BY <2>3 DEF q
<1>3. ASSUME NEW i \in 1 .. Len(dataNet'), dataNet'[i].kind = "data"
      PROVE  /\ dataNet'[i].seq = Num(dataNet'[i].body)
             /\ dataNet'[i].body \in 1 .. accepted /\ dataNet'[i].body <= h1
             /\ Recent(dataNet[i].body, r)'
  <2>1. PICK n : n = dataNet'[i].body
    OBVIOUS
  <2>2. /\ dataNet'[i].seq = Num(n) /\ n \in 1 .. accepted /\ n <= h
        /\ Recent(n, r)
    BY <1>2, <1>3, <2>1 DEF DataPart
  <2>3. n <= h1
    BY <2>2, Numbers
  <2>4. Recent(dataNet[i].body, r)'
    BY <1>1, <2>1, <2>2 DEF Recent
  <2> QED BY <2>1, <2>2, <2>3, <2>4
<1>4. \A i, j \in 1 .. Len(dataNet') :
        j < i /\ dataNet'[i].kind = "data" /\ dataNet'[j].kind = "data" =>
          dataNet'[j].body < dataNet'[i].body + BUFF_SIZE
  BY <1>2 DEF DataPart
<1> QED BY <1>3, <1>4 DEF DataPart, Num

(* Reading the first datagram leaves a linked socket, when what is too     *)
(* recent for the next round stays so.                                     *)
LEMMA DataTaken ==
  ASSUME TypeOK, NEW r \in Nat, NEW h \in Nat, DataPart(r, h),
         NEW r1 \in Nat, NEW h1 \in Nat, h <= h1,
         1 \in 1 .. Len(dataNet), dataNet' = RemoveAt(dataNet, 1),
         accepted' = accepted,
         \A n \in Nat :
           /\ Recent(n, r)
           /\ dataNet[1].kind = "data" => dataNet[1].body < n + BUFF_SIZE
           => Recent(n, r1)'
  PROVE  DataPart(r1, h1)'
<1>1. /\ Len(dataNet) \in Nat /\ Len(dataNet') = Len(dataNet) - 1
      /\ \A i \in 1 .. Len(dataNet) - 1 : dataNet'[i] = dataNet[i + 1]
  <2>1. dataNet \in Seq(DataMsg)
    BY DEF TypeOK
  <2> QED BY <2>1, TakeFirst
<1>2. \A i \in 1 .. Len(dataNet') :
        i + 1 \in 1 .. Len(dataNet) /\ dataNet'[i] = dataNet[i + 1]
  BY <1>1
<1>3. ASSUME NEW i \in 1 .. Len(dataNet'), dataNet'[i].kind = "data"
      PROVE  /\ dataNet'[i].seq = Num(dataNet'[i].body)
             /\ dataNet'[i].body \in 1 .. accepted' /\ dataNet'[i].body <= h1
             /\ Recent(dataNet[i].body, r1)'
  <2>1. PICK m : m = dataNet[i + 1]
    OBVIOUS
  <2>2. i + 1 \in 1 .. Len(dataNet) /\ dataNet'[i] = m /\ m.kind = "data"
    BY <1>2, <1>3, <2>1
  <2>3. /\ m.seq = Num(m.body) /\ m.body \in 1 .. accepted /\ m.body <= h
        /\ Recent(m.body, r)
    BY <2>1, <2>2 DEF DataPart
  <2>4. dataNet[1].kind = "data" => dataNet[1].body < m.body + BUFF_SIZE
    <3>1. 1 < i + 1
      OBVIOUS
    <3> QED BY <2>1, <2>2, <3>1 DEF DataPart
  <2>5. m.body \in Nat
    BY <2>3
  <2>6. Recent(m.body, r1)'
    BY <2>3, <2>4, <2>5
  <2>7. Recent(dataNet[i].body, r1)'
    BY <2>2, <2>6 DEF Recent
  <2> QED BY <2>2, <2>3, <2>5, <2>7
<1>4. ASSUME NEW i \in 1 .. Len(dataNet'), NEW j \in 1 .. Len(dataNet'), j < i,
             dataNet'[i].kind = "data", dataNet'[j].kind = "data"
      PROVE  dataNet'[j].body < dataNet'[i].body + BUFF_SIZE
  <2>1. j + 1 < i + 1
    BY <1>4
  <2> QED BY <1>2, <1>4, <2>1 DEF DataPart
<1> QED BY <1>3, <1>4 DEF DataPart, Num

(* The acknowledgements behind the first one, and one more for what is now *)
(* in order.                                                               *)
LEMMA AckTaken ==
  ASSUME TypeOK, NEW a \in Nat, NEW r \in Nat, AckPart(a, r),
         1 \in 1 .. Len(ackNet), ackNet' = RemoveAt(ackNet, 1)
  PROVE  \E k \in a .. r : ackNet[1].seq = Num(k) /\ AckPart(k, r)'
<1>1. /\ Len(ackNet) \in Nat /\ Len(ackNet') = Len(ackNet) - 1
      /\ \A i \in 1 .. Len(ackNet) - 1 : ackNet'[i] = ackNet[i + 1]
  <2>1. ackNet \in Seq(AckMsg)
    BY DEF TypeOK
  <2> QED BY <2>1, TakeFirst
<1>2. PICK last \in [1 .. Len(ackNet) -> a .. r] :
        /\ \A i \in 1 .. Len(ackNet) : ackNet[i].seq = Num(last[i])
        /\ \A i, j \in 1 .. Len(ackNet) : i <= j => last[i] <= last[j]
  BY DEF AckPart
<1> DEFINE rest == [i \in 1 .. Len(ackNet') |-> last[i + 1]]
<1>3. \A i \in 1 .. Len(ackNet') : i + 1 \in 1 .. Len(ackNet)
  BY <1>1
<1>4. last[1] \in a .. r /\ ackNet[1].seq = Num(last[1])
  BY <1>2
<1>5. rest \in [1 .. Len(ackNet') -> last[1] .. r]
  <2>1. ASSUME NEW i \in 1 .. Len(ackNet') PROVE last[i + 1] \in last[1] .. r
    <3>1. i + 1 \in 1 .. Len(ackNet) /\ 1 <= i + 1
      BY <1>3
    <3>2. last[1] <= last[i + 1] /\ last[i + 1] \in a .. r
      BY <1>2, <3>1
    <3> QED BY <1>4, <3>2
  <2> QED BY <2>1
<1>6. \A i \in 1 .. Len(ackNet') : ackNet'[i].seq = Num(rest[i])
  BY <1>1, <1>2, <1>3
<1>7. \A i, j \in 1 .. Len(ackNet') : i <= j => rest[i] <= rest[j]
  <2>1. ASSUME NEW i \in 1 .. Len(ackNet'), NEW j \in 1 .. Len(ackNet'), i <= j
        PROVE  last[i + 1] <= last[j + 1]
    <3>1. i + 1 <= j + 1
      BY <2>1
    <3> QED BY <1>2, <1>3, <3>1
  <2> QED BY <2>1
<1> HIDE DEF rest
<1>8. AckPart(last[1], r)'
  BY <1>5, <1>6, <1>7 DEF AckPart, Num
<1> QED BY <1>4, <1>8

LEMMA AckPut ==
  ASSUME TypeOK, NEW a \in Nat, NEW r \in Nat, AckPart(a, r),
         NEW r1 \in Nat, r <= r1, a <= r1, NEW m \in AckMsg, m.seq = Num(r1),
         ackNet' = Enqueue(ackNet, <<m>>)
  PROVE  AckPart(a, r1)'
<1>1. ackNet \in Seq(AckMsg) /\ <<m>> \in Seq(AckMsg) /\ Len(<<m>>) = 1
  BY DEF TypeOK
<1>2. /\ Len(ackNet') \in Nat /\ Len(ackNet) \in Nat
      /\ \A i \in 1 .. Len(ackNet') :
           \/ i \in 1 .. Len(ackNet) /\ ackNet'[i] = ackNet[i]
           \/ /\ i > Len(ackNet) /\ i - Len(ackNet) \in 1 .. Len(<<m>>)
              /\ ackNet'[i] = <<m>>[i - Len(ackNet)]
  <2> DEFINE q == ackNet'
             b == <<m>>
  <2>1. Len(ackNet) \in Nat /\ q = Enqueue(ackNet, b) /\ b \in Seq(AckMsg)
    BY <1>1
  <2> HIDE DEF b, q
  <2>2. /\ Len(q) \in Nat
        /\ \A i \in 1 .. Len(q) :
             \/ i \in 1 .. Len(ackNet) /\ q[i] = ackNet[i]
             \/ /\ i > Len(ackNet) /\ i - Len(ackNet) \in 1 .. Len(b)
                /\ q[i] = b[i - Len(ackNet)]
    BY <1>1, <2>1, EnqueueShape
  <2> QED BY <2>1, <2>2 DEF b, q
<1>3. \A i \in 1 .. Len(ackNet') :
        \/ i \in 1 .. Len(ackNet) /\ ackNet'[i] = ackNet[i]
        \/ i = Len(ackNet) + 1 /\ ackNet'[i] = m
  BY <1>1, <1>2
<1>4. PICK last \in [1 .. Len(ackNet) -> a .. r] :
        /\ \A i \in 1 .. Len(ackNet) : ackNet[i].seq = Num(last[i])
        /\ \A i, j \in 1 .. Len(ackNet) : i <= j => last[i] <= last[j]
  BY DEF AckPart
<1> DEFINE more == [i \in 1 .. Len(ackNet') |->
                      IF i \in 1 .. Len(ackNet) THEN last[i] ELSE r1]
<1>5. more \in [1 .. Len(ackNet') -> a .. r1]
  BY <1>4
<1>6. \A i \in 1 .. Len(ackNet') : ackNet'[i].seq = Num(more[i])
  BY <1>2, <1>3, <1>4
<1>7. \A i, j \in 1 .. Len(ackNet') : i <= j => more[i] <= more[j]
  BY <1>2, <1>3, <1>4
<1> HIDE DEF more
<1> QED BY <1>5, <1>6, <1>7 DEF AckPart, Num

-----------------------------------------------------------------------------
(* The invariant, action by action.                                        *)

(* What k_socket assigns, for a receive map that has slot 0 for the first  *)
(* number that k_socket does not assign.                                   *)
Opened ==
  /\ snd_window = BUFF_SIZE /\ last_seq_ack = 0 /\ last_buf_index = 0
  /\ snd_valid = [b \in Buf |-> 0]
  /\ \E old \in [Seqno -> Buf] :
       old[0] = 0 /\ snd_map = Remap(old, 0, BUFF_SIZE)
  /\ to_deliver = 1 /\ last_inorder = 0 /\ rcv_window = BUFF_SIZE
  /\ rcv_valid = [b \in Buf |-> 0]
  /\ \A s \in Seqno : s < BUFF_SIZE => rcv_map[s] = s
  /\ rcv_map[BUFF_SIZE] = 0
  /\ dataNet = <<>> /\ ackNet = <<>>
  /\ accepted = 0 /\ delivered = <<>>

(* k_socket numbers BUFF_SIZE slots for either direction.                  *)
LEMMA OpenedLink == NumbersSuffice /\ Opened => Link
<1> SUFFICES ASSUME NumbersSuffice, Opened PROVE Link
  OBVIOUS
<1>1. /\ Slot(0) = 0 /\ Num(0) = 0 /\ Slot(BUFF_SIZE) = 0 /\ Read = 0
      /\ \A n \in 0 .. BUFF_SIZE - 1 : Slot(n) = n /\ Num(n) = n
      /\ \A n \in 0 .. BUFF_SIZE : Num(n) = n /\ Num(n) \in Seqno
      /\ \A n \in Int : Slot(n) \in Buf
  <2>1. Slot(0) = 0
    BY SlotFacts, Sizes DEF Buf
  <2>2. Slot(BUFF_SIZE) = 0
    BY <2>1, SlotFacts, Sizes
  <2>3. \A n \in 0 .. BUFF_SIZE - 1 : Slot(n) = n
    BY SlotFacts DEF Buf
  <2>4. ASSUME NEW n \in 0 .. BUFF_SIZE PROVE Num(n) = n /\ Num(n) \in Seqno
    <3>1. n \in 0 .. MAX_SEQ_NUM - 1
      BY Sizes
    <3> QED BY <3>1, ModSmall, Sizes DEF Num, Seqno
  <2>5. \A n \in 0 .. BUFF_SIZE - 1 : n \in 0 .. BUFF_SIZE
    BY Sizes
  <2>6. Read = 0
    BY DEF Opened, Read
  <2> QED BY <2>1, <2>2, <2>3, <2>4, <2>5, <2>6, SlotFacts, NumFacts
<1>2. SenderPart(0, BUFF_SIZE)
  <2>1. ASSUME NEW n \in 0 .. BUFF_SIZE PROVE snd_map[Num(n)] = Slot(n)
    <3> PICK old \in [Seqno -> Buf] :
               old[0] = 0 /\ snd_map = Remap(old, 0, BUFF_SIZE)
      BY DEF Opened
    <3>1. old[Num(0)] = Slot(0)
      BY <1>1
    <3>2. BUFF_SIZE \in Window /\ n \in 0 - BUFF_SIZE .. 0 + BUFF_SIZE
      BY Sizes DEF Window
    <3>3. Remap(old, Num(0), BUFF_SIZE)[Num(n)] = Slot(n)
      BY <3>1, <3>2, RemapRight
    <3> QED BY <1>1, <3>3
  <2>2. \A n \in 1 .. BUFF_SIZE : snd_valid[Slot(n)] = 0
    BY <1>1 DEF Opened
  <2> QED BY <1>1, <2>1, <2>2, Sizes DEF Opened, SenderPart
<1>3. ReceiverPart(0, BUFF_SIZE)
  <2>1. \A n \in Int : ~ Stored(n)
    BY <1>1 DEF Opened, Stored
  <2>2. ASSUME NEW n \in 0 .. BUFF_SIZE PROVE rcv_map[Num(n)] = Slot(n)
    <3>1. CASE n = BUFF_SIZE
      BY <1>1, <3>1, Sizes DEF Opened
    <3>2. CASE n # BUFF_SIZE
      <4>1. n \in 0 .. BUFF_SIZE - 1
        BY <3>2, Sizes
      <4>2. n \in Seqno /\ n < BUFF_SIZE
        BY <4>1, Sizes DEF Seqno
      <4> QED BY <1>1, <4>1, <4>2 DEF Opened
    <3> QED BY <3>1, <3>2
  <2>3. last_inorder = Num(0) /\ Slot(to_deliver) = Slot(Read + 1)
    BY <1>1 DEF Opened
  <2> QED BY <1>1, <2>1, <2>2, <2>3, Sizes DEF Opened, ReceiverPart
<1>4. DataPart(0, BUFF_SIZE)
  BY DEF Opened, DataPart
<1>5. AckPart(0, 0)
  <2>1. 1 .. Len(ackNet) = {}
    BY DEF Opened
  <2>2. [i \in 1 .. Len(ackNet) |-> 0] \in [1 .. Len(ackNet) -> 0 .. 0]
    OBVIOUS
  <2> QED BY <2>1, <2>2 DEF AckPart
<1>6. Linked(0, 0, BUFF_SIZE)
  BY <1>2, <1>3, <1>4, <1>5, Sizes DEF Linked, Opened
<1> QED BY <1>6, Sizes DEF Link

(* The first k_socket calls, on zero-filled rows.                          *)
LEMMA InitOpened ==
  ASSUME Init
  PROVE  Opened
<1>1. BUFF_SIZE \in Seqno /\ ~ (BUFF_SIZE < BUFF_SIZE)
  BY Sizes DEF Seqno
<1>2. rcv_map[BUFF_SIZE] = 0 /\ \A s \in Seqno : s < BUFF_SIZE => rcv_map[s] = s
  BY <1>1 DEF Init
<1>3. \E old \in [Seqno -> Buf] :
        old[0] = 0 /\ snd_map = Remap(old, 0, BUFF_SIZE)
  <2>1. [s \in Seqno |-> 0] \in [Seqno -> Buf] /\ [s \in Seqno |-> 0][0] = 0
    BY SeqnoClosed
  <2> QED BY <2>1 DEF Init
<1> QED BY <1>2, <1>3 DEF Init, Opened

(* The next ones, on the rows as their previous owners left them.          *)
LEMMA ReopenOpened ==
  ASSUME TypeOK, rcv_map[BUFF_SIZE] = 0, Reopen
  PROVE  Opened' /\ rcv_map'[BUFF_SIZE] = 0
<1>1. BUFF_SIZE \in Seqno /\ ~ (BUFF_SIZE < BUFF_SIZE)
  BY Sizes DEF Seqno
<1>2. rcv_map'[BUFF_SIZE] = 0 /\ \A s \in Seqno : s < BUFF_SIZE => rcv_map'[s] = s
  BY <1>1 DEF Reopen, ReopenReceiver
<1>3. \E old \in [Seqno -> Buf] :
        old[0] = 0 /\ snd_map' = Remap(old, 0, BUFF_SIZE)
  <2>1. /\ [snd_map EXCEPT ![0] = 0] \in [Seqno -> Buf]
        /\ [snd_map EXCEPT ![0] = 0][0] = 0
    BY SeqnoClosed DEF TypeOK
  <2> QED BY <2>1 DEF Reopen, ReopenSender
<1>4. /\ snd_window' = BUFF_SIZE /\ last_seq_ack' = 0 /\ last_buf_index' = 0
      /\ snd_valid' = [b \in Buf |-> 0]
      /\ to_deliver' = 1 /\ last_inorder' = 0 /\ rcv_window' = BUFF_SIZE
      /\ rcv_valid' = [b \in Buf |-> 0]
      /\ dataNet' = <<>> /\ ackNet' = <<>>
      /\ accepted' = 0 /\ delivered' = <<>>
  BY DEF Reopen, ReopenSender, ReopenReceiver
<1> QED BY <1>2, <1>3, <1>4 DEF Opened

(* The loops that renumber the receive map leave slot 0 to the number      *)
(* BUFF_SIZE, as long as the numbers have not wrapped.                     *)
LEMMA RemapShortSession ==
  ASSUME TypeOK, ShortSessions, rcv_map[BUFF_SIZE] = 0,
         NEW n \in Nat, n <= MaxMsgs, rcv_map[Num(n)] = Slot(n)
  PROVE  Remap(rcv_map, Num(n), BUFF_SIZE)[BUFF_SIZE] = 0
<1> DEFINE d == Dist(BUFF_SIZE, Num(n))
<1>1. BUFF_SIZE \in Seqno /\ BUFF_SIZE \in Int /\ n \in Int /\ n < MAX_SEQ_NUM
  BY Sizes DEF Seqno, ShortSessions
<1>2. Num(BUFF_SIZE) = BUFF_SIZE
  BY <1>1, Sizes, ModSmall DEF Num, Seqno
<1>3. d = Dist(Num(BUFF_SIZE), Num(n))
  BY <1>2
<1>4. CASE n <= BUFF_SIZE
  <2>1. BUFF_SIZE - n \in 0 .. MAX_SEQ_NUM - 1 /\ BUFF_SIZE - n \in Int
    BY <1>1, <1>4, Sizes
  <2>2. d = BUFF_SIZE - n
    BY <1>1, <1>3, <2>1, DistNum
  <2>3. (Slot(n) + (BUFF_SIZE - n)) % BUFF_SIZE = Slot(n + (BUFF_SIZE - n))
    BY <1>1, <2>1, SlotFacts
  <2>4. n + (BUFF_SIZE - n) = 0 + BUFF_SIZE
    BY <1>1
  <2>5. Slot(0 + BUFF_SIZE) = 0
    BY SlotFacts, Sizes DEF Buf
  <2> QED BY <1>1, <2>2, <2>3, <2>4, <2>5 DEF Remap
<1>5. CASE n > BUFF_SIZE
  <2>1. n - BUFF_SIZE \in 1 .. MAX_SEQ_NUM
    BY <1>1, <1>5, Sizes
  <2>2. d = MAX_SEQ_NUM - (n - BUFF_SIZE)
    BY <1>1, <1>3, <2>1, DistNum
  <2>3. ~ (d \in 1 .. BUFF_SIZE)
    BY <1>1, <2>2, Sizes
  <2> QED BY <1>1, <2>3 DEF Remap
<1> QED BY <1>1, <1>4, <1>5

(* k_sendto takes the slot after the last one, which is free only while    *)
(* fewer than BUFF_SIZE messages wait for an acknowledgement.              *)
LEMMA KSendtoLink ==
  ASSUME NumbersSuffice, TypeOK, NEW a \in Nat, NEW r \in Nat, NEW h \in Nat,
         Linked(a, r, h), KSendto
  PROVE  Linked(a, r, h)' /\ accepted < a + BUFF_SIZE
<1> DEFINE new == accepted + 1
<1>1. new \in Nat /\ accepted \in Nat /\ accepted' = new /\ a + BUFF_SIZE \in Nat
  BY Numbers, Sizes DEF KSendto
<1>2. Advance(last_buf_index) = Slot(new) /\ Slot(new) \in Buf
  <2>1. last_buf_index = Slot(accepted)
    BY DEF Linked, SenderPart
  <2>2. (Slot(accepted) + 1) % BUFF_SIZE = Slot(accepted + 1)
    BY <1>1, SlotFacts
  <2> QED BY <1>1, <2>1, <2>2, SlotFacts DEF Advance
<1>3. /\ snd_valid[Slot(new)] = 0
      /\ snd_valid' = [snd_valid EXCEPT ![Slot(new)] = 1]
      /\ send_buff' = [send_buff EXCEPT ![Slot(new)] = new]
      /\ last_buf_index' = Slot(new)
      /\ UNCHANGED <<snd_window, last_seq_ack, snd_map, rcvVars, dataNet,
                     ackNet, delivered>>
  BY <1>2 DEF KSendto
<1>4. accepted < a + BUFF_SIZE
  <2>1. SUFFICES ASSUME accepted = a + BUFF_SIZE PROVE FALSE
    BY <1>1, Order
  <2>2. Slot(new) = Slot(a + 1)
    <3>1. new = (a + 1) + BUFF_SIZE /\ a + 1 \in Int
      BY <2>1, Sizes
    <3> QED BY <3>1, SlotFacts
  <2>3. a + 1 \in a + 1 .. a + BUFF_SIZE /\ a + 1 <= accepted
    BY <2>1, Sizes
  <2>4. snd_valid[Slot(a + 1)] # 0
    BY <2>3 DEF Linked, SenderPart
  <2> QED BY <1>3, <2>2, <2>4
<1> HIDE DEF new
<1>5. ASSUME NEW n \in a + 1 .. a + BUFF_SIZE
      PROVE  IF n <= new THEN snd_valid'[Slot(n)] # 0 /\ send_buff'[Slot(n)] = n
                         ELSE snd_valid'[Slot(n)] = 0
  <2>1. n \in Int /\ Slot(n) \in Buf
    BY SlotFacts
  <2>2. CASE n = new
    BY <1>2, <1>3, <2>2 DEF TypeOK
  <2>3. CASE n # new
    <3>1. Slot(n) # Slot(new)
      <4>1. n - new < BUFF_SIZE /\ new - n < BUFF_SIZE
        BY <1>1, <1>4, Order, Sizes DEF new
      <4> QED BY <1>1, <2>1, <2>3, <4>1, SlotInjective
    <3>2. snd_valid'[Slot(n)] = snd_valid[Slot(n)]
          /\ send_buff'[Slot(n)] = send_buff[Slot(n)]
      BY <1>2, <1>3, <2>1, <3>1 DEF TypeOK
    <3>3. n <= new <=> n <= accepted
      BY <1>1, <2>1, <2>3 DEF new
    <3> QED BY <3>2, <3>3 DEF Linked, SenderPart
  <2> QED BY <2>2, <2>3
<1>6. SenderPart(a, h)'
  BY <1>1, <1>3, <1>4, <1>5, Order DEF new, Linked, SenderPart, Slot, Num
<1>7. ReceiverPart(r, h)'
  BY <1>1, <1>3, ReceiverKept DEF new, Linked, rcvVars
<1>8. DataPart(r, h)'
  BY <1>1, <1>3, DataKept DEF new, Linked, rcvVars
<1>9. AckPart(a, r)'
  BY <1>3 DEF Linked, AckPart
<1> QED BY <1>1, <1>4, <1>6, <1>7, <1>8, <1>9 DEF new, Linked

(* k_recvfrom hands out the next message: the slot it looks at is that of  *)
(* the message after those read, and the next one in order is never there. *)
LEMMA KRecvfromLink ==
  ASSUME NumbersSuffice, TypeOK, NEW a \in Nat, NEW r \in Nat, NEW h \in Nat,
         Linked(a, r, h), KRecvfrom
  PROVE  /\ Linked(a, r, h)'
         /\ Read < r /\ delivered' = Append(delivered, Read + 1)
<1> DEFINE new == Read + 1
<1>1. /\ Read \in Nat /\ new \in Nat /\ accepted \in Nat
      /\ rcv_window \in 0 .. BUFF_SIZE /\ to_deliver \in Nat
      /\ Read <= r /\ r <= Read + BUFF_SIZE
      /\ r + rcv_window <= Read + BUFF_SIZE
  BY Numbers, Order
<1>2. to_deliver % BUFF_SIZE = Slot(new) /\ Slot(new) \in Buf
  BY <1>1, SlotFacts DEF Linked, ReceiverPart, Slot
<1>3. /\ rcv_valid[Slot(new)] = 1
      /\ delivered' = Append(delivered, recv_buff[Slot(new)])
      /\ rcv_valid' = [rcv_valid EXCEPT ![Slot(new)] = 0]
      /\ to_deliver' = Advance(to_deliver)
      /\ rcv_window' \in {rcv_window, rcv_window + 1}
      /\ rcv_map' = Remap(rcv_map, last_inorder, BUFF_SIZE)
      /\ UNCHANGED <<last_inorder, recv_buff, prev_empty, sndVars, dataNet,
                     ackNet, accepted>>
  BY <1>2 DEF KRecvfrom
<1>4. PICK w \in 0 .. BUFF_SIZE :
        rcv_window' = w /\ rcv_window <= w /\ w <= rcv_window + 1
  <2>1. rcv_window' \in 0 .. BUFF_SIZE
    BY <1>1, Sizes DEF KRecvfrom
  <2>2. rcv_window <= rcv_window' /\ rcv_window' <= rcv_window + 1
    BY <1>1, <1>3
  <2> QED BY <2>1, <2>2
<1>5. Stored(new) /\ new \in Read + 1 .. Read + BUFF_SIZE
  BY <1>1, <1>3, Sizes DEF Stored
<1>6. recv_buff[Slot(new)] = new /\ new # r + 1
  BY <1>5 DEF Linked, ReceiverPart
<1>7. Read < r
  BY <1>1, <1>6
<1>8. delivered' = Append(delivered, new) /\ Read' = new
  BY <1>3, <1>6 DEF Read, TypeOK
<1> HIDE DEF new
<1>9. new = Read + 1
  BY DEF new
<1>10. ASSUME NEW n \in new + 1 .. new + BUFF_SIZE
       PROVE  Stored(n)' <=> Stored(n) /\ n \in Read + 1 .. Read + BUFF_SIZE
  <2>1. n \in Int /\ Slot(n) \in Buf /\ n > new
    BY <1>1, SlotFacts
  <2>2. CASE n = new + BUFF_SIZE
    <3>1. Slot(n) = Slot(new)
      BY <1>1, <2>2, SlotFacts
    <3>2. n \notin Read + 1 .. Read + BUFF_SIZE
      BY <1>1, <1>9, <2>2, Sizes
    <3> QED BY <1>2, <1>3, <3>1, <3>2 DEF Stored, Slot, TypeOK
  <2>3. CASE n # new + BUFF_SIZE
    <3>1. n - new < BUFF_SIZE /\ new - n < BUFF_SIZE /\ n # new
      BY <1>1, <2>1, <2>3, Sizes
    <3>2. Slot(n) # Slot(new)
      BY <1>1, <2>1, <3>1, SlotInjective
    <3>3. rcv_valid'[Slot(n)] = rcv_valid[Slot(n)]
      BY <1>2, <1>3, <2>1, <3>2 DEF TypeOK
    <3>4. n \in Read + 1 .. Read + BUFF_SIZE
      BY <1>1, <1>9, <2>1, <3>1, Sizes
    <3> QED BY <3>3, <3>4 DEF Stored, Slot
  <2> QED BY <2>2, <2>3
<1>11. ReceiverPart(r, h)'
  <2>1. last_inorder' = Num(r)
    BY <1>3 DEF Linked, ReceiverPart
  <2>2. Slot(to_deliver') = Slot(new + 1)
    <3>1. Advance(to_deliver) = Slot(to_deliver + 1)
      BY DEF Advance, Slot
    <3>2. Slot(to_deliver + 1) = Slot(new + 1)
      <4>1. Slot(to_deliver) = Slot(new)
        BY <1>2 DEF Slot
      <4>2. /\ (Slot(to_deliver) + 1) % BUFF_SIZE = Slot(to_deliver + 1)
            /\ (Slot(new) + 1) % BUFF_SIZE = Slot(new + 1)
        <5>1. to_deliver \in Int /\ new \in Int /\ 1 \in Int
          BY <1>1
        <5> QED BY <5>1, SlotFacts
      <4> QED BY <4>1, <4>2
    <3>3. Slot(to_deliver + 1) \in Buf
      BY <1>1, SlotFacts
    <3> QED BY <1>3, <3>1, <3>2, <3>3, SlotFacts
  <2>3. new <= r /\ r + w <= new + BUFF_SIZE
    BY <1>1, <1>4, <1>7, <1>9, Sizes
  <2>4. \A n \in r .. r + w : rcv_map'[Num(n)] = Slot(n)
    <3>1. ASSUME NEW n \in r .. r + w PROVE rcv_map'[Num(n)] = Slot(n)
      <4>1. /\ last_inorder = Num(r) /\ rcv_map[Num(r)] = Slot(r)
            /\ rcv_map \in [Seqno -> Buf] /\ BUFF_SIZE \in Window /\ r \in Int
        <5>1. r \in r .. r + rcv_window
          BY <1>1
        <5> QED BY <5>1, Sizes DEF Linked, ReceiverPart, TypeOK, Window
      <4>2. n \in r - BUFF_SIZE .. r + BUFF_SIZE /\ n \in r .. r + BUFF_SIZE
        BY Sizes
      <4> QED BY <1>3, <4>1, <4>2, RemapRight
    <3> QED BY <3>1
  <2>5. \A n \in new + 1 .. r : Stored(n)'
    <3>1. ASSUME NEW n \in new + 1 .. r PROVE Stored(n)'
      <4>1. n \in new + 1 .. new + BUFF_SIZE /\ n \in Read + 1 .. r
            /\ n \in Read + 1 .. Read + BUFF_SIZE
        BY <1>1, <1>9, Sizes
      <4>2. Stored(n)
        BY <4>1 DEF Linked, ReceiverPart
      <4> QED BY <1>10, <4>1, <4>2
    <3> QED BY <3>1
  <2>6. ASSUME NEW n \in new + 1 .. new + BUFF_SIZE, Stored(n)'
        PROVE  /\ recv_buff'[Slot(n)] = n
               /\ n <= accepted' /\ n <= h
               /\ n <= r + w /\ n # r + 1
               /\ prev_empty' = 1 => n <= r
    <3>1. Stored(n) /\ n \in Read + 1 .. Read + BUFF_SIZE
      BY <1>10, <2>6
    <3>2. /\ recv_buff[Slot(n)] = n
          /\ n <= accepted /\ n <= h
          /\ n <= r + rcv_window /\ n # r + 1
          /\ prev_empty = 1 => n <= r
      BY <3>1 DEF Linked, ReceiverPart
    <3>3. n <= r + w
      BY <1>1, <1>4, <3>1, <3>2
    <3> QED BY <1>3, <3>2, <3>3
  <2> QED BY <1>4, <1>8, <2>1, <2>2, <2>3, <2>4, <2>5, <2>6
          DEF ReceiverPart, Slot, Num, Stored
<1>12. SenderPart(a, h)'
  BY <1>3, SenderKept DEF Linked
<1>13. DataPart(r, h)'
  <2>1. ASSUME NEW n, Recent(n, r) PROVE Recent(n, r)'
    <3>1. ASSUME NEW k \in new + 1 .. new + BUFF_SIZE, Stored(k)'
          PROVE  k < n + BUFF_SIZE
      BY <1>10, <2>1, <3>1 DEF Recent
    <3> QED BY <1>8, <2>1, <3>1 DEF Recent
  <2>2. ASSUME NEW i \in 1 .. Len(dataNet), dataNet[i].kind = "data"
        PROVE  /\ dataNet[i].seq = Num(dataNet[i].body)
               /\ dataNet[i].body \in 1 .. accepted /\ dataNet[i].body <= h
               /\ Recent(dataNet[i].body, r)'
    <3>1. PICK n : n = dataNet[i].body
      OBVIOUS
    <3>2. /\ dataNet[i].seq = Num(n) /\ n \in 1 .. accepted /\ n <= h
          /\ Recent(n, r)
      BY <2>2, <3>1 DEF Linked, DataPart
    <3>3. Recent(n, r)'
      BY <2>1, <3>2
    <3>4. Recent(dataNet[i].body, r)'
      BY <1>3, <3>1, <3>3 DEF Recent
    <3> QED BY <3>1, <3>2, <3>4
  <2>3. \A i, j \in 1 .. Len(dataNet) :
          j < i /\ dataNet[i].kind = "data" /\ dataNet[j].kind = "data" =>
            dataNet[j].body < dataNet[i].body + BUFF_SIZE
    BY DEF Linked, DataPart
  <2>4. dataNet' = dataNet /\ accepted' = accepted
    BY <1>3
  <2> QED BY <2>2, <2>3, <2>4 DEF DataPart, Num
<1>14. AckPart(a, r)'
  BY <1>3 DEF Linked, AckPart
<1> QED BY <1>3, <1>7, <1>8, <1>9, <1>11, <1>12, <1>13, <1>14 DEF Linked

(* A pass of S_Thread: the slot at offset j of the window is that of       *)
(* message a + 1 + j, and what it sends is what that number stands for.    *)
LEMMA SPassLink ==
  ASSUME NumbersSuffice, TypeOK, NEW a \in Nat, NEW r \in Nat, NEW h \in Nat,
         Linked(a, r, h), SThread
  PROVE  Linked(a, r, h)'
<1>1. PICK due \in SUBSET Buf : SPass(due)
  BY DEF SThread
<1> DEFINE k == Cardinality(due)
<1>2. /\ due \subseteq 0 .. snd_window - 1
      /\ \A j \in due : snd_valid[SendSlot(j)] \in {1, 2}
      /\ snd_valid' = [b \in Buf |-> IF \E j \in due : b = SendSlot(j)
                                     THEN 2 ELSE snd_valid[b]]
      /\ UNCHANGED <<snd_window, last_seq_ack, last_buf_index, snd_map,
                     send_buff, rcvVars, ackNet, histVars>>
  BY <1>1 DEF SPass
<1>3. /\ accepted \in Nat /\ snd_window \in 0 .. BUFF_SIZE
      /\ r <= a + BUFF_SIZE /\ h <= a + BUFF_SIZE /\ a + snd_window <= h
      /\ accepted <= a + BUFF_SIZE
  BY Numbers, Order, Sizes
<1>4. ASSUME NEW j \in due
      PROVE  /\ j \in Nat /\ a + 1 + j \in a + 1 .. h
             /\ SendSlot(j) = Slot(a + 1 + j)
             /\ After(last_seq_ack, j + 1) = Num(a + 1 + j)
             /\ a + 1 + j <= accepted
             /\ send_buff[SendSlot(j)] = a + 1 + j
  <2>1. j \in 0 .. snd_window - 1 /\ j \in Nat
    BY <1>2, <1>3
  <2>2. a + 1 + j \in a + 1 .. h /\ a + 1 \in a .. h
        /\ a + 1 + j \in a + 1 .. a + BUFF_SIZE
    <3>1. j + 1 <= snd_window /\ snd_window \in Int /\ a + snd_window <= h
      BY <1>3, <2>1
    <3>2. a + 1 + j <= h /\ a + 1 <= h /\ h <= a + BUFF_SIZE
      BY <1>3, <2>1, <3>1
    <3> QED BY <2>1, <3>2, Sizes
  <2>3. last_seq_ack = Num(a)
    BY DEF Linked, SenderPart
  <2>4. After(last_seq_ack, 1) = Num(a + 1)
        /\ After(last_seq_ack, j + 1) = Num(a + 1 + j)
    <3>1. a \in Int /\ j + 1 \in Int /\ 1 \in Int /\ a + (j + 1) = a + 1 + j
      BY <2>1
    <3> QED BY <2>3, <3>1, NumFacts
  <2>5. snd_map[Num(a + 1)] = Slot(a + 1)
    BY <2>2 DEF Linked, SenderPart
  <2>6. SendSlot(j) = Slot(a + 1 + j)
    <3>1. a + 1 \in Int /\ j \in Int
      BY <2>1
    <3>2. (Slot(a + 1) + j) % BUFF_SIZE = Slot(a + 1 + j)
      BY <3>1, SlotFacts
    <3> QED BY <2>4, <2>5, <3>2 DEF SendSlot
  <2>7. snd_valid[Slot(a + 1 + j)] # 0
    BY <1>2, <2>6
  <2> QED BY <2>1, <2>2, <2>4, <2>6, <2>7 DEF Linked, SenderPart
<1>5. \A n \in Int : snd_valid'[Slot(n)] = 0 <=> snd_valid[Slot(n)] = 0
  <2>1. ASSUME NEW n \in Int
        PROVE  snd_valid'[Slot(n)] = 0 <=> snd_valid[Slot(n)] = 0
    <3>1. Slot(n) \in Buf
      BY SlotFacts
    <3> QED BY <1>2, <3>1
  <2> QED BY <2>1
<1>6. SenderPart(a, h)'
  <2>1. ASSUME NEW n \in a + 1 .. a + BUFF_SIZE
        PROVE  IF n <= accepted
               THEN snd_valid'[Slot(n)] # 0 /\ send_buff[Slot(n)] = n
               ELSE snd_valid'[Slot(n)] = 0
    BY <1>5 DEF Linked, SenderPart
  <2> QED BY <1>2, <2>1 DEF Linked, SenderPart, histVars, Slot, Num
<1>7. ReceiverPart(r, h)'
  BY <1>2, <1>3, ReceiverKept DEF Linked, rcvVars, histVars
<1>8. DataPart(r, h)'
  <2>1. PICK pick \in [1 .. k -> due] :
          dataNet' = Enqueue(dataNet,
                       [i \in 1 .. k |-> Data(After(last_seq_ack, pick[i] + 1),
                                              send_buff[SendSlot(pick[i])])])
    BY <1>1 DEF SPass
  <2> DEFINE batch == [i \in 1 .. k |-> Data(After(last_seq_ack, pick[i] + 1),
                                             send_buff[SendSlot(pick[i])])]
             Due(m) == \E n \in a + 1 .. h :
                         m.seq = Num(n) /\ m.body = n /\ n <= accepted
  <2>2. k \in Nat
    <3>1. IsFiniteSet(Buf)
      BY SeqnoClosed, FS_Interval DEF Buf
    <3> QED BY <3>1, FS_Subset, FS_CardinalityType
  <2>3. ASSUME NEW i \in 1 .. k PROVE batch[i] \in DataMsg /\ Due(batch[i])
    <3> DEFINE n == a + 1 + pick[i]
    <3>1. /\ pick[i] \in due
          /\ n \in a + 1 .. h /\ n <= accepted
          /\ batch[i] = Data(Num(n), n)
      BY <1>4, <2>1
    <3> HIDE DEF n, batch
    <3>2. n \in 0 .. MaxMsgs /\ Num(n) \in Seqno
      <4>1. accepted <= MaxMsgs /\ n \in Int /\ n >= 0
        BY <1>3, <3>1, Sizes DEF TypeOK
      <4> QED BY <1>3, <3>1, <4>1, NumFacts, Sizes
    <3>3. batch[i] \in DataMsg
      BY <3>1, <3>2 DEF Data, DataMsg
    <3>4. batch[i].seq = Num(n) /\ batch[i].body = n
      BY <3>1 DEF Data
    <3> QED BY <3>1, <3>3, <3>4
  <2>4. batch \in Seq(DataMsg) /\ Len(batch) = k
    BY <2>2, <2>3
  <2>5. dataNet' = Enqueue(dataNet, batch) /\ dataNet \in Seq(DataMsg)
    BY <2>1 DEF TypeOK
  <2> HIDE DEF batch
  <2>6. \A i \in 1 .. Len(dataNet') :
          \/ i \in 1 .. Len(dataNet) /\ dataNet'[i] = dataNet[i]
          \/ i > Len(dataNet) /\ Due(dataNet'[i])
    <3> DEFINE q == dataNet'
    <3>1. q = Enqueue(dataNet, batch)
      BY <2>5
    <3> HIDE DEF q
    <3>2. \A i \in 1 .. Len(q) :
            \/ i \in 1 .. Len(dataNet) /\ q[i] = dataNet[i]
            \/ /\ i > Len(dataNet) /\ i - Len(dataNet) \in 1 .. Len(batch)
               /\ q[i] = batch[i - Len(dataNet)]
      BY <2>4, <2>5, <3>1, EnqueueShape
    <3>3. \A i \in 1 .. Len(q) : \/ i \in 1 .. Len(dataNet) /\ q[i] = dataNet[i]
                                 \/ i > Len(dataNet) /\ Due(q[i])
      BY <2>3, <2>4, <3>2
    <3> QED BY <3>3 DEF q
  <2>7. \A n \in a + 1 .. h : Recent(n, r)
    <3>1. ASSUME NEW n \in a + 1 .. h,
                 NEW i \in Read + 1 .. Read + BUFF_SIZE, Stored(i)
          PROVE  i < n + BUFF_SIZE
      <4>1. i <= h /\ i \in Int /\ n \in Int /\ n > a
        BY <3>1, Numbers, Sizes DEF Linked, ReceiverPart
      <4> QED BY <1>3, <4>1, Sizes
    <3>2. ASSUME NEW n \in a + 1 .. h PROVE r < n + BUFF_SIZE
      BY <1>3, Sizes
    <3> QED BY <3>1, <3>2 DEF Recent
  <2>8. \A n : Recent(n, r) <=> Recent(n, r)'
    BY <1>2 DEF Recent, Read, Stored, Slot, rcvVars, histVars
  <2>9. ASSUME NEW i \in 1 .. Len(dataNet'), dataNet'[i].kind = "data"
        PROVE  /\ dataNet'[i].seq = Num(dataNet'[i].body)
               /\ dataNet'[i].body \in 1 .. accepted /\ dataNet'[i].body <= h
               /\ Recent(dataNet[i].body, r)'
    <3>1. PICK m : m = dataNet'[i]
      OBVIOUS
    <3>2. /\ m.seq = Num(m.body) /\ m.body \in 1 .. accepted /\ m.body <= h
          /\ Recent(m.body, r)
      <4>1. CASE i \in 1 .. Len(dataNet) /\ m = dataNet[i]
        BY <2>9, <3>1, <4>1 DEF Linked, DataPart
      <4>2. CASE Due(m)
        <5>1. PICK n \in a + 1 .. h :
                m.seq = Num(n) /\ m.body = n /\ n <= accepted
          BY <4>2
        <5>2. n \in 1 .. accepted /\ n <= h
          BY <1>3, <5>1
        <5> QED BY <2>7, <5>1, <5>2
      <4> QED BY <2>6, <3>1, <4>1, <4>2
    <3>3. Recent(m.body, r)'
      BY <2>8, <3>2
    <3>4. Recent(dataNet[i].body, r)'
      BY <3>1, <3>3 DEF Recent
    <3> QED BY <3>1, <3>2, <3>4
  <2>10. ASSUME NEW i \in 1 .. Len(dataNet'), NEW j \in 1 .. Len(dataNet'), j < i,
                dataNet'[i].kind = "data", dataNet'[j].kind = "data"
         PROVE  dataNet'[j].body < dataNet'[i].body + BUFF_SIZE
    <3>1. CASE i \in 1 .. Len(dataNet) /\ dataNet'[i] = dataNet[i]
      <4>1. j \in 1 .. Len(dataNet) /\ dataNet'[j] = dataNet[j]
        BY <2>6, <2>10, <3>1
      <4> QED BY <2>10, <3>1, <4>1 DEF Linked, DataPart
    <3>2. CASE Due(dataNet'[i])
      <4>1. dataNet'[i].body \in a + 1 .. h
        BY <3>2
      <4>2. dataNet'[j].body \in 1 .. accepted /\ dataNet'[j].body <= h
        BY <2>9, <2>10
      <4>3. PICK x, y : x = dataNet'[i].body /\ y = dataNet'[j].body
        OBVIOUS
      <4>4. x > a /\ x \in Int /\ y <= h /\ y \in Int
        BY <4>1, <4>2, <4>3
      <4> QED BY <1>3, <4>3, <4>4, Sizes
    <3> QED BY <2>6, <3>1, <3>2
  <2>11. accepted' = accepted
    BY <1>2 DEF histVars
  <2> QED BY <2>9, <2>10, <2>11 DEF DataPart, Num
<1>9. AckPart(a, r)'
  BY <1>2 DEF Linked, AckPart
<1> QED BY <1>2, <1>6, <1>7, <1>8, <1>9 DEF Linked, histVars

(* A datagram that is discarded, with or without a repetition of the last  *)
(* acknowledgement.                                                        *)
LEMMA Discarded ==
  ASSUME TypeOK, NEW a \in Nat, NEW r \in Nat, NEW h \in Nat, Linked(a, r, h),
         UNCHANGED <<sndVars, to_deliver, last_inorder, rcv_window, rcv_valid,
                     rcv_map, recv_buff, delivered, accepted>>,
         prev_empty' \in {0, prev_empty},
         1 \in 1 .. Len(dataNet), dataNet' = RemoveAt(dataNet, 1),
         \/ ackNet' = ackNet
         \/ \E m \in AckMsg : m.seq = Num(r) /\ ackNet' = Enqueue(ackNet, <<m>>)
  PROVE  Linked(a, r, h)'
<1>1. accepted \in Nat /\ a <= r /\ r <= accepted /\ r <= h
  BY Numbers, Order
<1>2. SenderPart(a, h)'
  BY SenderKept DEF Linked
<1>3. ReceiverPart(r, h)'
  BY <1>1, ReceiverKept DEF Linked
<1>4. DataPart(r, h)'
  <2>1. \A n \in Nat : Recent(n, r) => Recent(n, r)'
    BY DEF Recent, Read, Stored, Slot
  <2> QED BY <1>1, <2>1, DataTaken DEF Linked
<1>5. AckPart(a, r)'
  <2>1. CASE ackNet' = ackNet
    BY <2>1 DEF Linked, AckPart
  <2>2. CASE \E m \in AckMsg : m.seq = Num(r) /\ ackNet' = Enqueue(ackNet, <<m>>)
    BY <1>1, <2>2, AckPut DEF Linked
  <2> QED BY <2>1, <2>2
<1> QED BY <1>1, <1>2, <1>3, <1>4, <1>5 DEF Linked

(* The acknowledgements R_Thread makes.                                    *)
LEMMA ReplyIs ==
  ASSUME TypeOK, NEW r \in Nat, last_inorder = Num(r),
         NEW kind \in {"ack", "space"}
  PROVE  /\ Reply(kind, last_inorder, rcv_window) =>
              \E m \in AckMsg :
                m.seq = Num(r) /\ ackNet' = Enqueue(ackNet, <<m>>)
         /\ last_inorder' = last_inorder /\ rcv_window' \in Window
              /\ Reply(kind, last_inorder, rcv_window') =>
              \E m \in AckMsg :
                m.seq = Num(r) /\ ackNet' = Enqueue(ackNet, <<m>>)
<1>1. \A w \in Window : Ack(kind, last_inorder, w) \in AckMsg
                        /\ Ack(kind, last_inorder, w).seq = Num(r)
  BY DEF TypeOK, Ack, AckMsg
<1>2. rcv_window \in Window
  BY DEF TypeOK
<1> QED BY <1>1, <1>2 DEF Reply

LEMMA DropLink ==
  ASSUME InOrderNetworks, TypeOK, NEW a \in Nat, NEW r \in Nat, NEW h \in Nat,
         Linked(a, r, h), DropData \/ DropAck
  PROVE  Linked(a, r, h)'
<1>1. CASE DropData
  <2>1. /\ 1 \in 1 .. Len(dataNet) /\ dataNet' = RemoveAt(dataNet, 1)
        /\ UNCHANGED <<sndVars, rcvVars, ackNet, histVars>>
    BY <1>1, OnlyFirst DEF DropData
  <2> QED BY <2>1, Discarded DEF rcvVars, histVars
<1>2. CASE DropAck
  <2>1. /\ 1 \in 1 .. Len(ackNet) /\ ackNet' = RemoveAt(ackNet, 1)
        /\ UNCHANGED <<sndVars, rcvVars, dataNet, histVars>>
    BY <1>2, OnlyFirst DEF DropAck
  <2>2. accepted \in Nat /\ a <= r /\ r <= accepted /\ r <= h
    BY Numbers, Order
  <2>3. AckPart(a, r)'
    <3>1. PICK k \in a .. r : AckPart(k, r)'
      BY <2>1, AckTaken DEF Linked
    <3>2. k .. r \subseteq a .. r
      OBVIOUS
    <3> QED BY <3>1, <3>2 DEF AckPart
  <2>4. SenderPart(a, h)'
    BY <2>1, SenderKept DEF Linked, histVars
  <2>5. ReceiverPart(r, h)'
    BY <2>1, <2>2, ReceiverKept DEF Linked, rcvVars, histVars
  <2>6. DataPart(r, h)'
    BY <2>1, <2>2, DataKept DEF Linked, rcvVars, histVars
  <2> QED BY <2>1, <2>2, <2>3, <2>4, <2>5, <2>6 DEF Linked, histVars
<1> QED BY <1>1, <1>2

LEMMA RecvDiscardLink ==
  ASSUME InOrderNetworks, TypeOK, NEW a \in Nat, NEW r \in Nat, NEW h \in Nat,
         Linked(a, r, h), RecvEmpty \/ RecvDuplicate \/ RecvOutside
  PROVE  Linked(a, r, h)'
<1>1. last_inorder = Num(r)
  BY DEF Linked, ReceiverPart
<1>2. /\ 1 \in 1 .. Len(dataNet) /\ dataNet' = RemoveAt(dataNet, 1)
      /\ UNCHANGED <<sndVars, to_deliver, last_inorder, rcv_window, rcv_valid,
                     rcv_map, recv_buff, delivered, accepted>>
      /\ prev_empty' \in {0, prev_empty}
      /\ ackNet' = ackNet \/ Reply("ack", last_inorder, rcv_window)
  <2>1. CASE RecvEmpty
    BY <2>1, OnlyFirst DEF RecvEmpty, histVars
  <2>2. CASE RecvDuplicate
    BY <2>2, OnlyFirst DEF RecvDuplicate, rcvVars, histVars
  <2>3. CASE RecvOutside
    BY <2>3, OnlyFirst DEF RecvOutside, rcvVars, histVars
  <2> QED BY <2>1, <2>2, <2>3
<1> QED BY <1>1, <1>2, Discarded, ReplyIs

(* The announcement of new space.  The count of R_Thread starts at the     *)
(* slot of the last message in order: it finds no space while that message *)
(* is to be read, and the whole buffer when nothing is.                    *)
LEMMA RTimeoutLink ==
  ASSUME NumbersSuffice, TypeOK, NEW a \in Nat, NEW r \in Nat, NEW h \in Nat,
         Linked(a, r, h), RTimeout
  PROVE  Linked(a, r, h)'
<1> DEFINE free == {j \in Buf : rcv_valid[rcv_map[After(last_inorder, j)]] # 1}
<1>1. /\ prev_empty = 1
      /\ rcv_map' = Remap(rcv_map, last_inorder, BUFF_SIZE)
      /\ Reply("space", last_inorder, rcv_window')
      /\ UNCHANGED <<to_deliver, last_inorder, nospace, rcv_valid, recv_buff,
                     prev_empty, sndVars, dataNet, histVars>>
  BY DEF RTimeout, SpaceReturned
<1>2. PICK w \in Window : rcv_window' = w /\ StopsAt(free, w)
  BY DEF RTimeout
<1>3. /\ Read \in Nat /\ accepted \in Nat /\ rcv_window \in 0 .. BUFF_SIZE
      /\ Read <= r /\ r <= Read + BUFF_SIZE /\ a <= r /\ r <= accepted /\ r <= h
  BY Numbers, Order
<1>4. last_inorder = Num(r) /\ rcv_map[Num(r)] = Slot(r)
  <2>1. r \in r .. r + rcv_window
    BY <1>3
  <2> QED BY <2>1 DEF Linked, ReceiverPart
<1>5. \A n \in Read + 1 .. Read + BUFF_SIZE : Stored(n) => n <= r
  BY <1>1 DEF Linked, ReceiverPart
<1>6. r + w <= Read + BUFF_SIZE
  <2>1. CASE Read < r
    <3>1. 0 \notin free
      <4>1. After(last_inorder, 0) = Num(r)
        <5>1. r \in Int /\ 0 \in Int /\ r + 0 = r
          OBVIOUS
        <5> QED BY <1>4, <5>1, NumFacts
      <4>2. r \in Read + 1 .. r
        BY <1>3, <2>1
      <4>3. Stored(r)
        BY <4>2 DEF Linked, ReceiverPart
      <4> QED BY <1>4, <4>1, <4>3 DEF Stored
    <3> HIDE DEF free
    <3>2. w = 0
      <4>1. SUFFICES ASSUME w # 0 PROVE FALSE
        OBVIOUS
      <4>2. 0 \in 0 .. w - 1
        BY <4>1, Sizes DEF Window
      <4> QED BY <1>2, <3>1, <4>2 DEF StopsAt
    <3> QED BY <1>3, <3>2, Sizes
  <2>2. CASE ~ (Read < r)
    BY <1>3, <2>2, Sizes DEF Window
  <2> QED BY <2>1, <2>2
<1>7. ReceiverPart(r, h)'
  <2>1. /\ Read' = Read /\ accepted' = accepted
        /\ UNCHANGED <<last_inorder, to_deliver, rcv_valid, recv_buff, prev_empty>>
    BY <1>1 DEF histVars, Read
  <2>2. \A n \in r .. r + w : rcv_map'[Num(n)] = Slot(n)
    <3>1. ASSUME NEW n \in r .. r + w PROVE rcv_map'[Num(n)] = Slot(n)
      <4>1. rcv_map \in [Seqno -> Buf] /\ BUFF_SIZE \in Window /\ r \in Int
        BY Sizes DEF TypeOK, Window
      <4>2. n \in r - BUFF_SIZE .. r + BUFF_SIZE /\ n \in r .. r + BUFF_SIZE
        BY Sizes DEF Window
      <4> QED BY <1>1, <1>4, <4>1, <4>2, RemapRight
    <3> QED BY <3>1
  <2>3. \A n : Stored(n)' <=> Stored(n)
    BY <2>1 DEF Stored, Slot
  <2>4. ASSUME NEW n \in Read + 1 .. Read + BUFF_SIZE, Stored(n)
        PROVE  /\ recv_buff[Slot(n)] = n
               /\ n <= accepted /\ n <= h
               /\ n <= r + w /\ n # r + 1
               /\ prev_empty = 1 => n <= r
    <3>1. n <= r + w
      BY <1>3, <1>5, <2>4, Sizes DEF Window
    <3> QED BY <2>4, <3>1 DEF Linked, ReceiverPart
  <2>5. /\ last_inorder = Num(r) /\ Slot(to_deliver) = Slot(Read + 1)
        /\ \A n \in Read + 1 .. r : Stored(n)
    BY DEF Linked, ReceiverPart
  <2> QED BY <1>2, <1>3, <1>6, <2>1, <2>2, <2>3, <2>4, <2>5
          DEF ReceiverPart, Slot, Num, Stored
<1>8. SenderPart(a, h)'
  BY <1>1, SenderKept DEF Linked, histVars
<1>9. DataPart(r, h)'
  BY <1>1, <1>3, DataKept DEF Linked, histVars
<1>10. AckPart(a, r)'
  <2>1. \E m \in AckMsg : m.seq = Num(r) /\ ackNet' = Enqueue(ackNet, <<m>>)
    BY <1>1, <1>2, <1>4, ReplyIs
  <2> QED BY <1>3, <2>1, AckPut DEF Linked
<1> QED BY <1>1, <1>3, <1>7, <1>8, <1>9, <1>10 DEF Linked, histVars

(* What the number of the first data datagram stands for: the distance     *)
(* R_Thread computes is within the window only when the message is.        *)
LEMMA FirstDatum ==
  ASSUME NumbersSuffice, TypeOK, NEW a \in Nat, NEW r \in Nat, NEW h \in Nat,
         Linked(a, r, h), 1 \in 1 .. Len(dataNet), dataNet[1].kind = "data",
         Dist(dataNet[1].seq, last_inorder) <= rcv_window
  PROVE  /\ dataNet[1].seq = Num(dataNet[1].body)
         /\ dataNet[1].body \in r .. r + rcv_window
         /\ dataNet[1].body <= accepted /\ dataNet[1].body <= h
         /\ Dist(dataNet[1].seq, last_inorder) = dataNet[1].body - r
<1>1. PICK b : b = dataNet[1].body
  OBVIOUS
<1>2. /\ dataNet[1].seq = Num(b) /\ b \in 1 .. accepted /\ b <= h
      /\ r < b + BUFF_SIZE
  BY <1>1 DEF Linked, DataPart, Recent
<1>3. /\ accepted \in Nat /\ rcv_window \in 0 .. BUFF_SIZE
      /\ a <= r /\ h <= a + BUFF_SIZE
  BY Numbers, Order
<1>4. last_inorder = Num(r)
  BY DEF Linked, ReceiverPart
<1>5. b \in Int /\ r \in Int /\ b - r <= BUFF_SIZE /\ r - b < BUFF_SIZE
  BY <1>2, <1>3, Sizes
<1>6. CASE b < r
  <2>1. r - b \in 1 .. MAX_SEQ_NUM
    BY <1>5, <1>6, Sizes
  <2>2. Dist(Num(b), Num(r)) = MAX_SEQ_NUM - (r - b)
    BY <1>5, <2>1, DistNum
  <2>3. MAX_SEQ_NUM - (r - b) > BUFF_SIZE
    BY <1>5, Sizes DEF NumbersSuffice
  <2> QED BY <1>2, <1>3, <1>4, <2>2, <2>3, Sizes
<1>7. CASE b >= r
  <2>1. b - r \in 0 .. MAX_SEQ_NUM - 1
    BY <1>5, <1>7, Sizes
  <2>2. Dist(Num(b), Num(r)) = b - r
    BY <1>5, <2>1, DistNum
  <2>3. b <= r + rcv_window
    BY <1>2, <1>3, <1>4, <1>5, <2>2
  <2> QED BY <1>1, <1>2, <1>3, <1>4, <1>5, <1>7, <2>2, <2>3
<1> QED BY <1>5, <1>6, <1>7

(* Storing message b changes no other message that may be stored.          *)
LEMMA StoreOne ==
  ASSUME TypeOK, NEW b \in Read + 1 .. Read + BUFF_SIZE,
         rcv_valid' = [rcv_valid EXCEPT ![Slot(b)] = 1],
         recv_buff' = [recv_buff EXCEPT ![Slot(b)] = b],
         NEW n \in Read + 1 .. Read + BUFF_SIZE
  PROVE  /\ rcv_valid'[Slot(n)] = 1 <=> Stored(n) \/ n = b
         /\ recv_buff'[Slot(n)] = IF n = b THEN b ELSE recv_buff[Slot(n)]
<1>1. n \in Int /\ b \in Int /\ Slot(n) \in Buf /\ Slot(b) \in Buf
  BY SlotFacts, Numbers
<1>2. CASE n = b
  BY <1>1, <1>2 DEF TypeOK
<1>3. CASE n # b
  <2>1. n - b < BUFF_SIZE /\ b - n < BUFF_SIZE
    BY Numbers, Sizes
  <2>2. Slot(n) # Slot(b)
    BY <1>1, <1>3, <2>1, SlotInjective
  <2> QED BY <1>1, <1>3, <2>2 DEF TypeOK, Stored
<1> QED BY <1>2, <1>3

(* A message ahead of the next one in order is stored in its own slot.     *)
LEMMA RecvAheadLink ==
  ASSUME NumbersSuffice, InOrderNetworks, TypeOK,
         NEW a \in Nat, NEW r \in Nat, NEW h \in Nat,
         Linked(a, r, h), RecvAhead
  PROVE  Linked(a, r, h)'
<1> DEFINE m == dataNet[1]
<1>1. /\ 1 \in 1 .. Len(dataNet) /\ dataNet' = RemoveAt(dataNet, 1)
      /\ m.kind = "data" /\ InWindow(m.seq) /\ m.seq # After(last_inorder, 1)
      /\ IF Storable(m.seq)
         THEN /\ rcv_valid' = [rcv_valid EXCEPT ![rcv_map[m.seq]] = 1]
              /\ recv_buff' = [recv_buff EXCEPT ![rcv_map[m.seq]] = m.body]
         ELSE UNCHANGED <<rcv_valid, recv_buff>>
      /\ prev_empty' = IF rcv_window # 0 THEN 0 ELSE prev_empty
      /\ Reply("ack", last_inorder, rcv_window)
      /\ UNCHANGED <<to_deliver, last_inorder, rcv_window, nospace, rcv_map,
                     sndVars, histVars>>
  BY OnlyFirst DEF RecvAhead
<1>2. /\ Read \in Nat /\ accepted \in Nat /\ rcv_window \in 0 .. BUFF_SIZE
      /\ a <= r /\ r <= accepted /\ r <= h /\ Read <= r
      /\ r + rcv_window <= Read + BUFF_SIZE
  BY Numbers, Order
<1>3. last_inorder = Num(r)
  BY DEF Linked, ReceiverPart
<1>4. PICK b : b = m.body
  OBVIOUS
<1>5. /\ m.seq = Num(b) /\ b \in r .. r + rcv_window
      /\ b <= accepted /\ b <= h
  BY <1>1, <1>4, FirstDatum DEF InWindow
<1>6. b # r + 1
  <2>1. After(last_inorder, 1) = Num(r + 1)
    BY <1>3, NumFacts
  <2> QED BY <1>1, <1>5, <2>1
<1>7. \E x \in AckMsg : x.seq = Num(r) /\ ackNet' = Enqueue(ackNet, <<x>>)
  BY <1>1, <1>3, ReplyIs
<1> HIDE DEF m
<1>8. CASE ~ Storable(m.seq)
  <2>1. /\ UNCHANGED <<sndVars, to_deliver, last_inorder, rcv_window, rcv_valid,
                       rcv_map, recv_buff, delivered, accepted>>
        /\ prev_empty' \in {0, prev_empty}
    BY <1>1, <1>8 DEF histVars
  <2> QED BY <1>1, <1>7, <2>1, Discarded
<1>9. CASE Storable(m.seq)
  <2>1. b \in r + 2 .. r + rcv_window /\ rcv_window # 0
    <3>1. b # r
      BY <1>3, <1>5, <1>9 DEF Storable
    <3> QED BY <1>2, <1>5, <1>6, <3>1
  <2>2. b \in Read + 1 .. Read + BUFF_SIZE
    BY <1>2, <2>1, Sizes
  <2>3. rcv_map[m.seq] = Slot(b)
    BY <1>5 DEF Linked, ReceiverPart
  <2>4. /\ rcv_valid' = [rcv_valid EXCEPT ![Slot(b)] = 1]
        /\ recv_buff' = [recv_buff EXCEPT ![Slot(b)] = b]
        /\ prev_empty' = 0 /\ Read' = Read /\ accepted' = accepted
        /\ UNCHANGED <<sndVars, to_deliver, last_inorder, rcv_window, rcv_map>>
    BY <1>1, <1>4, <1>9, <2>1, <2>3 DEF histVars, Read
  <2>5. ASSUME NEW n \in Read + 1 .. Read + BUFF_SIZE
        PROVE  /\ Stored(n)' <=> Stored(n) \/ n = b
               /\ recv_buff'[Slot(n)] = IF n = b THEN b ELSE recv_buff[Slot(n)]
    BY <2>2, <2>4, StoreOne DEF Stored, Slot
  <2>6. ReceiverPart(r, h)'
    <3>1. ASSUME NEW n \in Read + 1 .. r PROVE Stored(n)'
      <4>1. n \in Read + 1 .. Read + BUFF_SIZE /\ Stored(n)
        BY <1>2, Sizes DEF Linked, ReceiverPart
      <4> QED BY <2>5, <4>1
    <3>2. ASSUME NEW n \in Read + 1 .. Read + BUFF_SIZE, Stored(n)'
          PROVE  /\ recv_buff'[Slot(n)] = n
                 /\ n <= accepted /\ n <= h
                 /\ n <= r + rcv_window /\ n # r + 1
      <4>1. CASE n = b
        BY <1>2, <1>5, <1>6, <2>5, <4>1
      <4>2. CASE n # b
        <5>1. Stored(n) /\ recv_buff'[Slot(n)] = recv_buff[Slot(n)]
          BY <2>5, <3>2, <4>2
        <5> QED BY <5>1 DEF Linked, ReceiverPart
      <4> QED BY <4>1, <4>2
    <3>3. /\ Slot(to_deliver) = Slot(Read + 1)
          /\ \A n \in r .. r + rcv_window : rcv_map[Num(n)] = Slot(n)
      BY DEF Linked, ReceiverPart
    <3> QED BY <1>2, <1>3, <2>4, <3>1, <3>2, <3>3
            DEF ReceiverPart, Slot, Num, Stored
  <2>7. SenderPart(a, h)'
    BY <2>4, SenderKept DEF Linked
  <2>8. DataPart(r, h)'
    <3>1. ASSUME NEW n \in Nat, Recent(n, r), b < n + BUFF_SIZE
          PROVE  Recent(n, r)'
      <4>1. ASSUME NEW k \in Read + 1 .. Read + BUFF_SIZE, Stored(k)'
            PROVE  k < n + BUFF_SIZE
        <5>1. Stored(k) \/ k = b
          BY <2>5, <4>1
        <5> QED BY <3>1, <5>1 DEF Recent
      <4> QED BY <2>4, <3>1, <4>1 DEF Recent
    <3>2. DataPart(r, h) /\ dataNet[1].kind = "data" /\ b = dataNet[1].body
      BY <1>1, <1>4 DEF Linked, m
    <3> QED BY <1>1, <2>4, <3>1, <3>2, DataTaken
  <2>9. AckPart(a, r)'
    BY <1>2, <1>7, AckPut DEF Linked
  <2> QED BY <1>2, <2>4, <2>6, <2>7, <2>8, <2>9 DEF Linked
<1> QED BY <1>8, <1>9

(* An acknowledgement of message k overwrites the window and the map from  *)
(* k on, which is right because the map is right at k; it frees the slots  *)
(* up to k, those of the messages the receiver has, when k is in the       *)
(* window, and none otherwise.                                             *)
LEMMA RecvAckLink ==
  ASSUME NumbersSuffice, InOrderNetworks, TypeOK,
         NEW a \in Nat, NEW r \in Nat, NEW h \in Nat,
         Linked(a, r, h), RecvAck
  PROVE  Link'
<1> DEFINE m == ackNet[1]
           taken == Dist(m.seq, last_seq_ack) <= snd_window
<1>1. /\ 1 \in 1 .. Len(ackNet) /\ ackNet' = RemoveAt(ackNet, 1)
      /\ last_seq_ack' = IF taken THEN m.seq ELSE last_seq_ack
      /\ snd_valid' = [b \in Buf |-> IF taken /\ b \in Freed(m.seq) THEN 0
                                     ELSE snd_valid[b]]
      /\ snd_window' = m.wnd
      /\ snd_map' = Remap(snd_map, m.seq, m.wnd)
      /\ dataNet' \in {Enqueue(dataNet, <<Empty>>), dataNet}
      /\ UNCHANGED <<last_buf_index, send_buff, rcvVars, histVars>>
  BY OnlyFirst DEF RecvAck
<1>2. PICK w \in Window : w = m.wnd
  <2>1. 1 \in AckArrivals
    BY <1>1 DEF AckArrivals
  <2> QED BY <2>1, TakeAck DEF TypeOK
<1>3. PICK k \in a .. r : m.seq = Num(k) /\ AckPart(k, r)'
  BY <1>1, AckTaken DEF Linked
<1>4. /\ accepted \in Nat /\ a <= r /\ r <= accepted /\ r <= h
      /\ h <= a + BUFF_SIZE /\ accepted <= a + BUFF_SIZE
      /\ last_seq_ack = Num(a) /\ w \in 0 .. BUFF_SIZE
      /\ k \in Nat /\ a <= k /\ k <= r
  BY <1>3, Numbers, Order DEF Linked, SenderPart, Window
<1>5. Dist(m.seq, last_seq_ack) = k - a
  <2>1. k - a \in 0 .. MAX_SEQ_NUM - 1 /\ k \in Int /\ a \in Int
    BY <1>4, Sizes
  <2> QED BY <1>3, <1>4, <2>1, DistNum
<1> HIDE DEF m
<1>6. PICK a1 \in {a, k} :
        last_seq_ack' = Num(a1) /\ (taken => a1 = k) /\ (~ taken => a1 = a)
  BY <1>1, <1>3, <1>4
<1>7. PICK h1 \in {h, a1 + w} : h <= h1 /\ a1 + w <= h1
  <2>1. a1 \in Nat /\ w \in Nat
    BY <1>4, <1>6
  <2> QED BY <2>1
<1>8. /\ a1 \in Nat /\ a <= a1 /\ a1 <= k /\ h1 \in Nat
      /\ h1 <= a1 + BUFF_SIZE /\ a1 <= r /\ r <= h1 /\ accepted <= a1 + BUFF_SIZE
  BY <1>4, <1>6, <1>7, Sizes
<1>9. \A n \in a1 .. h1 : snd_map'[Num(n)] = Slot(n)
  <2>1. snd_map \in [Seqno -> Buf] /\ snd_map[Num(k)] = Slot(k)
    <3>1. k \in a .. h
      BY <1>4
    <3> QED BY <3>1 DEF Linked, SenderPart, TypeOK
  <2>2. ASSUME NEW n \in a1 .. h1 PROVE snd_map'[Num(n)] = Slot(n)
    <3>1. n \in Int /\ a <= n /\ n <= h1
      BY <1>8
    <3>2. n \in k - BUFF_SIZE .. k + BUFF_SIZE
      BY <1>4, <1>8, <3>1, Sizes
    <3>3. n \in k .. k + w \/ snd_map[Num(n)] = Slot(n)
      <4>1. CASE n <= h
        <5>1. n \in a .. h
          BY <3>1, <4>1
        <5> QED BY <5>1 DEF Linked, SenderPart
      <4>2. CASE n > h
        BY <1>4, <1>7, <1>8, <3>1, <4>2
      <4> QED BY <3>1, <4>1, <4>2
    <3>4. Remap(snd_map, Num(k), w)[Num(n)] = Slot(n)
      BY <1>4, <2>1, <3>2, <3>3, RemapRight
    <3> QED BY <1>1, <1>2, <1>3, <3>4
  <2> QED BY <2>2
<1>10. ASSUME NEW n \in a1 + 1 .. a1 + BUFF_SIZE
       PROVE  IF n <= accepted THEN snd_valid'[Slot(n)] # 0 /\ send_buff[Slot(n)] = n
                               ELSE snd_valid'[Slot(n)] = 0
  <2>1. n \in Int /\ Slot(n) \in Buf /\ n > a1 /\ n <= a1 + BUFF_SIZE
    BY <1>8, SlotFacts
  <2>2. ASSUME taken
        PROVE  Slot(n) \in Freed(m.seq) <=> n > a + BUFF_SIZE
    <3>1. Freed(m.seq) = {snd_map[After(last_seq_ack, j)] : j \in 1 .. k - a}
      BY <1>5 DEF Freed
    <3>2. ASSUME NEW j \in 1 .. k - a
          PROVE  snd_map[After(last_seq_ack, j)] = Slot(a + j)
      <4>1. After(last_seq_ack, j) = Num(a + j)
        BY <1>4, NumFacts
      <4>2. a + j \in a .. h
        BY <1>4
      <4> QED BY <4>1, <4>2 DEF Linked, SenderPart
    <3>3. Freed(m.seq) = {Slot(a + j) : j \in 1 .. k - a}
      BY <3>1, <3>2
    <3>4. a1 = k
      BY <1>6, <2>2
    <3>5. CASE n > a + BUFF_SIZE
      <4>1. PICK j \in 1 .. k - a : n = (a + j) + BUFF_SIZE
        <5>1. n - a - BUFF_SIZE \in 1 .. k - a
          BY <1>4, <2>1, <3>4, <3>5, Sizes
        <5>2. n = (a + (n - a - BUFF_SIZE)) + BUFF_SIZE
          BY <1>4, <2>1, Sizes
        <5> QED BY <5>1, <5>2
      <4>2. Slot(n) = Slot(a + j)
        BY <1>4, <4>1, SlotFacts
      <4> QED BY <3>3, <3>5, <4>2
    <3>6. CASE ~ (n > a + BUFF_SIZE)
      <4>1. ASSUME NEW j \in 1 .. k - a PROVE Slot(n) # Slot(a + j)
        <5>1. /\ n # a + j /\ a + j \in Int
              /\ n - (a + j) < BUFF_SIZE /\ (a + j) - n < BUFF_SIZE
          BY <1>4, <2>1, <3>4, <3>6, Sizes
        <5> QED BY <2>1, <5>1, SlotInjective
      <4> QED BY <3>3, <3>6, <4>1
    <3> QED BY <3>5, <3>6
  <2>3. CASE n > a + BUFF_SIZE
    <3>1. taken
      <4>1. a1 # a
        BY <2>1, <2>3, Sizes
      <4> QED BY <1>6, <4>1
    <3>2. snd_valid'[Slot(n)] = 0
      BY <1>1, <2>1, <2>2, <2>3, <3>1
    <3>3. ~ (n <= accepted)
      BY <1>4, <2>1, <2>3, Sizes
    <3> QED BY <3>2, <3>3
  <2>4. CASE ~ (n > a + BUFF_SIZE)
    <3>1. snd_valid'[Slot(n)] = snd_valid[Slot(n)]
      BY <1>1, <2>1, <2>2, <2>4
    <3>2. n \in a + 1 .. a + BUFF_SIZE
      BY <1>8, <2>1, <2>4, Sizes
    <3> QED BY <3>1, <3>2 DEF Linked, SenderPart
  <2> QED BY <2>3, <2>4
<1>11. SenderPart(a1, h1)'
  <2>1. a1 <= accepted /\ a1 + w <= h1 /\ snd_window' = w
    BY <1>1, <1>2, <1>4, <1>7, <1>8
  <2>2. /\ last_buf_index' = last_buf_index /\ send_buff' = send_buff
        /\ accepted' = accepted /\ last_buf_index = Slot(accepted)
    BY <1>1 DEF histVars, Linked, SenderPart
  <2> QED BY <1>6, <1>8, <1>9, <1>10, <2>1, <2>2 DEF SenderPart, Slot, Num
<1>12. ReceiverPart(r, h1)'
  BY <1>1, <1>4, <1>7, <1>8, ReceiverKept DEF Linked, rcvVars, histVars
<1>13. DataPart(r, h1)'
  <2>1. CASE dataNet' = dataNet
    BY <1>1, <1>4, <1>7, <1>8, <2>1, DataKept DEF Linked, rcvVars, histVars
  <2>2. CASE dataNet' = Enqueue(dataNet, <<Empty>>)
    BY <1>1, <1>4, <1>7, <1>8, <2>2, DataPutEmpty DEF Linked, rcvVars, histVars
  <2> QED BY <1>1, <2>1, <2>2
<1>14. AckPart(a1, r)'
  <2>1. k .. r \subseteq a1 .. r
    BY <1>4, <1>8
  <2> QED BY <1>3, <2>1 DEF AckPart
<1>15. Linked(a1, r, h1)'
  BY <1>1, <1>4, <1>8, <1>11, <1>12, <1>13, <1>14 DEF Linked, histVars
<1> QED BY <1>8, <1>15 DEF Link

(* The next message in order.  With W the window before, r1 the last       *)
(* message in order now and f the free slots found behind the old end of   *)
(* the window, the new window is r + W + f - r1: less than a buffer, since *)
(* the slot of message r is not counted, and within the buffer the user    *)
(* has not read, since the slot of the next message to be read is taken.   *)
LEMMA RecvExpectedLink ==
  ASSUME NumbersSuffice, InOrderNetworks, TypeOK,
         NEW a \in Nat, NEW r \in Nat, NEW h \in Nat,
         Linked(a, r, h), RecvExpected
  PROVE  /\ Link'
         /\ \E n \in Nat : /\ n <= accepted /\ rcv_map[Num(n)] = Slot(n)
                          /\ rcv_map' = Remap(rcv_map, Num(n), BUFF_SIZE)
<1> DEFINE m       == dataNet[1]
           next    == After(last_inorder, 1)
           slot    == rcv_map[next]
           valid   == [rcv_valid EXCEPT ![slot] = 1]
           map     == Remap(rcv_map, next, BUFF_SIZE)
           outside == map[After(last_inorder, rcv_window + 1)]
           free    == FreeBehind(outside, map, valid)
           ahead   == {j \in 0 .. rcv_window - 2 :
                         valid[map[After(next, j + 1)]] = 1}
           W       == rcv_window
<1>0. PICK i \in DataArrivals :
      /\ dataNet' = RemoveAt(dataNet, i)
      /\ dataNet[i].kind = "data" /\ dataNet[i].seq = next /\ InWindow(next)
      /\ recv_buff' = [recv_buff EXCEPT ![slot] = dataNet[i].body]
      /\ rcv_valid' = valid
      /\ rcv_map' = map
      /\ \E f, n \in Window :
           /\ StopsAt(free, f)
           /\ StopsAt(ahead, n)
           /\ last_inorder' = After(next, n)
           /\ rcv_window' = (outside - (map[last_inorder'] + 1) + BUFF_SIZE + f)
                              % BUFF_SIZE
      /\ Reply("ack", last_inorder', rcv_window')
      /\ UNCHANGED <<to_deliver, sndVars, histVars>>
      /\ IF rcv_window' = 0 THEN nospace' = 1 /\ prev_empty' = 1
                            ELSE prev_empty' = 0 /\ UNCHANGED nospace
  BY DEF RecvExpected
<1> HIDE DEF free, ahead, outside, valid, map, slot, next, W
<1>1. /\ 1 \in 1 .. Len(dataNet) /\ dataNet' = RemoveAt(dataNet, 1)
      /\ m.kind = "data" /\ m.seq = next /\ InWindow(next)
      /\ recv_buff' = [recv_buff EXCEPT ![slot] = m.body]
      /\ rcv_valid' = valid
      /\ rcv_map' = map
      /\ \E f, n \in Window :
           /\ StopsAt(free, f)
           /\ StopsAt(ahead, n)
           /\ last_inorder' = After(next, n)
           /\ rcv_window' = (outside - (map[last_inorder'] + 1) + BUFF_SIZE + f)
                              % BUFF_SIZE
      /\ prev_empty' = 1 => rcv_window' = 0
      /\ Reply("ack", last_inorder', rcv_window')
      /\ UNCHANGED <<to_deliver, sndVars, histVars>>
  <2>1. i = 1 /\ 1 \in 1 .. Len(dataNet)
    BY OnlyFirst
  <2>2. prev_empty' = 1 => rcv_window' = 0
    BY <1>0
  <2> QED BY <1>0, <2>1, <2>2
<1> USE DEF W
<1>2. /\ Read \in Nat /\ accepted \in Nat /\ W \in 0 .. BUFF_SIZE
      /\ a <= r /\ r <= accepted /\ r <= h /\ Read <= r
      /\ r + W <= Read + BUFF_SIZE /\ BUFF_SIZE \in Nat /\ BUFF_SIZE >= 1
  BY Numbers, Order, Sizes
<1> USE DEF next
<1>3. last_inorder = Num(r) /\ next = Num(r + 1)
  <2>1. last_inorder = Num(r)
    BY DEF Linked, ReceiverPart
  <2> QED BY <2>1, NumFacts
<1>4. /\ W >= 1 /\ m.body = r + 1 /\ r + 1 <= accepted /\ r + 1 <= h
  <2>1. Dist(m.seq, last_inorder) <= rcv_window
    BY <1>1 DEF InWindow
  <2> HIDE DEF next, m
  <2>2. Dist(Num(r + 1), Num(r)) = 1
    <3>1. (r + 1) - r \in 0 .. MAX_SEQ_NUM - 1 /\ (r + 1) - r = 1
      BY Sizes
    <3> QED BY <3>1, DistNum
  <2>3. Dist(m.seq, last_inorder) = 1
    BY <1>1, <1>3, <2>2
  <2>4. /\ Dist(m.seq, last_inorder) = m.body - r /\ m.body \in r .. r + rcv_window
        /\ m.body <= accepted /\ m.body <= h
    BY <1>1, <2>1, FirstDatum DEF m
  <2>5. m.body = r + 1
    BY <2>3, <2>4
  <2> QED BY <1>2, <2>1, <2>3, <2>4, <2>5
<1>5. slot = Slot(r + 1)
  <2>1. r + 1 \in r .. r + rcv_window
    BY <1>2, <1>4
  <2> QED BY <1>3, <2>1 DEF slot, Linked, ReceiverPart
<1> HIDE DEF next
<1>6. map \in [Seqno -> Buf] /\ \A n \in r .. r + 1 + BUFF_SIZE : map[Num(n)] = Slot(n)
  <2>1. rcv_map \in [Seqno -> Buf] /\ BUFF_SIZE \in Window /\ r + 1 \in Int
        /\ Num(r + 1) \in Seqno
    <3>1. r + 1 \in Int
      OBVIOUS
    <3>2. Num(r + 1) \in Seqno
      BY <3>1, NumFacts
    <3> QED BY <3>1, <3>2, Sizes DEF TypeOK, Window
  <2>2. rcv_map[Num(r)] = Slot(r) /\ rcv_map[Num(r + 1)] = Slot(r + 1)
    <3>1. r \in r .. r + rcv_window
      BY <1>2
    <3> QED BY <1>3, <1>5, <3>1 DEF slot, Linked, ReceiverPart
  <2>3. ASSUME NEW n \in r .. r + 1 + BUFF_SIZE
        PROVE  Remap(rcv_map, Num(r + 1), BUFF_SIZE)[Num(n)] = Slot(n)
    <3>1. n \in (r + 1) - BUFF_SIZE .. (r + 1) + BUFF_SIZE
      BY <1>2
    <3>2. n \in r + 1 .. r + 1 + BUFF_SIZE \/ rcv_map[Num(n)] = Slot(n)
      BY <1>2, <2>2
    <3> QED BY <2>1, <2>2, <3>1, <3>2, RemapRight
  <2>4. map \in [Seqno -> Buf]
    BY <1>3, <2>1, RemapType DEF map
  <2> QED BY <1>3, <2>3, <2>4 DEF map
<1> HIDE DEF m
<1>7. outside = Slot(r + W + 1)
  <2>1. After(last_inorder, W + 1) = Num(r + W + 1)
    <3>1. W + 1 \in Int /\ r \in Int /\ r + (W + 1) = r + W + 1
      BY <1>2
    <3> QED BY <1>3, <3>1, NumFacts
  <2>2. r + W + 1 \in r .. r + 1 + BUFF_SIZE
    BY <1>2
  <2> QED BY <1>6, <2>1, <2>2 DEF outside
<1>8. PICK f \in Window, n \in Window :
        /\ StopsAt(free, f)
        /\ StopsAt(ahead, n)
        /\ last_inorder' = After(next, n)
        /\ rcv_window' = (outside - (map[last_inorder'] + 1) + BUFF_SIZE + f)
                           % BUFF_SIZE
  BY <1>1
<1> DEFINE r1 == r + 1 + n
           V  == r + W + f - r1
<1>9. n < W /\ r1 \in r + 1 .. r + W
  <2>1. n \in Int /\ n >= 0
    BY Sizes DEF Window
  <2>2. n < W
    <3>1. SUFFICES ASSUME n >= W PROVE FALSE
      BY <1>2, <2>1
    <3>2. n - 1 \in 0 .. n - 1 /\ n - 1 \notin 0 .. rcv_window - 2
      BY <1>2, <1>4, <2>1, <3>1
    <3> QED BY <1>8, <3>2 DEF StopsAt, ahead
  <2> QED BY <1>2, <2>1, <2>2
<1>10. last_inorder' = Num(r1) /\ map[last_inorder'] = Slot(r1)
  <2>1. last_inorder' = Num(r1)
    <3>1. n \in Int /\ r + 1 \in Int
      BY Sizes DEF Window
    <3> QED BY <1>3, <1>8, <3>1, NumFacts
  <2>2. r1 \in r .. r + 1 + BUFF_SIZE
    BY <1>2, <1>9
  <2> HIDE DEF r1
  <2> QED BY <1>6, <2>1, <2>2
<1>11. /\ f \in Nat /\ n \in Nat /\ r1 \in Nat /\ V \in Int /\ W \in Nat
       /\ r + 1 <= r1 /\ r1 <= r + W /\ r1 <= Read + BUFF_SIZE
       /\ r1 = r + 1 + n /\ r1 + V = r + W + f
  BY <1>2, <1>9, Sizes DEF Window
<1>12. r + 1 \in Read + 1 .. Read + BUFF_SIZE
  BY <1>2, <1>4
<1> HIDE DEF r1, V, W
<1>13. /\ rcv_valid' = [rcv_valid EXCEPT ![Slot(r + 1)] = 1]
       /\ recv_buff' = [recv_buff EXCEPT ![Slot(r + 1)] = r + 1]
       /\ Read' = Read /\ accepted' = accepted
  BY <1>1, <1>4, <1>5 DEF valid, histVars, Read
<1>14. ASSUME NEW x \in Read + 1 .. Read + BUFF_SIZE
       PROVE  /\ Stored(x)' <=> Stored(x) \/ x = r + 1
              /\ recv_buff'[Slot(x)] = IF x = r + 1 THEN r + 1 ELSE recv_buff[Slot(x)]
  <2>1. PICK y \in Read + 1 .. Read + BUFF_SIZE : y = r + 1
    BY <1>12
  <2>2. /\ rcv_valid' = [rcv_valid EXCEPT ![Slot(y)] = 1]
        /\ recv_buff' = [recv_buff EXCEPT ![Slot(y)] = y]
    BY <1>13, <2>1
  <2>3. /\ rcv_valid'[Slot(x)] = 1 <=> Stored(x) \/ x = y
        /\ recv_buff'[Slot(x)] = IF x = y THEN y ELSE recv_buff[Slot(x)]
    BY <2>2, StoreOne
  <2> QED BY <2>1, <2>3 DEF Stored, Slot
<1>15. \A j \in Nat : j <= W /\ j < BUFF_SIZE =>
         map[After(next, j + 1)] = Slot(r + 2 + j)
  <2>1. ASSUME NEW j \in Nat, j <= W, j < BUFF_SIZE
        PROVE  map[After(next, j + 1)] = Slot(r + 2 + j)
    <3>1. r + 1 \in Int /\ j + 1 \in Int /\ (r + 1) + (j + 1) = r + 2 + j
      OBVIOUS
    <3>2. After(next, j + 1) = Num(r + 2 + j)
      BY <1>3, <3>1, NumFacts
    <3>3. r + 2 + j \in r .. r + 1 + BUFF_SIZE
      BY <1>2, <2>1
    <3> QED BY <1>6, <3>2, <3>3
  <2> QED BY <2>1
<1>16. ASSUME NEW x \in r + 2 .. r1 PROVE Stored(x)'
  <2>1. PICK j \in Nat : x = r + 2 + j /\ j <= n - 1
    <3>1. x - r - 2 \in Nat /\ x = r + 2 + (x - r - 2) /\ x - r - 2 <= n - 1
      BY <1>11
    <3> QED BY <3>1
  <2>2. j \in 0 .. n - 1 /\ j <= W /\ j < BUFF_SIZE
    BY <1>2, <1>9, <1>11, <2>1 DEF W
  <2>3. j \in ahead
    BY <1>8, <2>2 DEF StopsAt
  <2>4. valid[Slot(x)] = 1
    BY <1>15, <2>1, <2>2, <2>3 DEF ahead
  <2> QED BY <1>1, <2>4 DEF Stored, Slot
<1>17. ~ (r1 + 1 \in Read + 1 .. Read + BUFF_SIZE /\ Stored(r1 + 1)')
  <2>1. SUFFICES ASSUME r1 + 1 \in Read + 1 .. Read + BUFF_SIZE, Stored(r1 + 1)'
                 PROVE  FALSE
    OBVIOUS
  <2>2. CASE n = W - 1
    <3>1. r1 + 1 = r + W + 1 /\ r1 + 1 # r + 1
      BY <1>11, <2>2
    <3>2. Stored(r1 + 1)
      BY <1>14, <2>1, <3>1
    <3>3. r1 + 1 <= r + W
      BY <2>1, <3>2 DEF Linked, ReceiverPart, W
    <3> QED BY <1>11, <3>1, <3>3
  <2>3. CASE n # W - 1
    <3>1. n \in 0 .. W - 2 /\ n <= W /\ n < BUFF_SIZE /\ r + 2 + n = r1 + 1
      BY <1>2, <1>9, <1>11, <2>3 DEF W
    <3>2. valid[map[After(next, n + 1)]] # 1
      BY <1>8, <3>1 DEF StopsAt, ahead, W
    <3>3. valid[Slot(r1 + 1)] # 1
      BY <1>11, <1>15, <3>1, <3>2
    <3> QED BY <1>1, <2>1, <3>3 DEF Stored, Slot
  <2> QED BY <2>2, <2>3
<1>18. ASSUME NEW j \in Buf
       PROVE  j \in free <=> /\ Slot(r + W + 1 + j) # Slot(r)
                             /\ rcv_valid'[Slot(r + W + 1 + j)] = 0
  <2>1. (outside + j) % BUFF_SIZE = Slot(r + W + 1 + j)
    <3>1. r + W + 1 \in Int /\ j \in Int
      BY <1>11 DEF Buf
    <3> QED BY <1>7, <3>1, SlotFacts DEF W
  <2>2. map[last_inorder] = Slot(r)
    <3>1. r \in r .. r + 1 + BUFF_SIZE
      BY <1>2
    <3> QED BY <1>3, <1>6, <3>1
  <2> QED BY <1>1, <2>1, <2>2 DEF free, FreeBehind
<1>19. \A j \in 0 .. f - 1 : j \in free
  BY <1>8 DEF StopsAt
<1>20. Stored(r + 1)'
  BY <1>12, <1>14
<1>21. V \in 0 .. BUFF_SIZE - 1 /\ W + f <= BUFF_SIZE
  <2>1. CASE W = BUFF_SIZE
    <3>1. 0 \notin free
      <4>1. Slot(r + W + 1 + 0) = Slot(r + 1)
        <5>1. r + W + 1 + 0 = (r + 1) + BUFF_SIZE /\ r + 1 \in Int
          BY <1>2, <2>1
        <5> QED BY <5>1, SlotFacts
      <4>2. rcv_valid'[Slot(r + 1)] # 0
        BY <1>20 DEF Stored, Slot
      <4>3. 0 \in Buf
        BY SeqnoClosed
      <4> QED BY <1>18, <4>1, <4>2, <4>3
    <3>2. f = 0
      <4>1. SUFFICES ASSUME f # 0 PROVE FALSE
        OBVIOUS
      <4>2. 0 \in 0 .. f - 1
        BY <1>11, <4>1
      <4> QED BY <1>19, <3>1, <4>2
    <3> QED BY <1>2, <1>11, <2>1, <3>2
  <2>2. CASE W # BUFF_SIZE
    <3> DEFINE j == BUFF_SIZE - W - 1
    <3>1. j \in Buf /\ j \in Nat /\ r + W + 1 + j = r + BUFF_SIZE
      BY <1>2, <1>11, <2>2 DEF Buf, W
    <3> HIDE DEF j
    <3>2. Slot(r + W + 1 + j) = Slot(r)
      BY <3>1, SlotFacts
    <3>3. j \notin free
      BY <1>18, <3>1, <3>2
    <3>4. f <= j
      <4>1. SUFFICES ASSUME f > j PROVE FALSE
        BY <1>11, <3>1
      <4>2. j \in 0 .. f - 1
        BY <1>11, <3>1, <4>1
      <4> QED BY <1>19, <3>3, <4>2
    <3> QED BY <1>2, <1>11, <2>2, <3>1, <3>4 DEF j
  <2> QED BY <2>1, <2>2
<1>22. r + W + f <= Read + BUFF_SIZE
  <2>1. SUFFICES ASSUME r + W + f > Read + BUFF_SIZE PROVE FALSE
    BY <1>2, <1>11
  <2> DEFINE j == Read + BUFF_SIZE - r - W
  <2>1a. j = (Read + BUFF_SIZE) - (r + W)
    BY <1>2, <1>11
  <2>2. j \in 0 .. f - 1 /\ j \in Buf /\ r + W + 1 + j = (Read + 1) + BUFF_SIZE
    <3>1. (Read + BUFF_SIZE) - (r + W) >= 0 /\ (Read + BUFF_SIZE) - (r + W) < f
      BY <1>2, <1>11, <2>1 DEF W
    <3>2. f <= BUFF_SIZE
      BY <1>2, <1>11, <1>21
    <3> HIDE DEF j
    <3> QED BY <1>2, <1>11, <2>1a, <3>1, <3>2 DEF Buf
  <2> HIDE DEF j
  <2>3. Slot(r + W + 1 + j) = Slot(Read + 1)
    <3>1. Read + 1 \in Int
      BY <1>2
    <3> QED BY <2>2, <3>1, SlotFacts
  <2>4. rcv_valid'[Slot(Read + 1)] = 0
    BY <1>18, <1>19, <2>2, <2>3
  <2>5. PICK x \in Int : x = Read + 1
    BY <1>2
  <2>6. Stored(x)'
    <3>1. x \in Read + 1 .. Read + BUFF_SIZE
      BY <1>2, <2>5
    <3>2. CASE Read = r
      BY <1>20, <2>5, <3>2
    <3>3. CASE Read # r
      <4>1. x \in Read + 1 .. r
        BY <1>2, <2>5, <3>3
      <4>2. Stored(x)
        BY <4>1 DEF Linked, ReceiverPart
      <4> QED BY <1>14, <3>1, <4>2
    <3> QED BY <3>2, <3>3
  <2> QED BY <2>4, <2>5, <2>6 DEF Stored, Slot
<1>23. rcv_window' = V
  <2> DEFINE X == r + W + f
             t == Slot(r1)
  <2>1. X \in Int /\ t \in Int /\ t \in Buf /\ X - r1 = V /\ r + W + 1 \in Int
    BY <1>11, SlotFacts
  <2>2. rcv_window' = (Slot(r + W + 1) + (f - 1 + BUFF_SIZE - t)) % BUFF_SIZE
    <3>1. Slot(r + W + 1) \in Int
      BY <2>1, SlotFacts
    <3>2. Slot(r + W + 1) - (t + 1) + BUFF_SIZE + f
            = Slot(r + W + 1) + (f - 1 + BUFF_SIZE - t)
      BY <1>2, <1>11, <2>1, <3>1
    <3> QED BY <1>7, <1>8, <1>10, <3>2 DEF W
  <2> HIDE DEF t, X
  <2>3. (Slot(r + W + 1) + (f - 1 + BUFF_SIZE - t)) % BUFF_SIZE = Slot(X + (BUFF_SIZE - t))
    <3>1. f - 1 + BUFF_SIZE - t \in Int
          /\ (r + W + 1) + (f - 1 + BUFF_SIZE - t) = X + (BUFF_SIZE - t)
      BY <1>2, <1>11, <2>1 DEF X
    <3> QED BY <2>1, <3>1, SlotFacts
  <2>4. Slot(X + (BUFF_SIZE - t)) = (Slot(X) + (BUFF_SIZE - t)) % BUFF_SIZE
    <3>1. BUFF_SIZE - t \in Int
      BY <1>2, <2>1
    <3> QED BY <2>1, <3>1, SlotFacts
  <2>5. (Slot(X) - t + BUFF_SIZE) % BUFF_SIZE = V
    <3>1. X - r1 \in 0 .. BUFF_SIZE - 1 /\ r1 \in Int
      BY <1>11, <1>21, <2>1
    <3>2. ((X % BUFF_SIZE) - (r1 % BUFF_SIZE) + BUFF_SIZE) % BUFF_SIZE = X - r1
      BY <2>1, <3>1, Sizes, ModMinus
    <3> QED BY <2>1, <3>2 DEF Slot, t
  <2>6. Slot(X) + (BUFF_SIZE - t) = Slot(X) - t + BUFF_SIZE
    <3>1. Slot(X) \in Int
      BY <2>1, SlotFacts
    <3> QED BY <1>2, <2>1, <3>1
  <2> QED BY <2>2, <2>3, <2>4, <2>5, <2>6
<1> HIDE DEF free, ahead, outside, valid, map
<1>24. ReceiverPart(r1, h)'
  <2>1. r1 + V <= Read + BUFF_SIZE /\ Read <= r1 /\ r1 + V <= r + BUFF_SIZE
    BY <1>2, <1>11, <1>21, <1>22
  <2>2. \A x \in r1 .. r1 + V : rcv_map'[Num(x)] = Slot(x)
    <3>1. \A x \in r1 .. r1 + V : x \in r .. r + 1 + BUFF_SIZE
      BY <1>2, <1>11, <1>21, <2>1
    <3> QED BY <1>1, <1>6, <3>1
  <2>3. ASSUME NEW x \in Read + 1 .. r1 PROVE Stored(x)'
    <3>1. x \in Read + 1 .. Read + BUFF_SIZE /\ x \in Int
      BY <1>2, <1>11
    <3>2. CASE x <= r
      <4>1. x \in Read + 1 .. r
        BY <3>1, <3>2
      <4>2. Stored(x)
        BY <4>1 DEF Linked, ReceiverPart
      <4> QED BY <1>14, <3>1, <4>2
    <3>3. CASE x = r + 1
      BY <1>20, <3>3
    <3>4. CASE x > r + 1
      <4>1. x \in r + 2 .. r1
        BY <3>1, <3>4
      <4> QED BY <1>16, <4>1
    <3> QED BY <3>1, <3>2, <3>3, <3>4
  <2>4. ASSUME NEW x \in Read + 1 .. Read + BUFF_SIZE, Stored(x)'
        PROVE  /\ recv_buff'[Slot(x)] = x
               /\ x <= accepted /\ x <= h
               /\ x <= r1 + V /\ x # r1 + 1
               /\ prev_empty' = 1 => x <= r1
    <3>1. x \in Int
      BY <1>2
    <3>2. /\ recv_buff'[Slot(x)] = x
          /\ x <= accepted /\ x <= h /\ x <= r + W
      <4>1. CASE x = r + 1
        BY <1>2, <1>4, <1>11, <1>14, <4>1 DEF W
      <4>2. CASE x # r + 1
        <5>1. Stored(x) /\ recv_buff'[Slot(x)] = recv_buff[Slot(x)]
          BY <1>14, <2>4, <4>2
        <5> QED BY <5>1 DEF Linked, ReceiverPart, W
      <4> QED BY <4>1, <4>2
    <3>3. x <= r1 + V
      BY <1>2, <1>11, <3>1, <3>2
    <3>4. x # r1 + 1
      BY <1>17, <2>4
    <3>5. prev_empty' = 1 => x <= r1
      <4>1. prev_empty' = 1 => V = 0
        BY <1>1, <1>23
      <4> QED BY <1>11, <3>1, <3>3, <4>1
    <3> QED BY <3>2, <3>3, <3>4, <3>5
  <2>5. last_inorder' = Num(r1) /\ Slot(to_deliver') = Slot(Read + 1)
    BY <1>1, <1>10 DEF Linked, ReceiverPart
  <2> QED BY <1>13, <1>23, <2>1, <2>2, <2>3, <2>4, <2>5
          DEF ReceiverPart, Slot, Num, Stored
<1>25. r1 <= accepted /\ r1 <= h /\ a <= r1
  <2>1. CASE r1 = r + 1
    BY <1>2, <1>4, <2>1
  <2>2. CASE r1 # r + 1
    <3>1. r1 \in r + 2 .. r1 /\ r1 \in Read + 1 .. Read + BUFF_SIZE
      BY <1>2, <1>11, <2>2
    <3>2. Stored(r1)
      BY <1>14, <1>16, <2>2, <3>1
    <3> QED BY <1>2, <1>11, <3>1, <3>2 DEF Linked, ReceiverPart
  <2> QED BY <2>1, <2>2
<1>26. DataPart(r1, h)'
  <2>1. ASSUME NEW x \in Nat, Recent(x, r), r + 1 < x + BUFF_SIZE
        PROVE  Recent(x, r1)'
    <3>1. ASSUME NEW k \in Read + 1 .. Read + BUFF_SIZE, Stored(k)'
          PROVE  k < x + BUFF_SIZE
      <4>1. Stored(k) \/ k = r + 1
        BY <1>14, <3>1
      <4> QED BY <2>1, <4>1 DEF Recent
    <3>2. r1 < x + BUFF_SIZE
      <4>1. CASE r1 = r + 1
        BY <2>1, <4>1
      <4>2. CASE r1 # r + 1
        <5>1. r1 \in r + 2 .. r1 /\ r1 \in Read + 1 .. Read + BUFF_SIZE
          BY <1>2, <1>11, <4>2
        <5> QED BY <1>16, <3>1, <5>1
      <4> QED BY <4>1, <4>2
    <3> QED BY <1>13, <3>1, <3>2 DEF Recent
  <2>2. DataPart(r, h) /\ dataNet[1].kind = "data" /\ dataNet[1].body = r + 1
    BY <1>1, <1>4 DEF Linked, m
  <2>3. PICK R \in Nat : R = r1
    BY <1>11
  <2>4. ASSUME NEW x \in Nat, Recent(x, r),
               dataNet[1].kind = "data" => dataNet[1].body < x + BUFF_SIZE
        PROVE  Recent(x, R)'
    <3>1. r + 1 < x + BUFF_SIZE
      BY <2>2, <2>4
    <3>2. Recent(x, r1)'
      BY <2>1, <2>4, <3>1
    <3> QED BY <2>3, <3>2 DEF Recent
  <2>5. h <= h /\ 1 \in 1 .. Len(dataNet) /\ dataNet' = RemoveAt(dataNet, 1)
        /\ accepted' = accepted
    BY <1>1, <1>13
  <2>6. \A x \in Nat :
          /\ Recent(x, r)
          /\ dataNet[1].kind = "data" => dataNet[1].body < x + BUFF_SIZE
          => Recent(x, R)'
    BY <2>4
  <2>7. DataPart(r, h)
    BY <2>2
  <2>8. DataPart(R, h)'
    BY <2>5, <2>6, <2>7, DataTaken
  <2> QED BY <2>3, <2>8 DEF DataPart, Recent
<1>27. AckPart(a, r1)'
  <2>1. \E x \in AckMsg : x.seq = Num(r1) /\ ackNet' = Enqueue(ackNet, <<x>>)
    <3>1. ackNet' = Enqueue(ackNet, <<Ack("ack", Num(r1), V)>>)
      BY <1>1, <1>10, <1>23 DEF Reply
    <3>2. Num(r1) \in Seqno /\ V \in Window
      BY <1>11, <1>21, NumFacts, Sizes DEF Window
    <3>3. Ack("ack", Num(r1), V) \in AckMsg /\ Ack("ack", Num(r1), V).seq = Num(r1)
      BY <3>2 DEF Ack, AckMsg
    <3> QED BY <3>1, <3>3
  <2> QED BY <1>2, <1>11, <1>25, <2>1, AckPut DEF Linked
<1>28. SenderPart(a, h)'
  BY <1>1, <1>13, SenderKept DEF Linked
<1>29. Linked(a, r1, h)'
  BY <1>13, <1>24, <1>25, <1>26, <1>27, <1>28 DEF Linked
<1>30. \E x \in Nat : /\ x <= accepted /\ rcv_map[Num(x)] = Slot(x)
                     /\ rcv_map' = Remap(rcv_map, Num(x), BUFF_SIZE)
  <2>1. r + 1 \in Nat /\ rcv_map[Num(r + 1)] = Slot(r + 1)
    BY <1>3, <1>5 DEF slot
  <2>2. rcv_map' = Remap(rcv_map, Num(r + 1), BUFF_SIZE)
    BY <1>1, <1>3 DEF map
  <2> QED BY <1>4, <2>1, <2>2
<1>31. Link'
  BY <1>11, <1>29 DEF Link
<1> QED BY <1>30, <1>31

(* The steps that renumber the receive map, in sessions that do not use a  *)
(* number twice.                                                           *)
LEMMA MapKept ==
  ASSUME NumbersSuffice, InOrderNetworks, TypeOK, ShortSessions,
         NEW a \in Nat, NEW r \in Nat, NEW h \in Nat, Linked(a, r, h),
         rcv_map[BUFF_SIZE] = 0, KRecvfrom \/ RTimeout \/ RecvExpected
  PROVE  rcv_map'[BUFF_SIZE] = 0
<1>1. accepted <= MaxMsgs /\ accepted \in Nat /\ MaxMsgs \in Nat
  BY Sizes DEF TypeOK
<1>2. CASE KRecvfrom \/ RTimeout
  <2>1. rcv_map' = Remap(rcv_map, last_inorder, BUFF_SIZE)
    BY <1>2 DEF KRecvfrom, RTimeout
  <2>2. r \in r .. r + rcv_window /\ r <= accepted
    BY Numbers, Order
  <2>3. last_inorder = Num(r) /\ rcv_map[Num(r)] = Slot(r)
    BY <2>2 DEF Linked, ReceiverPart
  <2>4. r <= MaxMsgs
    BY <1>1, <2>2
  <2> QED BY <2>1, <2>3, <2>4, RemapShortSession
<1>3. CASE RecvExpected
  <2>1. PICK n \in Nat : /\ n <= accepted /\ rcv_map[Num(n)] = Slot(n)
                         /\ rcv_map' = Remap(rcv_map, Num(n), BUFF_SIZE)
    BY <1>3, RecvExpectedLink
  <2>2. n <= MaxMsgs
    BY <1>1, <2>1
  <2> QED BY <2>1, <2>2, RemapShortSession
<1> QED BY <1>2, <1>3

(* Every other step of a session keeps the rows linked.                    *)
LEMMA StepLink ==
  ASSUME NumbersSuffice, InOrderNetworks, TypeOK, Link,
         KSendto \/ KRecvfrom \/ SThread \/ RThread \/ UNCHANGED vars
  PROVE  Link'
<1>1. PICK a \in Nat, r \in Nat, h \in Nat : Linked(a, r, h)
  BY DEF Link
<1>2. CASE \/ KSendto \/ KRecvfrom \/ SThread \/ RecvEmpty \/ RecvDuplicate
           \/ RecvOutside \/ RecvAhead \/ DropData \/ DropAck \/ RTimeout
  <2>1. Linked(a, r, h)'
    BY <1>1, <1>2, KSendtoLink, KRecvfromLink, SPassLink, DropLink,
       RecvDiscardLink, RecvAheadLink, RTimeoutLink
  <2> QED BY <2>1 DEF Link
<1>3. CASE RecvAck
  BY <1>1, <1>3, RecvAckLink
<1>4. CASE RecvExpected
  BY <1>1, <1>4, RecvExpectedLink
<1>5. CASE UNCHANGED vars
  <2>1. SenderPart(a, h)' /\ accepted' = accepted
    BY <1>1, <1>5, SenderKept DEF Linked, vars, histVars
  <2>2. ReceiverPart(r, h)'
    BY <1>1, <1>5, ReceiverKept, Numbers DEF Linked, vars, rcvVars, histVars
  <2>3. DataPart(r, h)'
    BY <1>1, <1>5, DataKept, Numbers DEF Linked, vars, rcvVars, histVars
  <2>4. AckPart(a, r)'
    BY <1>1, <1>5 DEF Linked, AckPart, vars
  <2>5. Linked(a, r, h)'
    BY <1>1, <2>1, <2>2, <2>3, <2>4 DEF Linked
  <2> QED BY <2>5 DEF Link
<1> QED BY <1>2, <1>3, <1>4, <1>5 DEF RThread, RecvData

-----------------------------------------------------------------------------
(* The theorems.                                                           *)

(* The inductive invariant: the rows are linked while the receive map can  *)
(* be trusted, and it can in every session when no session wraps.          *)
Inv ==
  /\ TypeOK
  /\ MapTrusted => Link
  /\ ShortSessions => rcv_map[BUFF_SIZE] = 0

LEMMA InitInv ==
  ASSUME NumbersSuffice, Init
  PROVE  Inv
<1>1. TypeOK /\ Opened
  BY InitType, InitOpened
<1>2. Link /\ rcv_map[BUFF_SIZE] = 0
  BY <1>1, OpenedLink DEF Opened
<1> QED BY <1>1, <1>2 DEF Inv

LEMMA StepInv ==
  ASSUME NumbersSuffice, InOrderNetworks, Inv, [Next]_vars
  PROVE  Inv'
<1>1. TypeOK /\ TypeOK'
  BY StepType DEF Inv
<1>2. CASE Reopen
  <2>1. MapTrusted' => ShortSessions
    <3>1. session \in Nat \ {0} /\ session' = session + 1
      BY <1>1, <1>2, SizesAssumption DEF TypeOK, Reopen, SizesAssumption
    <3> QED BY <3>1 DEF MapTrusted, ShortSessions
  <2>2. ASSUME ShortSessions PROVE Link' /\ rcv_map'[BUFF_SIZE] = 0
    <3>1. Opened' /\ rcv_map'[BUFF_SIZE] = 0
      BY <1>1, <1>2, <2>2, ReopenOpened DEF Inv
    <3>2. (NumbersSuffice /\ Opened => Link)'
      BY OpenedLink, PTL
    <3>3. NumbersSuffice'
      BY DEF NumbersSuffice
    <3> QED BY <3>1, <3>2, <3>3
  <2> QED BY <1>1, <2>1, <2>2 DEF Inv, ShortSessions
<1>3. CASE KSendto \/ KRecvfrom \/ SThread \/ RThread \/ UNCHANGED vars
  <2>1. session' = session
    BY <1>3 DEF KSendto, KRecvfrom, SThread, SPass, RThread, RecvEmpty, RecvData,
       RecvDuplicate, RecvExpected, RecvAhead, RecvOutside, RecvAck, DropData,
       DropAck, RTimeout, vars, histVars
  <2>2. ASSUME MapTrusted' PROVE Link'
    <3>1. MapTrusted
      BY <2>1, <2>2 DEF MapTrusted, ShortSessions
    <3>2. Link
      BY <3>1 DEF Inv
    <3> QED BY <1>1, <1>3, <3>2, StepLink
  <2>3. ASSUME ShortSessions PROVE rcv_map'[BUFF_SIZE] = 0
    <3>1. rcv_map[BUFF_SIZE] = 0
      BY <2>3 DEF Inv
    <3>2. CASE KRecvfrom \/ RTimeout \/ RecvExpected
      <4>1. PICK a \in Nat, r \in Nat, h \in Nat : Linked(a, r, h)
        BY <2>3 DEF Inv, MapTrusted, Link
      <4> QED BY <1>1, <2>3, <3>1, <3>2, <4>1, MapKept
    <3>3. CASE ~ (KRecvfrom \/ RTimeout \/ RecvExpected)
      <4>1. rcv_map' = rcv_map
        BY <1>3, <3>3 DEF KSendto, SThread, SPass, RThread, RecvEmpty, RecvData,
           RecvDuplicate, RecvAhead, RecvOutside, RecvAck, DropData, DropAck,
           vars, rcvVars
      <4> QED BY <3>1, <4>1
    <3> QED BY <3>2, <3>3
  <2> QED BY <1>1, <2>2, <2>3 DEF Inv, ShortSessions
<1> QED BY <1>2, <1>3 DEF Next

LEMMA AlwaysInv ==
  ASSUME NumbersSuffice, InOrderNetworks
  PROVE  Spec => []Inv
<1>1. Init => Inv
  BY InitInv
<1>2. Inv /\ [Next]_vars => Inv'
  BY StepInv
<1> QED BY <1>1, <1>2, PTL DEF Spec

(* What linked rows are: the invariants the runs check.                    *)
LEMMA LinkedRowsAgree == Inv => RowsAgree
<1> SUFFICES ASSUME Inv, MapTrusted
             PROVE  \E a \in 0 .. accepted, r \in 0 .. accepted :
                      \E h \in 0 .. a + BUFF_SIZE : Linked(a, r, h)
  BY DEF RowsAgree
<1>1. TypeOK /\ Link
  BY DEF Inv
<1>2. PICK a \in Nat, r \in Nat, h \in Nat : Linked(a, r, h)
  BY <1>1 DEF Link
<1>3. a \in 0 .. accepted /\ r \in 0 .. accepted /\ h \in 0 .. a + BUFF_SIZE
  BY <1>1, <1>2, Order, Numbers, Sizes
<1> QED BY <1>2, <1>3

LEMMA LinkedKeeps ==
  ASSUME TypeOK, Link
  PROVE  NothingFreedEarly
<1>1. PICK a \in Nat, r \in Nat, h \in Nat : Linked(a, r, h)
  BY DEF Link
<1>2. SUFFICES ASSUME NEW n \in Read + 1 .. accepted
               PROVE  Kept(n) \/ Waiting(n)
  BY DEF NothingFreedEarly, Read
<1>3. /\ n \in Int /\ Slot(n) \in Buf
      /\ Read \in Nat /\ r <= Read + BUFF_SIZE /\ accepted <= a + BUFF_SIZE
      /\ a <= r /\ accepted \in Nat /\ BUFF_SIZE \in Nat
  <2>1. n \in Int
    BY Numbers
  <2> QED BY <1>1, <2>1, Numbers, Order, Sizes, SlotFacts
<1>4. CASE n <= r
  <2>1. n \in Read + 1 .. r /\ n \in Read + 1 .. Read + BUFF_SIZE
    BY <1>3, <1>4
  <2>2. Stored(n) /\ recv_buff[Slot(n)] = n
    BY <1>1, <2>1 DEF Linked, ReceiverPart
  <2> QED BY <1>3, <2>2 DEF Waiting, Stored
<1>5. CASE n > r
  <2>1. n \in a + 1 .. a + BUFF_SIZE /\ n <= accepted
    BY <1>3, <1>5
  <2>2. snd_valid[Slot(n)] # 0 /\ send_buff[Slot(n)] = n
    BY <1>1, <2>1 DEF Linked, SenderPart
  <2> QED BY <1>3, <2>2 DEF Kept
<1> QED BY <1>3, <1>4, <1>5

LEMMA LinkedNumbers ==
  ASSUME Link
  PROVE  NumbersNameMessages
<1>1. PICK a \in Nat, r \in Nat, h \in Nat : Linked(a, r, h)
  BY DEF Link
<1>2. ASSUME NEW i \in 1 .. Len(dataNet), dataNet[i].kind = "data"
      PROVE  dataNet[i].body > 0 /\ dataNet[i].body % MAX_SEQ_NUM = dataNet[i].seq
  <2>1. dataNet[i].seq = Num(dataNet[i].body) /\ dataNet[i].body \in 1 .. accepted
    BY <1>1, <1>2 DEF Linked, DataPart
  <2> QED BY <2>1 DEF Num
<1> QED BY <1>2 DEF NumbersNameMessages

LEMMA LinkedWindow ==
  ASSUME NumbersSuffice, TypeOK, Link
  PROVE  WindowFitsBuffer
<1>1. PICK a \in Nat, r \in Nat, h \in Nat : Linked(a, r, h)
  BY DEF Link
<1>2. /\ Read \in Nat /\ Read <= r /\ r <= Read + BUFF_SIZE
      /\ r + rcv_window <= Read + BUFF_SIZE
      /\ rcv_window \in Nat /\ BUFF_SIZE \in Nat
  BY <1>1, Numbers, Order, Sizes
<1>3. last_inorder = Num(r)
  BY <1>1 DEF Linked, ReceiverPart
<1>4. Dist(Num(r), Num(Read)) = r - Read
  <2>1. r - Read \in 0 .. MAX_SEQ_NUM - 1 /\ r \in Int /\ Read \in Int
    BY <1>2, Sizes
  <2> QED BY <2>1, DistNum
<1>5. InOrderCount = r
  <2>1. InOrderCount = Read + Dist(Num(r), Num(Read))
    BY <1>3 DEF InOrderCount, Read, Num
  <2> QED BY <1>2, <1>4, <2>1
<1> QED BY <1>2, <1>5 DEF WindowFitsBuffer, Read

LEMMA LinkedSlots ==
  ASSUME TypeOK, Link
  PROVE  SlotsHoldNextMessages
<1>1. PICK a \in Nat, r \in Nat, h \in Nat : Linked(a, r, h)
  BY DEF Link
<1>2. Read \in Int /\ BUFF_SIZE \in Nat
  BY Numbers, Sizes
<1>3. ASSUME NEW b \in Buf, rcv_valid[b] = 1
      PROVE  /\ recv_buff[b] \in Read + 1 .. Read + BUFF_SIZE
             /\ recv_buff[b] % BUFF_SIZE = b
  <2>1. PICK n \in Read + 1 .. Read + BUFF_SIZE : Slot(n) = b
    BY <1>2, SlotCover
  <2>2. Stored(n)
    BY <1>3, <2>1 DEF Stored
  <2>3. recv_buff[Slot(n)] = n
    BY <1>1, <2>2 DEF Linked, ReceiverPart
  <2> QED BY <2>1, <2>3 DEF Slot
<1> QED BY <1>3 DEF SlotsHoldNextMessages, Read

-----------------------------------------------------------------------------
(* The theorems.  They hold for every size of the buffers, of the sockets  *)
(* and of the sessions, whatever is lost and however late it is, for       *)
(* sockets that keep the order of the datagrams they do not lose.          *)

(* In the first session of two rows, and in every session that k_sendto    *)
(* accepts fewer than MAX_SEQ_NUM messages in, the maps, slots and numbers *)
(* that the handlers keep modulo BUFF_SIZE and MAX_SEQ_NUM are those of    *)
(* one sender and one receiver that count their messages.                  *)
THEOREM RowsStayLinked ==
  ASSUME NumbersSuffice, InOrderNetworks
  PROVE  Spec => []RowsAgree
<1>1. Inv => RowsAgree
  BY LinkedRowsAgree
<1> QED BY <1>1, AlwaysInv, PTL

LEMMA AlwaysLinked ==
  ASSUME NumbersSuffice, InOrderNetworks, NoStaleMap
  PROVE  Spec => [](TypeOK /\ Link)
<1>1. Inv => TypeOK /\ Link
  <2>1. ASSUME Inv PROVE MapTrusted
    <3>1. session \in 1 .. MaxSessions
      BY <2>1 DEF Inv, TypeOK
    <3> QED BY <3>1 DEF NoStaleMap, MapTrusted
  <2> QED BY <2>1 DEF Inv
<1> QED BY <1>1, AlwaysInv, PTL

(* The ack handler never frees a slot of send_buff before the receiver has *)
(* the message in recv_buff.                                               *)
THEOREM NothingIsFreedEarly ==
  ASSUME NumbersSuffice, InOrderNetworks, NoStaleMap
  PROVE  Spec => []NothingFreedEarly
<1>1. TypeOK /\ Link => NothingFreedEarly
  BY LinkedKeeps
<1> QED BY <1>1, AlwaysLinked, PTL

(* What S_Thread sends under a number is the message of that number, never *)
(* one that k_sendto has meanwhile put in its slot.                        *)
THEOREM NumbersAlwaysNameMessages ==
  ASSUME NumbersSuffice, InOrderNetworks, NoStaleMap
  PROVE  Spec => []NumbersNameMessages
<1>1. TypeOK /\ Link => NumbersNameMessages
  BY LinkedNumbers
<1> QED BY <1>1, AlwaysLinked, PTL

(* The window that R_Thread computes from the slots around the old end of  *)
(* the window, modulo BUFF_SIZE, never exceeds the space in recv_buff.     *)
THEOREM WindowAlwaysFits ==
  ASSUME NumbersSuffice, InOrderNetworks, NoStaleMap
  PROVE  Spec => []WindowFitsBuffer
<1>1. TypeOK /\ Link => WindowFitsBuffer
  BY LinkedWindow
<1> QED BY <1>1, AlwaysLinked, PTL

(* What the data handler stores is where k_recvfrom will look for it.      *)
THEOREM SlotsAlwaysHoldNext ==
  ASSUME NumbersSuffice, InOrderNetworks, NoStaleMap
  PROVE  Spec => []SlotsHoldNextMessages
<1>1. TypeOK /\ Link => SlotsHoldNextMessages
  BY LinkedSlots
<1> QED BY <1>1, AlwaysLinked, PTL

-----------------------------------------------------------------------------
(* The refinement of KTPStream.                                            *)

(* The k messages after message m.                                         *)
Following(m, k) == [i \in 1 .. k |-> m + i]

LEMMA FollowingShape ==
  ASSUME NEW m \in Nat, NEW k \in Nat
  PROVE  /\ Following(m, k) \in Seq(Nat)
         /\ Len(Following(m, k)) = k
         /\ \A i \in 1 .. k : Following(m, k)[i] = m + i
<1>1. \A i \in 1 .. k : m + i \in Nat
  OBVIOUS
<1>2. [i \in 1 .. k |-> m + i] \in Seq(Nat)
  BY <1>1
<1>3. Len([i \in 1 .. k |-> m + i]) = k
  OBVIOUS
<1> QED BY <1>2, <1>3 DEF Following

LEMMA FollowingNone == ASSUME NEW m \in Nat PROVE Following(m, 0) = <<>>
<1>1. Following(m, 0) \in Seq(Nat) /\ Len(Following(m, 0)) = 0
  BY FollowingShape
<1> QED BY <1>1, EmptySeq

LEMMA FollowingAppend ==
  ASSUME NEW m \in Nat, NEW k \in Nat
  PROVE  Append(Following(m, k), m + k + 1) = Following(m, k + 1)
<1>1. k + 1 \in Nat /\ m + k + 1 \in Nat /\ m + (k + 1) = m + k + 1
  OBVIOUS
<1> DEFINE s == Following(m, k)
           t == Following(m, k + 1)
           e == m + k + 1
<1>2. s \in Seq(Nat) /\ Len(s) = k /\ \A i \in 1 .. k : s[i] = m + i
  BY FollowingShape
<1>3. t \in Seq(Nat) /\ Len(t) = k + 1 /\ \A i \in 1 .. k + 1 : t[i] = m + i
  BY <1>1, FollowingShape
<1>4. e \in Nat /\ e = m + (k + 1)
  BY <1>1
<1> HIDE DEF s, t, e
<1>5. /\ Append(s, e) \in Seq(Nat) /\ Len(Append(s, e)) = k + 1
      /\ \A i \in 1 .. k : Append(s, e)[i] = s[i]
      /\ Append(s, e)[k + 1] = e
  BY <1>2, <1>4, AppendProperties
<1>6. ASSUME NEW i \in 1 .. k + 1 PROVE Append(s, e)[i] = t[i]
  <2>1. i \in 1 .. k \/ i = k + 1
    OBVIOUS
  <2> QED BY <1>2, <1>3, <1>4, <1>5, <2>1
<1>7. Append(s, e) = t
  BY <1>3, <1>5, <1>6, SeqEqual
<1> QED BY <1>7 DEF s, t, e

LEMMA FollowingHeadTail ==
  ASSUME NEW m \in Nat, NEW k \in Nat, k > 0
  PROVE  /\ Following(m, k) # <<>> /\ Head(Following(m, k)) = m + 1
         /\ Tail(Following(m, k)) = Following(m + 1, k - 1)
<1>1. k - 1 \in Nat /\ m + 1 \in Nat
  OBVIOUS
<1> DEFINE s == Following(m, k)
           t == Following(m + 1, k - 1)
<1>2. s \in Seq(Nat) /\ Len(s) = k /\ \A i \in 1 .. k : s[i] = m + i
  BY FollowingShape
<1>3. /\ t \in Seq(Nat) /\ Len(t) = k - 1
      /\ \A i \in 1 .. k - 1 : t[i] = (m + 1) + i
  BY <1>1, FollowingShape
<1> HIDE DEF s, t
<1>4. s # <<>>
  BY <1>2
<1>5. /\ Head(s) = s[1] /\ Tail(s) \in Seq(Nat) /\ Len(Tail(s)) = k - 1
      /\ \A i \in 1 .. Len(Tail(s)) : Tail(s)[i] = s[i + 1]
  BY <1>2, <1>4, HeadTailProperties
<1>6. Head(s) = m + 1
  BY <1>2, <1>5
<1>7. ASSUME NEW i \in 1 .. k - 1 PROVE Tail(s)[i] = t[i]
  <2>1. i + 1 \in 1 .. k /\ m + (i + 1) = (m + 1) + i
    OBVIOUS
  <2> QED BY <1>2, <1>3, <1>5, <2>1
<1>8. Tail(s) = t
  BY <1>3, <1>5, <1>7, SeqEqual
<1> QED BY <1>4, <1>6, <1>8 DEF s, t

(* The two rows together are the stream: what is accepted and not yet     *)
(* read is pending, in order.                                              *)
LEMMA StreamInit == Init => Users!Opened
<1> SUFFICES ASSUME Init PROVE Users!Opened
  OBVIOUS
<1>1. accepted = 0 /\ delivered = <<>> /\ Len(delivered) = 0
  BY DEF Init
<1>2. [i \in 1 .. accepted - Len(delivered) |-> Len(delivered) + i] = Following(0, 0)
  <2>1. accepted - Len(delivered) = 0
    <3>1. accepted = 0 /\ Len(delivered) = 0
      BY <1>1
    <3> QED BY <3>1
  <2> QED BY <1>1, <2>1 DEF Following
<1>3. [i \in 1 .. accepted - Len(delivered) |-> Len(delivered) + i] = <<>>
  BY <1>2, FollowingNone
<1> QED BY <1>1, <1>3 DEF Users!Opened

(* k_sendto: when it takes a message, fewer than 2 * BUFF_SIZE are pending. *)
LEMMA StreamSend ==
  ASSUME NumbersSuffice, TypeOK, Link, KSendto
  PROVE  Users!Send
<1>1. PICK a \in Nat, r \in Nat, h \in Nat : Linked(a, r, h)
  BY DEF Link
<1> DEFINE k == accepted - Read
<1>2. /\ Read \in Nat /\ k \in Nat /\ k < 2 * BUFF_SIZE
      /\ Read + k + 1 = accepted + 1
  <2>1. a <= r /\ r <= accepted /\ Read <= r /\ r <= Read + BUFF_SIZE
    BY <1>1, Order
  <2>2. accepted < a + BUFF_SIZE
    BY <1>1, KSendtoLink
  <2>3. accepted \in Nat /\ Read \in Nat /\ BUFF_SIZE \in Nat
    BY Numbers, Sizes
  <2> QED BY <2>1, <2>2, <2>3
<1>3. /\ accepted < MaxMsgs /\ accepted' = accepted + 1
      /\ delivered' = delivered
  BY DEF KSendto
<1> HIDE DEF k
<1>4. /\ Len(Following(Read, k)) = k
      /\ Following(Read, k + 1) = Append(Following(Read, k), accepted + 1)
  <2>1. Append(Following(Read, k), Read + k + 1) = Following(Read, k + 1)
    BY <1>2, FollowingAppend
  <2>2. Len(Following(Read, k)) = k
    BY <1>2, FollowingShape
  <2> QED BY <1>2, <2>1, <2>2
<1>5. accepted' - Len(delivered') = k + 1 /\ Len(delivered') = Read
  BY <1>2, <1>3, Numbers DEF Read, k
<1>6. /\ [i \in 1 .. accepted - Len(delivered) |-> Len(delivered) + i]
           = Following(Read, k)
      /\ [i \in 1 .. accepted' - Len(delivered') |-> Len(delivered') + i]
           = Following(Read, k + 1)
  BY <1>5 DEF Following, Read, k
<1> QED BY <1>2, <1>3, <1>4, <1>6 DEF Users!Send

(* k_recvfrom hands out the oldest one.                                    *)
LEMMA StreamReceive ==
  ASSUME NumbersSuffice, TypeOK, Link, KRecvfrom
  PROVE  Users!Receive
<1>1. PICK a \in Nat, r \in Nat, h \in Nat : Linked(a, r, h)
  BY DEF Link
<1> DEFINE k == accepted - Read
<1>2. delivered' = Append(delivered, Read + 1) /\ Read < r /\ accepted' = accepted
  BY <1>1, KRecvfromLink DEF KRecvfrom
<1>3. Read \in Nat /\ k \in Nat /\ k > 0
  BY <1>1, <1>2, Order, Numbers
<1>4. /\ Following(Read, k) # <<>> /\ Head(Following(Read, k)) = Read + 1
      /\ Following(Read + 1, k - 1) = Tail(Following(Read, k))
  BY <1>3, FollowingHeadTail
<1>5. Len(delivered') = Read + 1 /\ accepted' - Len(delivered') = k - 1
  <2>1. delivered \in Seq(0 .. MaxMsgs) /\ Len(delivered) = Read
    BY DEF TypeOK, Read
  <2>2. Len(delivered') = Read + 1
    BY <1>2, <2>1
  <2> QED BY <1>2, <1>3, <2>2, Numbers
<1>6. /\ [i \in 1 .. accepted - Len(delivered) |-> Len(delivered) + i]
           = Following(Read, k)
      /\ [i \in 1 .. accepted' - Len(delivered') |-> Len(delivered') + i]
           = Following(Read + 1, k - 1)
  BY <1>5 DEF Following, Read
<1> QED BY <1>2, <1>4, <1>6 DEF Users!Receive

(* What the threads do, the users do not see.                              *)
LEMMA StreamStep ==
  ASSUME NumbersSuffice, TypeOK, Link, [Next]_vars
  PROVE  [Users!StreamNext]_Users!streamVars
<1>1. CASE KSendto
  BY <1>1, StreamSend DEF Users!StreamNext
<1>2. CASE KRecvfrom
  BY <1>2, StreamReceive DEF Users!StreamNext
<1>3. CASE Reopen
  <2>1. accepted' = 0 /\ delivered' = <<>> /\ Len(delivered') = 0
    BY <1>3 DEF Reopen
  <2>2. [i \in 1 .. accepted' - Len(delivered') |-> Len(delivered') + i] = <<>>
    <3>1. [i \in 1 .. accepted' - Len(delivered') |-> Len(delivered') + i]
            = Following(0, 0)
      <4>1. accepted' - Len(delivered') = 0
        <5>1. accepted' = 0 /\ Len(delivered') = 0
          BY <2>1
        <5> QED BY <5>1
      <4> QED BY <2>1, <4>1 DEF Following
    <3> QED BY <3>1, FollowingNone
  <2>3. Users!Reset
    BY <2>1, <2>2 DEF Users!Reset
  <2> QED BY <2>3 DEF Users!StreamNext
<1>4. CASE SThread \/ RThread \/ UNCHANGED vars
  <2>1. UNCHANGED <<accepted, delivered>>
    BY <1>4 DEF SThread, SPass, RThread, RecvEmpty, RecvData, RecvDuplicate,
       RecvExpected, RecvAhead, RecvOutside, RecvAck, DropData, DropAck,
       RTimeout, vars, histVars
  <2> QED BY <2>1 DEF Users!streamVars
<1> QED BY <1>1, <1>2, <1>3, <1>4 DEF Next

(* KTP implements the reliable stream: what k_sendto accepts, k_recvfrom   *)
(* hands out once, unchanged and in order, and what is pending never       *)
(* exceeds the two buffers, whatever the network loses or holds back.      *)
THEOREM KTPIsReliable ==
  ASSUME NumbersSuffice, InOrderNetworks, NoStaleMap
  PROVE  Spec => ReliableStream
<1>1. Init => Users!Opened
  BY StreamInit
<1>2. TypeOK /\ Link /\ [Next]_vars => [Users!StreamNext]_Users!streamVars
  BY StreamStep
<1> QED BY <1>1, <1>2, AlwaysLinked, PTL DEF Spec, ReliableStream, Users!Stream
=============================================================================
