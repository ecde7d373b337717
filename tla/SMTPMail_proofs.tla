-------------------------- MODULE SMTPMail_proofs --------------------------
(***************************************************************************)
(* For any number of users, recipients and entries of clients[], and any   *)
(* length of messages, of files and of what one write() takes: the files   *)
(* hold what was typed, "stored" is said of what is in them, and LIST and  *)
(* GET_MAIL answer with it.                                                *)
(***************************************************************************)
EXTENDS SMTP_proofs

-----------------------------------------------------------------------------
(* Lines, texts and mails.                                                 *)

-----------------------------------------------------------------------------
(* The lines of a message and the parts of a mail.                         *)
LEMMA LinesTyped ==
  ASSUME NEW s \in Seq(Requests)
  PROVE  /\ Lines(s) \in Seq(Nat) /\ Len(Lines(s)) = Len(s)
         /\ \A i \in 1 .. Len(s) : Lines(s)[i] = s[i].n
<1>1. \A i \in 1 .. Len(s) : s[i].n \in Nat
  <2> SUFFICES ASSUME NEW i \in 1 .. Len(s) PROVE s[i].n \in Nat
    OBVIOUS
  <2>1. s[i] \in Requests
    BY ElementOfSeq
  <2> QED BY <2>1, MailAssumption DEF Requests, Commands, Texts, Dot, Req, Ids
<1>2. Len(s) \in Nat
  OBVIOUS
<1>3. \A n \in Nat : [i \in 1 .. n |-> s[i].n] = [i \in 1 .. n |-> s[i].n]
  OBVIOUS
<1> QED BY <1>1, <1>2 DEF Lines

LEMMA LinesAppended ==
  ASSUME NEW s \in Seq(Requests), NEW r \in Requests
  PROVE  Lines(Append(s, r)) = Append(Lines(s), r.n)
<1>0. /\ Append(s, r) \in Seq(Requests) /\ Len(Append(s, r)) = Len(s) + 1 /\ Len(s) \in Nat
      /\ Append(s, r)[Len(s) + 1] = r /\ \A i \in 1 .. Len(s) : Append(s, r)[i] = s[i]
  BY AppendProperties
<1> DEFINE a == Lines(Append(s, r))
           b == Append(Lines(s), r.n)
<1>1. /\ a \in Seq(Nat) /\ Len(a) = Len(s) + 1
      /\ \A i \in 1 .. Len(s) + 1 : a[i] = Append(s, r)[i].n
  BY <1>0, LinesTyped
<1>2. r.n \in Nat
  <2>1. a[Len(s) + 1] = r.n /\ Len(s) + 1 \in 1 .. Len(a)
    BY <1>0, <1>1
  <2> QED BY <1>1, <2>1, ElementOfSeq
<1>3. Lines(s) \in Seq(Nat) /\ Len(Lines(s)) = Len(s) /\ \A i \in 1 .. Len(s) : Lines(s)[i] = s[i].n
  BY LinesTyped
<1>4. b \in Seq(Nat) /\ Len(b) = Len(s) + 1 /\ b[Len(s) + 1] = r.n
      /\ \A i \in 1 .. Len(s) : b[i] = s[i].n
  BY <1>2, <1>3, AppendProperties
<1>5. \A i \in 1 .. Len(a) : a[i] = b[i]
  <2> SUFFICES ASSUME NEW i \in 1 .. Len(a) PROVE a[i] = b[i]
    OBVIOUS
  <2>1. i \in 1 .. Len(s) \/ i = Len(s) + 1
    BY <1>0, <1>1
  <2> QED BY <1>0, <1>1, <1>4, <2>1
<1> HIDE DEF a, b
<1>6. a = b
  BY <1>1, <1>4, <1>5, SeqEqual
<1> QED BY <1>6 DEF a, b

(* recv takes the first k lines of those that wait.                        *)
LEMMA LinesTaken ==
  ASSUME NEW s \in Seq(Requests), NEW k \in 1 .. Len(s)
  PROVE  /\ [i \in 1 .. k |-> s[i].n] \in Seq(Nat)
         /\ [i \in 1 .. k |-> s[i].n] \o Lines(SubSeq(s, k + 1, Len(s))) = Lines(s)
<1> DEFINE a == [i \in 1 .. k |-> s[i].n]
           t == SubSeq(s, k + 1, Len(s))
<1>1. Lines(s) \in Seq(Nat) /\ Len(Lines(s)) = Len(s) /\ \A i \in 1 .. Len(s) : Lines(s)[i] = s[i].n
  BY LinesTyped
<1>2. a \in Seq(Nat) /\ Len(a) = k /\ k \in Nat
  <2>1. k \in Nat
    OBVIOUS
  <2>2. \A i \in 1 .. k : i \in 1 .. Len(s)
    OBVIOUS
  <2>3. \A i \in 1 .. k : s[i].n \in Nat
    <3> SUFFICES ASSUME NEW i \in 1 .. k PROVE s[i].n \in Nat
      OBVIOUS
    <3>1. i \in 1 .. Len(s)
      BY <2>2
    <3>2. Lines(s)[i] \in Nat
      BY <1>1, <3>1, ElementOfSeq
    <3> QED BY <1>1, <3>1, <3>2
  <2> QED BY <2>1, <2>3
<1>3. t \in Seq(Requests) /\ Len(t) = Len(s) - k /\ \A i \in 1 .. Len(s) - k : t[i] = s[i + k]
  BY Taken
<1> HIDE DEF t
<1>4. Lines(t) \in Seq(Nat) /\ Len(Lines(t)) = Len(s) - k
      /\ \A i \in 1 .. Len(s) - k : Lines(t)[i] = s[i + k].n
  BY <1>3, LinesTyped
<1>5. \A i \in 1 .. k : a[i] = s[i].n
  OBVIOUS
<1> HIDE DEF a
<1>6. /\ a \o Lines(t) \in Seq(Nat) /\ Len(a \o Lines(t)) = Len(s)
      /\ \A i \in 1 .. Len(s) : (a \o Lines(t))[i] = IF i <= k THEN a[i] ELSE Lines(t)[i - k]
  <2>1. /\ a \o Lines(t) \in Seq(Nat) /\ Len(a \o Lines(t)) = Len(a) + Len(Lines(t))
        /\ \A i \in 1 .. Len(a) + Len(Lines(t)) :
             (a \o Lines(t))[i] = IF i <= Len(a) THEN a[i] ELSE Lines(t)[i - Len(a)]
    <3> DEFINE N == Nat
               l == Lines(t)
    <3>1. a \in Seq(N) /\ l \in Seq(N)
      BY <1>2, <1>4
    <3> HIDE DEF N, l
    <3>2. /\ a \o l \in Seq(N) /\ Len(a \o l) = Len(a) + Len(l)
          /\ \A i \in 1 .. Len(a) + Len(l) :
               (a \o l)[i] = IF i <= Len(a) THEN a[i] ELSE l[i - Len(a)]
      BY <3>1, ConcatProperties
    <3> QED BY <3>2 DEF N, l
  <2>2. Len(a) + Len(Lines(t)) = Len(s) /\ Len(a) = k
    BY <1>2, <1>4
  <2> QED BY <2>1, <2>2
<1>7. \A i \in 1 .. Len(s) : (a \o Lines(t))[i] = Lines(s)[i]
  <2> SUFFICES ASSUME NEW i \in 1 .. Len(s) PROVE (a \o Lines(t))[i] = Lines(s)[i]
    OBVIOUS
  <2>1. CASE i <= k
    BY <1>1, <1>2, <1>5, <1>6, <2>1
  <2>2. CASE ~ (i <= k)
    <3>1. i - k \in 1 .. Len(s) - k /\ (i - k) + k = i
      BY <1>2, <2>2
    <3> QED BY <1>1, <1>4, <1>6, <2>2, <3>1
  <2> QED BY <2>1, <2>2
<1>8. a \o Lines(t) = Lines(s)
  BY <1>1, <1>6, <1>7, SeqEqual
<1> QED BY <1>2, <1>8 DEF a, t

LEMMA ArrivalsTyped ==
  ASSUME NEW text \in Seq(1 .. MaxLines), NEW a \in Arrivals(text)
  PROVE  a \in Seq(Nat) /\ text \in Seq(Nat)
<1> DEFINE L == 1 .. MaxLines
<1>1. L \subseteq Nat
  OBVIOUS
<1>2. text \in Seq(L)
  OBVIOUS
<1> HIDE DEF L
<1>3. text \in Seq(Nat)
  BY <1>1, <1>2, SeqMonotonic
<1>4. Append(text, 0) \in Seq(Nat)
  BY <1>3
<1> QED BY <1>3, <1>4 DEF Arrivals

LEMMA MailParts ==
  ASSUME NEW u \in Users, NEW k \in Nat, NEW text \in Seq(Nat)
  PROVE  /\ Mail(u, k, text) \in Items
         /\ Len(Mail(u, k, text)) = Len(text) + 2 /\ Len(text) \in Nat
         /\ DOMAIN Mail(u, k, text) = 1 .. Len(text) + 2
         /\ Mail(u, k, text)[1] = Part("start", u, k)
         /\ \A i \in 2 .. Len(text) + 1 : Mail(u, k, text)[i].kind = "text"
         /\ Mail(u, k, text)[Len(text) + 2].kind = "end"
<1> DEFINE s == <<Part("start", u, k)>>
           t == [i \in 1 .. Len(text) |-> Part("text", u, text[i])]
           e == <<Part("end", u, 0)>>
<1>1. Part("start", u, k) \in Parts /\ Part("end", u, 0) \in Parts /\ Part("end", u, 0).kind = "end"
  BY DEF Part, Parts
<1>2. \A i \in 1 .. Len(text) : Part("text", u, text[i]) \in Parts /\ Part("text", u, text[i]).kind = "text"
  BY DEF Part, Parts
<1>3. s \in Seq(Parts) /\ Len(s) = 1 /\ s[1] = Part("start", u, k)
  BY <1>1
<1>4. e \in Seq(Parts) /\ Len(e) = 1 /\ e[1] = Part("end", u, 0)
  BY <1>1
<1>5. Len(text) \in Nat
  OBVIOUS
<1>6. /\ t \in Seq(Parts) /\ Len(t) = Len(text)
      /\ \A i \in 1 .. Len(text) : t[i].kind = "text"
  BY <1>2, <1>5
<1> HIDE DEF s, t, e
<1>7. /\ s \o t \in Seq(Parts) /\ Len(s \o t) = Len(text) + 1
      /\ \A i \in 1 .. Len(text) + 1 : (s \o t)[i] = IF i <= 1 THEN s[i] ELSE t[i - 1]
  <2>1. /\ s \o t \in Seq(Parts) /\ Len(s \o t) = Len(s) + Len(t)
        /\ \A i \in 1 .. Len(s) + Len(t) :
             (s \o t)[i] = IF i <= Len(s) THEN s[i] ELSE t[i - Len(s)]
    <3>1. s \in Seq(Parts) /\ t \in Seq(Parts)
      BY <1>3, <1>6
    <3> QED BY <3>1, ConcatProperties
  <2> QED BY <1>3, <1>5, <1>6, <2>1
<1>8. /\ (s \o t) \o e \in Seq(Parts) /\ Len((s \o t) \o e) = Len(text) + 2
      /\ \A i \in 1 .. Len(text) + 2 :
           ((s \o t) \o e)[i] = IF i <= Len(text) + 1 THEN (s \o t)[i] ELSE e[i - (Len(text) + 1)]
  <2> DEFINE st == s \o t
  <2>1. st \in Seq(Parts) /\ Len(st) = Len(text) + 1
    BY <1>7
  <2> HIDE DEF st
  <2>2. /\ st \o e \in Seq(Parts) /\ Len(st \o e) = Len(st) + Len(e)
        /\ \A i \in 1 .. Len(st) + Len(e) :
             (st \o e)[i] = IF i <= Len(st) THEN st[i] ELSE e[i - Len(st)]
    BY <1>4, <2>1, ConcatProperties
  <2>3. Len(st) + Len(e) = Len(text) + 2
    BY <1>4, <1>5, <2>1
  <2>4. /\ st \o e \in Seq(Parts) /\ Len(st \o e) = Len(text) + 2
        /\ \A i \in 1 .. Len(text) + 2 :
             (st \o e)[i] = IF i <= Len(text) + 1 THEN st[i] ELSE e[i - (Len(text) + 1)]
    BY <2>1, <2>2, <2>3
  <2> QED BY <2>4 DEF st
<1>9. Mail(u, k, text) = (s \o t) \o e
  BY DEF Mail, s, t, e
<1>10. ((s \o t) \o e)[1] = Part("start", u, k)
  BY <1>3, <1>5, <1>7, <1>8
<1>11. \A i \in 2 .. Len(text) + 1 : ((s \o t) \o e)[i].kind = "text"
  <2> SUFFICES ASSUME NEW i \in 2 .. Len(text) + 1 PROVE ((s \o t) \o e)[i].kind = "text"
    OBVIOUS
  <2>1. i - 1 \in 1 .. Len(text) /\ i \in 1 .. Len(text) + 1 /\ i \in 1 .. Len(text) + 2 /\ ~ (i <= 1)
    BY <1>5
  <2>2. ((s \o t) \o e)[i] = t[i - 1]
    BY <1>5, <1>7, <1>8, <2>1
  <2> QED BY <1>6, <2>1, <2>2
<1>12. ((s \o t) \o e)[Len(text) + 2].kind = "end"
  <2>1. /\ Len(text) + 2 \in 1 .. Len(text) + 2 /\ ~ (Len(text) + 2 <= Len(text) + 1)
        /\ Len(text) + 2 - (Len(text) + 1) = 1
    BY <1>5
  <2> QED BY <1>1, <1>4, <1>8, <2>1
<1> HIDE DEF Items
<1>13. DOMAIN ((s \o t) \o e) = 1 .. Len(text) + 2
  BY <1>8, LenProperties
<1> QED BY <1>5, <1>8, <1>9, <1>10, <1>11, <1>12, <1>13 DEF Items

-----------------------------------------------------------------------------
(* What a step of one user leaves alone.                                   *)

-----------------------------------------------------------------------------
(* A step of one user leaves what the others have alone.                   *)
Step(u) == Client(u) \/ Accept(u) \/ HandleClient(u)
Aside(u) ==
  /\ Frame(u)
  /\ \A v \in Users \ {u} :
       /\ composed'[v] = composed[v] /\ message'[v] = message[v]
       /\ pending'[v] = pending[v] /\ recipient'[v] = recipient[v]

LEMMA StepAside ==
  ASSUME IInv, WriterPart, NEW u \in Users, Step(u)
  PROVE  Aside(u)
<1>0. TypeOK
  BY DEF IInv
<1>1. Frame(u)
  <2>1. CASE Client(u)
    BY <2>1, ConnectIInv, GiveIInv, TypeLineIInv, EndTextIInv, ReceiveIInv,
       ReceiveSomeIInv, CloseIInv DEF Client, Leave, Hungup
  <2>2. CASE Accept(u)
    BY <1>0, <2>2 DEF TypeOK, Accept, Frame, userVars, readVars, fileVars
  <2>3. CASE RemoveClient(u)
    BY <1>0, <2>3 DEF TypeOK, RemoveClient, Frame, userVars, readVars, fileVars
  <2>4. CASE HandleClient(u) /\ ~ RemoveClient(u)
    BY <2>4, RecvSimpleIInv, RecvUnknownIInv, RecvDataIInv, RecvLinesIInv, RecvTailIInv,
       RecvGoneIInv, WriteIInv, StoreFailsIInv, RecvQueryIInv, ReadPartIInv, ReadDoneIInv
       DEF HandleClient
  <2> QED BY <2>1, <2>2, <2>3, <2>4 DEF Step
<1>2. /\ \/ UNCHANGED composed
         \/ \E s : composed' = [composed EXCEPT ![u] = s]
      /\ UNCHANGED message \/ \E s : message' = [message EXCEPT ![u] = s]
      /\ UNCHANGED pending \/ \E s : pending' = [pending EXCEPT ![u] = s]
      /\ UNCHANGED recipient \/ \E b : recipient' = [recipient EXCEPT ![u] = b]
  <2>1. CASE Give(u)
    BY <2>1 DEF Give, ByClient, threadVars
  <2>2. CASE TypeLine(u)
    <3>1. \/ UNCHANGED composed
          \/ composed' = [composed EXCEPT ![u] = [composed[u] EXCEPT ![Len(composed[u])] =
                   [composed[u][Len(composed[u])] EXCEPT !.text =
                      Append(composed[u][Len(composed[u])].text, typed'[u])]]]
      BY <2>2 DEF TypeLine
    <3> QED BY <2>2, <3>1 DEF TypeLine, ByClient, threadVars
  <2>3. CASE Client(u) /\ ~ Give(u) /\ ~ TypeLine(u)
    BY <2>3 DEF Client, Connect, EndText, Receive, ReceiveSome, Leave, Hungup, Close, ByClient,
       threadVars
  <2>4. CASE Accept(u) \/ RemoveClient(u)
    BY <2>4 DEF Accept, RemoveClient, userVars
  <2>5. CASE RecvSimple(u) \/ RecvUnknown(u) \/ RecvData(u)
    BY <2>5 DEF RecvSimple, RecvUnknown, RecvData, ByThread, userVars, threadVars
  <2>6. CASE RecvLines(u) \/ RecvTail(u) \/ RecvEnd(u) \/ RecvClosed(u)
    BY <2>6 DEF RecvLines, RecvTail, RecvEnd, RecvClosed, Store, ByThread, userVars
  <2>7. CASE Write(u) \/ StoreFails(u)
    BY <2>7 DEF Write, StoreFails, ByThread, userVars
  <2>8. CASE RecvQuery(u) \/ ReadPart(u) \/ ReadDone(u)
    BY <2>8 DEF RecvQuery, ReadPart, ReadDone, ByThread, userVars, threadVars
  <2> QED BY <2>1, <2>2, <2>3, <2>4, <2>5, <2>6, <2>7, <2>8 DEF Step, HandleClient
<1>3. \A v \in Users \ {u} : composed'[v] = composed[v]
  BY <1>0, <1>2 DEF TypeOK
<1>4. \A v \in Users \ {u} : message'[v] = message[v]
  BY <1>0, <1>2 DEF TypeOK
<1>5. \A v \in Users \ {u} : pending'[v] = pending[v] /\ recipient'[v] = recipient[v]
  BY <1>0, <1>2 DEF TypeOK
<1> QED BY <1>1, <1>3, <1>4, <1>5 DEF Aside

(* Only write() changes the files.                                         *)
LEMMA FilesStay ==
  ASSUME NEW u \in Users, Step(u), ~ Write(u)
  PROVE  UNCHANGED <<mailbox, torn>>
<1>1. CASE Client(u)
  BY <1>1 DEF Client, Connect, Give, TypeLine, EndText, Receive, ReceiveSome, Leave, Hungup,
     Close, ByClient, fileVars
<1>2. CASE Accept(u)
  BY <1>2 DEF Accept, fileVars
<1>3. CASE HandleClient(u)
  BY <1>3 DEF HandleClient, RecvSimple, RecvUnknown, RecvData, RecvLines, RecvTail, RecvEnd,
     RecvClosed, StoreFails, RecvQuery, ReadPart, ReadDone, RemoveClient, threadVars, fileVars
<1> QED BY <1>1, <1>2, <1>3 DEF Step

(* An answer that is added to those in flight.                             *)
LEMMA Added ==
  ASSUME TypeOK, NEW u \in Users, NEW to, NEW kind, NEW items, NEW opened,
         Reply(u, to, kind, items, opened)
  PROVE  LET new == [to |-> to, kind |-> kind, items |-> items, opened |-> opened] IN
         /\ Range(down'[u]) \subseteq Range(down[u]) \cup {new}
         /\ down'[u] = down[u] \/ (net[u] = "open" /\ net'[u] = net[u])
         /\ net'[u] = "open" => net[u] = "open"
<1> DEFINE new == [to |-> to, kind |-> kind, items |-> items, opened |-> opened]
           A == [to : Requests, kind : Answers, items : Items, opened : Nat]
<1>0. down \in [Users -> Seq(A)] /\ net \in [Users -> {"none", "open", "fin", "rst", "hup"}]
  BY DEF TypeOK
<1> HIDE DEF A
<1>1. CASE net[u] = "open"
  <2>1. down' = [down EXCEPT ![u] = Append(@, new)] /\ net' = net
    BY <1>1 DEF Reply
  <2> HIDE DEF new
  <2>2. down'[u] = Append(down[u], new)
    BY <1>0, <2>1
  <2>3. \A s \in Seq(A) : Range(Append(s, new)) \subseteq Range(s) \cup {new}
    BY DEF Range
  <2> QED BY <1>0, <1>1, <2>1, <2>2, <2>3 DEF new
<1>2. CASE net[u] # "open"
  <2>1. down'[u] = down[u] /\ net'[u] # "open"
    BY <1>0, <1>2 DEF Reply
  <2> QED BY <1>2, <2>1
<1> QED BY <1>1, <1>2

-----------------------------------------------------------------------------
(* Files that stay: what the other steps keep of the mails in them.        *)

-----------------------------------------------------------------------------
(* What a file's mails are from.                                           *)
LEMMA MailsTyped ==
  ASSUME TypeOK, NEW b \in Boxes, NEW i \in Mails(b)
  PROVE  /\ mailbox[b] \in Items /\ Len(mailbox[b]) \in Nat /\ i \in 1 .. Len(mailbox[b])
         /\ mailbox[b][i].from \in Users /\ mailbox[b][i].kind = "start"
         /\ mailbox[b][i] = Part("start", mailbox[b][i].from, mailbox[b][i].n)
         /\ mailbox[b][i].n \in Nat
<1>1. mailbox[b] \in Items /\ i \in 1 .. Len(mailbox[b]) /\ mailbox[b][i].kind = "start"
  BY DEF TypeOK, Mails, Starts
<1>2. mailbox[b][i] \in Parts /\ Len(mailbox[b]) \in Nat
  BY <1>1, ElementOfSeq DEF Items
<1> QED BY <1>1, <1>2 DEF Parts, Part

(* A step of u after which all that was known of the files still holds,    *)
(* when it writes nothing.                                                 *)
Kept(u) ==
  /\ Len(composed[u]) <= Len(composed'[u])
  /\ \A k \in 1 .. Len(composed[u]) :
       (Unstored(u) => k # Len(composed[u])) => composed'[u][k] = composed[u][k]
  /\ Unstored(u)' /\ ~ Unstored(u) => Len(composed'[u]) > Len(composed[u])
  /\ th[u] = "store" /\ Begun(u) =>
       /\ th'[u] = "store" /\ pending'[u] = pending[u] /\ recipient'[u] = recipient[u]
       /\ composed'[u] = composed[u] /\ (net'[u] = "open" => net[u] = "open")
  /\ th'[u] = "store" /\ Begun(u)' => th[u] = "store" /\ Begun(u)
  /\ \A r \in Range(down'[u]) : r.kind = "stored" =>
       /\ r \in Range(down[u]) /\ composed'[u] = composed[u] /\ recipient'[u] = recipient[u]
       /\ u \in astray' \ cut' => u \in astray \ cut

LEMMA WritersKept ==
  ASSUME TypeOK, TypeOK', WritersAgree, NEW u \in Users, Aside(u),
         UNCHANGED <<mailbox, torn>>, Kept(u), MessagePart(u)'
  PROVE  WritersAgree'
<1>1. \A v \in Users \ {u} :
        /\ composed'[v] = composed[v] /\ message'[v] = message[v] /\ pending'[v] = pending[v]
        /\ recipient'[v] = recipient[v] /\ th'[v] = th[v] /\ up'[v] = up[v] /\ net'[v] = net[v]
        /\ cl'[v] = cl[v] /\ asked'[v] = asked[v] /\ down'[v] = down[v]
        /\ (v \in astray' <=> v \in astray) /\ (v \in cut' <=> v \in cut)
  BY DEF Aside, Frame
<1>2. mailbox' = mailbox /\ torn' = torn /\ (srv' = "up" => srv = "up")
  BY DEF Aside, Frame
<1>3. /\ composed \in [Users -> Seq(Messages)] /\ composed' \in [Users -> Seq(Messages)]
  BY DEF TypeOK
<1>4. \A v \in Users : Len(composed[v]) \in Nat /\ Len(composed'[v]) \in Nat
  BY <1>3
<1>5. \A b \in Boxes : Mails(b)' = Mails(b)
  BY <1>2 DEF Mails, Starts
<1>6. \A v \in Users \ {u} : Unstored(v)' <=> Unstored(v)
  BY <1>1 DEF Unstored, Asks, Begun
<1>7. ASSUME NEW v \in Users
      PROVE  /\ Len(composed[v]) <= Len(composed'[v])
             /\ \A k \in 1 .. Len(composed[v]) :
                  (Unstored(v) => k # Len(composed[v])) => composed'[v][k] = composed[v][k]
             /\ Unstored(v)' /\ ~ Unstored(v) => Len(composed'[v]) > Len(composed[v])
             /\ th[v] = "store" /\ Begun(v) =>
                  /\ th'[v] = "store" /\ pending'[v] = pending[v] /\ recipient'[v] = recipient[v]
                  /\ composed'[v] = composed[v] /\ (net'[v] = "open" => net[v] = "open")
             /\ th'[v] = "store" /\ Begun(v)' => th[v] = "store" /\ Begun(v)
  <2>1. CASE v = u
    BY <2>1 DEF Kept
  <2>2. CASE v # u
    BY <1>1, <1>4, <1>6, <2>2 DEF Begun
  <2> QED BY <2>1, <2>2
<1>8. ASSUME NEW b \in Boxes, NEW i \in Mails(b), NEW v, NEW n,
             v = mailbox[b][i].from, n = mailbox[b][i].n
      PROVE  /\ v \in Users /\ n \in 1 .. Len(composed[v]) /\ n \in 1 .. Len(composed'[v])
             /\ Unstored(v)' => n # Len(composed'[v])
             /\ composed'[v][n] = composed[v][n]
  <2>1. v \in Users
    BY <1>8, MailsTyped
  <2>2. n \in 1 .. Len(composed[v]) /\ (Unstored(v) => n # Len(composed[v]))
    BY <1>8 DEF WritersAgree, StampPart
  <2>3. n \in 1 .. Len(composed'[v]) /\ composed'[v][n] = composed[v][n]
    BY <1>4, <1>7, <2>1, <2>2
  <2>4. Unstored(v)' => n # Len(composed'[v])
    BY <1>4, <1>7, <2>1, <2>2
  <2> QED BY <2>1, <2>2, <2>3, <2>4
<1>9. StampPart'
  <2>1. \A b, c \in Boxes : \A i \in Mails(b)', j \in Mails(c)' :
          mailbox'[b][i] = mailbox'[c][j] => b = c /\ i = j
    BY <1>2, <1>5 DEF WritersAgree, StampPart
  <2> QED BY <1>2, <1>5, <1>8, <2>1 DEF StampPart
<1>10. ASSUME NEW b \in Boxes, NEW i \in Mails(b), NEW v, v = mailbox[b][i].from, NEW mail,
              Unfinished(b, i, v, mail)
       PROVE  Unfinished(b, i, v, mail)'
  <2>1. /\ th[v] = "store" /\ Begun(v) /\ recipient[v] = b
        /\ mailbox[b][i] = Part("start", v, Len(composed[v]))
        /\ pending[v] = SubSeq(mail, Len(mailbox[b]) - i + 2, Len(mail))
    BY <1>10 DEF Unfinished
  <2>2. /\ th'[v] = "store" /\ pending'[v] = pending[v] /\ recipient'[v] = recipient[v]
        /\ composed'[v] = composed[v]
    BY <1>7, <1>8, <1>10, <2>1
  <2>3. Begun(v)'
    BY <2>1, <2>2 DEF Begun
  <2> QED BY <1>2, <2>1, <2>2, <2>3 DEF Unfinished
<1>11. ContentPart'
  <2> SUFFICES ASSUME NEW b \in Boxes \ torn', NEW i \in Mails(b)'
               PROVE  (LET start == mailbox[b][i]
                           m     == composed[start.from][start.n]
                       IN  /\ m.box = b
                           /\ \E text \in Arrivals(m.text) :
                                LET mail == Mail(start.from, start.n, text) IN
                                /\ Holds(mailbox[b], i, mail)
                                /\ \/ i + Len(mail) - 1 <= Len(mailbox[b])
                                   \/ Unfinished(b, i, start.from, mail))'
    BY DEF ContentPart
  <2>1. i \in Mails(b) /\ b \notin torn
    BY <1>2, <1>5
  <2>2. PICK v, n : v = mailbox[b][i].from /\ n = mailbox[b][i].n
    OBVIOUS
  <2>3. PICK text :
          /\ composed[v][n].box = b /\ text \in Arrivals(composed[v][n].text)
          /\ Holds(mailbox[b], i, Mail(v, n, text))
          /\ \/ i + Len(Mail(v, n, text)) - 1 <= Len(mailbox[b])
             \/ Unfinished(b, i, v, Mail(v, n, text))
    BY <2>1, <2>2 DEF WritersAgree, ContentPart
  <2>4. composed'[v][n] = composed[v][n]
    BY <1>8, <2>1, <2>2
  <2>5. Unfinished(b, i, v, Mail(v, n, text)) => Unfinished(b, i, v, Mail(v, n, text))'
    BY <1>10, <2>1, <2>2
  <2>6. Holds(mailbox[b], i, Mail(v, n, text))'
    BY <1>2, <2>3 DEF Holds
  <2>7. text \in Arrivals(composed'[v][n].text)
    BY <2>3, <2>4
  <2> QED BY <1>2, <2>2, <2>3, <2>4, <2>5, <2>6, <2>7
<1>12. ASSUME NEW v \in Users PROVE MessagePart(v)' /\ BegunPart(v)' /\ SaidPart(v)'
  <2>1. MessagePart(v)'
    <3>1. CASE v = u
      BY <3>1
    <3>2. CASE v # u
      <4>1. MessagePart(v)
        BY DEF WritersAgree
      <4>2. /\ composed'[v] = composed[v] /\ message'[v] = message[v] /\ pending'[v] = pending[v]
            /\ recipient'[v] = recipient[v] /\ th'[v] = th[v] /\ up'[v] = up[v]
            /\ net'[v] = net[v] /\ cl'[v] = cl[v] /\ asked'[v] = asked[v]
        BY <1>1, <3>2
      <4>3. (Asks(v)' <=> Asks(v)) /\ Typed(v)' = Typed(v) /\ Lines(up[v])' = Lines(up[v])
        BY <4>2 DEF Asks, Typed, Lines
      <4>4. srv' = "up" => srv = "up"
        BY <1>2
      <4>5. th'[v] = "store" =>
              \E text \in Arrivals(Typed(v).text)' :
                /\ Rest(v, Mail(v, Len(composed[v]), text))'
                /\ net'[v] = "open" => text = Typed(v)'.text
        BY <4>1, <4>2, <4>3 DEF MessagePart, Rest
      <4>6. th'[v] = "data" /\ srv' = "up" =>
              /\ message'[v] \o Lines(up[v])' \in Arrivals(Typed(v).text)'
              /\ cl'[v] = "typing" \/ asked'[v].cmd = "data" =>
                   message'[v] \o Lines(up[v])' = Typed(v)'.text
        BY <4>1, <4>2, <4>3, <4>4 DEF MessagePart
      <4>7. /\ th'[v] # "data" => message'[v] = <<>>
            /\ th'[v] # "store" => pending'[v] = <<>>
            /\ Asks(v)' \/ th'[v] \in {"data", "store"} =>
                 composed'[v] # <<>> /\ Typed(v)'.box = recipient'[v]
            /\ Asks(v)' => Typed(v)'.text = <<>>
        BY <4>1, <4>2, <4>3 DEF MessagePart
      <4> QED BY <4>5, <4>6, <4>7 DEF MessagePart
    <3> QED BY <3>1, <3>2
  <2>2. BegunPart(v)'
    <3> SUFFICES ASSUME th'[v] = "store", Begun(v)', recipient'[v] \notin torn'
                 PROVE  BegunPart(v)'
      BY DEF BegunPart
    <3>1. /\ th[v] = "store" /\ Begun(v) /\ pending'[v] = pending[v]
          /\ recipient'[v] = recipient[v] /\ composed'[v] = composed[v]
          /\ net'[v] = "open" => net[v] = "open"
      BY <1>7
    <3>2. BegunPart(v)
      BY DEF WritersAgree
    <3>3. PICK i \in Mails(recipient[v]), text \in Arrivals(Typed(v).text) :
            /\ Holds(mailbox[recipient[v]], i, Mail(v, Len(composed[v]), text))
            /\ Unfinished(recipient[v], i, v, Mail(v, Len(composed[v]), text))
            /\ net[v] = "open" => text = Typed(v).text
      BY <1>2, <3>1, <3>2 DEF BegunPart
    <3>4. Mails(recipient[v])' = Mails(recipient[v]) /\ Typed(v)' = Typed(v)
      BY <1>2, <3>1 DEF Mails, Starts, Typed
    <3>5. Unfinished(recipient[v], i, v, Mail(v, Len(composed[v]), text))'
      BY <1>2, <3>1, <3>3 DEF Unfinished
    <3> QED BY <1>2, <3>1, <3>3, <3>4, <3>5 DEF BegunPart
  <2>3. SaidPart(v)'
    <3>1. SaidPart(v)
      BY DEF WritersAgree
    <3>2. ASSUME NEW r \in Range(down'[v]), r.kind = "stored"
          PROVE  /\ r \in Range(down[v]) /\ composed'[v] = composed[v]
                 /\ recipient'[v] = recipient[v]
                 /\ v \in astray' \ cut' => v \in astray \ cut
      BY <1>1, <3>2 DEF Kept
    <3>3. ASSUME NEW r \in Range(down'[v]), r.kind = "stored"
          PROVE  /\ r.to = Dot /\ v \notin astray' \ cut' /\ composed'[v] # <<>>
                 /\ recipient'[v] \notin torn' =>
                      \E i \in Mails(recipient[v])' : HoldsAll(mailbox[recipient[v]], i, LastMail(v))'
      <4>1. /\ r \in Range(down[v]) /\ composed'[v] = composed[v]
            /\ recipient'[v] = recipient[v]
            /\ v \in astray' \ cut' => v \in astray \ cut
        BY <3>2, <3>3
      <4>2. /\ r.to = Dot /\ v \notin astray \ cut /\ composed[v] # <<>>
            /\ recipient[v] \notin torn =>
                 \E i \in Mails(recipient[v]) : HoldsAll(mailbox[recipient[v]], i, LastMail(v))
        BY <3>1, <3>3, <4>1 DEF SaidPart
      <4>3. /\ Mails(recipient[v])' = Mails(recipient[v]) /\ LastMail(v)' = LastMail(v)
            /\ mailbox[recipient[v]]' = mailbox[recipient[v]]
        BY <1>2, <4>1 DEF Mails, Starts, LastMail
      <4> QED BY <1>2, <4>1, <4>2, <4>3 DEF HoldsAll, Holds
    <3> QED BY <3>3 DEF SaidPart
  <2> QED BY <2>1, <2>2, <2>3
<1> QED BY <1>9, <1>11, <1>12 DEF WritersAgree

-----------------------------------------------------------------------------
(* Steps of the client programs and threads, one by one.                   *)

-----------------------------------------------------------------------------
(* The answer to a dot waits with a client that waits, and its thread is   *)
(* back at the command loop; unless another dot had ended the message.     *)
LEMMA NothingSaid ==
  ASSUME IInv, NEW u \in Users, SaidPart(u), u \notin cut,
         th[u] # "command" \/ up[u] # <<>> \/ cl[u] # "await",
         NEW r \in Range(down[u])
  PROVE  r.kind # "stored"
<1> SUFFICES ASSUME r.kind = "stored" PROVE FALSE
  OBVIOUS
<1>1. r.to = Dot /\ u \notin astray
  BY DEF SaidPart
<1>2. Session(u) /\ cl[u] \in {"out", "prompt", "await", "typing", "leaving", "closed"}
  BY DEF IInv, InStep, TypeOK
<1>3. down[u] # <<>> /\ \E i \in DOMAIN down[u] : r = down[u][i]
  BY DEF Range
<1>4. Awaited(u)
  BY <1>1, <1>2, <1>3 DEF Session, TurnPart, ConnectionPart
<1>5. Len(down[u]) = 1 /\ down[u][1].to = asked[u] /\ up[u] = <<>> /\ th[u] \in After(asked[u])
  BY <1>3, <1>4 DEF Awaited
<1>6. r = down[u][1]
  <2> DEFINE A == [to : Requests, kind : Answers, items : Items, opened : Nat]
  <2>1. down[u] \in Seq(A)
    BY DEF IInv, TypeOK
  <2> HIDE DEF A
  <2>2. DOMAIN down[u] = {1}
    BY <1>5, <2>1
  <2> QED BY <1>3, <2>2
<1>7. th[u] = "command" /\ cl[u] = "await"
  <2>1. th[u] \in After(Dot)
    BY <1>1, <1>5, <1>6
  <2>2. cl[u] = "await"
    BY <1>1, <1>2, <1>3 DEF Session, TurnPart, ConnectionPart
  <2> QED BY <2>1, <2>2, SomeRequests DEF After
<1> QED BY <1>5, <1>7

(* A stream that begins with text, or is empty, does not ask for DATA.     *)
LEMMA NotAsked ==
  ASSUME NEW u \in Users, up[u] \in Seq(Requests), OnlyText(up[u])
  PROVE  ~ Asks(u)
<1>1. up[u] # <<>> => Head(up[u]).cmd \in {"text", "dot"}
  BY DEF OnlyText
<1> QED BY <1>1 DEF Asks

LEMMA ConcatAppended ==
  ASSUME NEW S, NEW s \in Seq(S), NEW t \in Seq(S), NEW e \in S
  PROVE  s \o Append(t, e) = Append(s \o t, e)
<1>1. <<e>> \in Seq(S) /\ s \o t \in Seq(S)
  OBVIOUS
<1>2. Append(t, e) = t \o <<e>> /\ Append(s \o t, e) = (s \o t) \o <<e>>
  BY <1>1, AppendIsConcat
<1>3. (s \o t) \o <<e>> = s \o (t \o <<e>>)
  BY <1>1, ConcatAssociative
<1> QED BY <1>2, <1>3

(* Steps of the client program that leave what it has composed.            *)
LEMMA ClientKept ==
  ASSUME IInv, NEW u \in Users, MessagePart(u),
         UNCHANGED <<threadVars, srv, cut, composed>>,
         astray' = astray \/ (astray' = astray \cup {u} /\ cl'[u] = "prompt"),
         u \in astray /\ cl'[u] \in {"typing", "await"} => cl[u] \in {"typing", "await"},
         net'[u] = "open" => net[u] = "open" \/ th[u] = "none",
         \A r \in Range(down'[u]) : r.kind = "stored" => r \in Range(down[u]),
         u \in astray' => u \in astray \/ \A r \in Range(down'[u]) : r.kind # "stored",
         \/ /\ up'[u] = up[u]
            /\ th[u] = "data" /\ (cl'[u] = "typing" \/ asked'[u].cmd = "data") =>
                 cl[u] = "typing" \/ asked[u].cmd = "data"
         \/ /\ up'[u] = Append(up[u], Dot)
            /\ cl[u] = "typing" /\ cl'[u] # "typing" /\ asked'[u].cmd # "data"
  PROVE  Kept(u) /\ MessagePart(u)'
<1>0. /\ th'[u] = th[u] /\ recipient'[u] = recipient[u] /\ message'[u] = message[u]
      /\ pending'[u] = pending[u] /\ composed'[u] = composed[u] /\ srv' = srv /\ cut' = cut
  BY DEF threadVars
<1>1. /\ up[u] \in Seq(Requests) /\ message[u] \in Seq(0 .. MaxLines)
      /\ composed[u] \in Seq(Messages)
  BY DEF IInv, TypeOK
<1>2. Asks(u)' => Asks(u)
  <2>1. CASE up'[u] = up[u]
    BY <1>0, <2>1 DEF Asks
  <2>2. CASE up'[u] = Append(up[u], Dot)
    <3>1. up[u] = <<>> => Head(up'[u]) = Dot
      BY <1>1, <2>2
    <3>2. up[u] # <<>> => Head(up'[u]) = Head(up[u])
      BY <1>1, <2>2, SomeRequests
    <3> QED BY <1>0, <3>1, <3>2, SomeRequests DEF Asks
  <2> QED BY <2>1, <2>2
<1>3. Begun(u)' <=> Begun(u)
  BY <1>0 DEF Begun
<1>4. Unstored(u)' => Unstored(u)
  BY <1>0, <1>2, <1>3 DEF Unstored
<1>5. Kept(u)
  <2>1. Len(composed[u]) \in Nat
    BY <1>1
  <2> QED BY <1>0, <1>3, <1>4, <2>1 DEF Kept
<1>6. Typed(u)' = Typed(u)
  BY <1>0 DEF Typed
<1>7. th[u] = "data" /\ srv = "up" =>
        /\ message[u] \o Lines(up'[u]) \in Arrivals(Typed(u).text)
        /\ cl'[u] = "typing" \/ asked'[u].cmd = "data" =>
             message[u] \o Lines(up'[u]) = Typed(u).text
  <2> SUFFICES ASSUME th[u] = "data", srv = "up"
               PROVE  /\ message[u] \o Lines(up'[u]) \in Arrivals(Typed(u).text)
                      /\ cl'[u] = "typing" \/ asked'[u].cmd = "data" =>
                           message[u] \o Lines(up'[u]) = Typed(u).text
    OBVIOUS
  <2>1. CASE up'[u] = up[u]
    <3>1. \/ cl'[u] # "typing" /\ asked'[u].cmd # "data"
          \/ cl[u] = "typing" \/ asked[u].cmd = "data"
      OBVIOUS
    <3> QED BY <2>1, <3>1 DEF MessagePart
  <2>2. CASE up'[u] = Append(up[u], Dot) /\ cl[u] = "typing" /\ cl'[u] # "typing" /\ asked'[u].cmd # "data"
    <3>1. message[u] \o Lines(up[u]) = Typed(u).text
      BY <2>2 DEF MessagePart
    <3>2. Lines(up'[u]) = Append(Lines(up[u]), 0)
      BY <1>1, <2>2, LinesAppended, SomeRequests DEF Dot, Req
    <3>3. message[u] \o Append(Lines(up[u]), 0) = Append(message[u] \o Lines(up[u]), 0)
      <4> DEFINE N == Nat
                 m == message[u]
                 l == Lines(up[u])
                 z == 0
      <4>1. m \in Seq(N)
        <5> DEFINE L == 0 .. MaxLines
        <5>1. L \subseteq N /\ m \in Seq(L)
          BY <1>1, MailAssumption
        <5> HIDE DEF L, N, m
        <5> QED BY <5>1, SeqMonotonic
      <4>2. l \in Seq(N) /\ z \in N
        BY <1>1, LinesTyped
      <4> HIDE DEF N, m, l, z
      <4>3. m \o Append(l, z) = Append(m \o l, z)
        BY <4>1, <4>2, ConcatAppended
      <4> QED BY <4>3 DEF m, l, z
    <3> QED BY <2>2, <3>1, <3>2, <3>3 DEF Arrivals
  <2> QED BY <2>1, <2>2
<1>8. MessagePart(u)'
  <2>1. /\ th'[u] # "data" => message'[u] = <<>>
        /\ th'[u] # "store" => pending'[u] = <<>>
        /\ Asks(u)' \/ th'[u] \in {"data", "store"} =>
             composed'[u] # <<>> /\ Typed(u)'.box = recipient'[u]
        /\ Asks(u)' => Typed(u)'.text = <<>>
    BY <1>0, <1>2, <1>6 DEF MessagePart
  <2>2. th[u] = "store" =>
          \E text \in Arrivals(Typed(u).text) :
            /\ Rest(u, Mail(u, Len(composed[u]), text))
            /\ net'[u] = "open" => text = Typed(u).text
    BY DEF MessagePart
  <2>3. \A mail : Rest(u, mail)' <=> Rest(u, mail)
    BY <1>0 DEF Rest
  <2> QED BY <1>0, <1>6, <1>7, <2>1, <2>2, <2>3 DEF MessagePart
<1> QED BY <1>5, <1>8

(* Steps of a thread that has no message, and stores none.                 *)
LEMMA ThreadKept ==
  ASSUME IInv, NEW u \in Users, MessagePart(u), SaidPart(u),
         composed'[u] = composed[u], message'[u] = message[u], pending'[u] = <<>>,
         th[u] # "data", th'[u] # "store", ~ (th[u] = "store" /\ Begun(u)),
         th'[u] = "data" => Asks(u) /\ up'[u] = <<>> /\ recipient'[u] = recipient[u],
         u \in astray' => u \in astray \/ Asks(u), cut' = cut, cl'[u] = cl[u],
         u \in cut => recipient'[u] = recipient[u] \/ down[u] = <<>>,
         Asks(u)' => Asks(u) /\ recipient'[u] = recipient[u],
         th[u] # "command" \/ up[u] # <<>> \/ cl[u] # "await",
         \A r \in Range(down'[u]) : r.kind = "stored" => r \in Range(down[u])
  PROVE  Kept(u) /\ MessagePart(u)'
<1>0. Len(composed[u]) \in Nat
  <2>1. composed[u] \in Seq(Messages)
    BY DEF IInv, TypeOK
  <2> QED BY <2>1
<1>1. ASSUME NEW r \in Range(down'[u]), r.kind = "stored"
      PROVE  r \in Range(down[u]) /\ u \in cut /\ recipient'[u] = recipient[u]
  <2>1. r \in Range(down[u])
    BY <1>1
  <2>2. u \in cut
    BY <1>1, <2>1, NothingSaid
  <2>3. down[u] # <<>>
    BY <2>1 DEF Range
  <2> QED BY <2>1, <2>2, <2>3
<1>2. Unstored(u)' => Unstored(u)
  BY DEF Unstored
<1>3. Kept(u)
  <2>1. ~ (th'[u] = "store" /\ Begun(u)')
    OBVIOUS
  <2> QED BY <1>0, <1>1, <1>2, <2>1 DEF Kept
<1>4. Typed(u)' = Typed(u)
  BY DEF Typed
<1>5. message[u] = <<>> /\ Lines(<<>>) = <<>> /\ <<>> \o <<>> = <<>>
  BY DEF MessagePart, Lines
<1>6. Asks(u) => /\ composed[u] # <<>> /\ Typed(u).box = recipient[u]
                 /\ Typed(u).text = <<>>
  BY DEF MessagePart
<1>7. MessagePart(u)'
  <2>1. th'[u] = "data" => message'[u] \o Lines(up'[u]) = <<>> /\ <<>> \in Arrivals(<<>>)
    BY <1>5 DEF Arrivals
  <2> QED BY <1>4, <1>5, <1>6, <2>1 DEF MessagePart
<1> QED BY <1>3, <1>7

(* The answer that does not fit is the only one there is.                  *)
LEMMA RestAlone ==
  ASSUME IInv, NEW u \in Users, ReceiveSome(u)
  PROVE  \A r \in Range(down'[u]) :
           /\ r.kind = "rest"
           /\ \E x \in Range(down[u]) : r.to = x.to /\ r.opened = x.opened
<1> DEFINE A == [to : Requests, kind : Answers, items : Items, opened : Nat]
           d == down[u]
           x == [d[1] EXCEPT !.kind = "rest"]
<1>0. /\ down \in [Users -> Seq(A)] /\ asked \in [Users -> Requests \cup {Quiet}]
      /\ Session(u)
  BY DEF IInv, TypeOK, InStep
<1>1. /\ cl[u] = "await" /\ asked[u].cmd \in {"list", "get"} /\ d # <<>>
      /\ down' = [down EXCEPT ![u] = [d EXCEPT ![1] = x]]
  BY DEF ReceiveSome
<1>2. u \notin astray
  BY <1>0, <1>1, SomeRequests DEF Session, AstrayPart
<1>3. Len(d) = 1
  BY <1>0, <1>1, <1>2 DEF Session, TurnPart, Awaited
<1>4. d \in Seq(A)
  BY <1>0
<1> HIDE DEF A, d, x
<1>5. down'[u] = [d EXCEPT ![1] = x]
  BY <1>0, <1>1
<1>6. DOMAIN d = {1}
  BY <1>3, <1>4
<1>7. DOMAIN down'[u] = {1} /\ down'[u][1] = x
  BY <1>5, <1>6
<1>8. d[1] \in A /\ d[1] \in Range(d)
  BY <1>4, <1>6 DEF Range
<1>9. x.kind = "rest" /\ x.to = d[1].to /\ x.opened = d[1].opened
  BY <1>8 DEF A, x
<1> QED BY <1>7, <1>8, <1>9 DEF Range, d

LEMMA ClientStepKept ==
  ASSUME IInv, NEW u \in Users, MessagePart(u),
         Connect(u) \/ EndText(u) \/ Receive(u) \/ ReceiveSome(u) \/ Leave(u) \/ Hungup(u)
  PROVE  Kept(u) /\ MessagePart(u)'
<1>0. /\ cl \in [Users -> {"out", "prompt", "await", "typing", "leaving", "closed"}]
      /\ asked \in [Users -> Requests \cup {Quiet}] /\ TypeOK
      /\ net \in [Users -> {"none", "open", "fin", "rst", "hup"}]
      /\ Session(u) /\ up \in [Users -> Seq(Requests)]
  BY DEF IInv, TypeOK, InStep
<1>1. CASE Connect(u)
  <2>1. /\ UNCHANGED <<threadVars, srv, astray, cut, composed, up, down>>
        /\ th[u] = "none" /\ cl'[u] = "prompt"
    BY <1>0, <1>1 DEF Connect, ByClient, Session, ConnectionPart, fileVars
  <2> QED BY <2>1, ClientKept
<1>2. CASE EndText(u)
  <2>1. /\ UNCHANGED <<threadVars, srv, astray, cut, composed, net, down>>
        /\ cl[u] = "typing" /\ cl'[u] = "await" /\ asked'[u] = Dot
    BY <1>0, <1>2 DEF EndText, ByClient, Waits, fileVars
  <2>2. up'[u] = up[u] \/ up'[u] = Append(up[u], Dot)
    BY <1>0, <1>2, Sent, SomeRequests DEF EndText
  <2>3. asked'[u].cmd # "data" /\ cl'[u] # "typing"
    BY <2>1, SomeRequests
  <2> QED BY <2>1, <2>2, <2>3, ClientKept
<1>3. CASE Receive(u)
  <2>1. /\ UNCHANGED <<threadVars, srv, astray, cut, composed, net, up>>
        /\ cl'[u] = "typing" => asked[u].cmd = "data"
        /\ asked'[u].cmd # "data" /\ cl[u] = "await"
    BY <1>0, <1>3, SomeRequests DEF Receive, ByClient, fileVars
  <2>2. Range(down'[u]) \subseteq Range(down[u])
    <3> DEFINE A == [to : Requests, kind : Answers, items : Items, opened : Nat]
    <3>1. down \in [Users -> Seq(A)]
      BY <1>0 DEF TypeOK
    <3> HIDE DEF A
    <3>2. PICK k \in 1 .. Len(down[u]) : down' = [down EXCEPT ![u] = SubSeq(@, k + 1, Len(@))]
      BY <1>3 DEF Receive
    <3> DEFINE d == down[u]
               e == SubSeq(d, k + 1, Len(d))
    <3>3. d \in Seq(A) /\ k \in 1 .. Len(d) /\ down'[u] = e
      BY <3>1, <3>2
    <3>4. Len(e) = Len(d) - k /\ (\A i \in 1 .. Len(d) - k : e[i] = d[i + k]) /\ e \in Seq(A)
      BY <3>3, Taken
    <3> HIDE DEF d, e
    <3>5. \A i \in 1 .. Len(e) : i + k \in 1 .. Len(d) /\ e[i] = d[i + k]
      BY <3>3, <3>4
    <3>6. DOMAIN e = 1 .. Len(e) /\ DOMAIN d = 1 .. Len(d)
      BY <3>3, <3>4, LenProperties
    <3> QED BY <3>3, <3>5, <3>6 DEF Range, d
  <2> QED BY <2>1, <2>2, ClientKept
<1>4. CASE Leave(u) \/ Hungup(u)
  <2>1. /\ UNCHANGED <<threadVars, srv, astray, cut, composed, up>>
        /\ cl'[u] = "closed" /\ asked'[u].cmd # "data" /\ net'[u] # "open"
    BY <1>0, <1>4, SomeRequests DEF Leave, Hungup, Close, ByClient, fileVars
  <2>2. Range(down'[u]) \subseteq Range(down[u])
    <3>1. down'[u] = <<>>
      BY <1>0, <1>4 DEF Leave, Hungup, Close, TypeOK
    <3> QED BY <3>1 DEF Range
  <2> QED BY <2>1, <2>2, ClientKept
<1>5. CASE ReceiveSome(u)
  <2>1. /\ UNCHANGED <<threadVars, srv, cut, composed, net, up>>
        /\ astray' = astray \cup {u} /\ cl'[u] = "prompt" /\ asked'[u].cmd # "data"
    BY <1>0, <1>5, SomeRequests DEF ReceiveSome, fileVars
  <2>2. \A r \in Range(down'[u]) : r.kind # "stored"
    BY <1>5, RestAlone
  <2> QED BY <2>1, <2>2, ClientKept
<1> QED BY <1>1, <1>2, <1>3, <1>4, <1>5

LEMMA CommandTaken ==
  ASSUME IInv, NEW u \in Users, th[u] = "command", Takes(u, 1),
         Head(up[u]).cmd \notin {"text", "dot"}
  PROVE  up'[u] = <<>> /\ up[u] # <<>>
<1>1. up[u] # <<>> /\ (Len(up[u]) = 1 => up'[u] = <<>>)
  BY TakenUp DEF IInv
<1> QED BY <1>1, CommandAsked

LEMMA AcceptKept ==
  ASSUME IInv, WriterPart, NEW u \in Users, MessagePart(u), SaidPart(u),
         Accept(u) \/ RemoveClient(u)
  PROVE  Kept(u) /\ MessagePart(u)'
<1>0. th \in [Users -> Places] /\ Session(u)
  BY DEF IInv, TypeOK, InStep
<1>1. /\ UNCHANGED <<message, pending, up, down, userVars, astray, cut>>
      /\ th[u] \in {"none", "closing"}
      /\ \/ th[u] = "none" /\ th'[u] \in {"command", "gone"} /\ recipient' = recipient
         \/ th[u] = "closing" /\ th'[u] = "gone"
  BY <1>0 DEF Accept, RemoveClient, fileVars
<1>2. /\ composed'[u] = composed[u] /\ message'[u] = message[u] /\ pending'[u] = <<>>
      /\ up'[u] = up[u] /\ down'[u] = down[u] /\ astray' = astray /\ cut' = cut
      /\ cl'[u] = cl[u]
  BY <1>1 DEF userVars, MessagePart
<1>3. Asks(u)' => Asks(u) /\ recipient'[u] = recipient[u]
  BY <1>1, <1>2 DEF Asks
<1>4. u \in cut => recipient'[u] = recipient[u] \/ down[u] = <<>>
  BY <1>0, <1>1 DEF WriterPart, Session, AstrayPart, ConnectionPart
<1> QED BY <1>1, <1>2, <1>3, <1>4, ThreadKept

LEMMA CommandKept ==
  ASSUME IInv, WriterPart, NEW u \in Users, MessagePart(u), SaidPart(u),
         RecvSimple(u) \/ RecvUnknown(u) \/ RecvData(u) \/ RecvQuery(u) \/ RecvClosed(u)
  PROVE  Kept(u) /\ MessagePart(u)'
<1>0. TypeOK /\ Session(u) /\ th \in [Users -> Places] /\ up \in [Users -> Seq(Requests)]
  BY DEF IInv, TypeOK, InStep
<1>1. /\ th[u] = "command" /\ UNCHANGED <<message, pending, cut, userVars>>
      /\ RecvQuery(u) \/ RecvClosed(u) => recipient' = recipient
  BY DEF RecvSimple, RecvUnknown, RecvData, RecvQuery, RecvClosed, Thread, ByThread, threadVars,
     fileVars
<1>2. /\ composed'[u] = composed[u] /\ message'[u] = message[u] /\ pending'[u] = <<>>
      /\ cut' = cut /\ cl'[u] = cl[u]
  BY <1>1 DEF userVars, MessagePart
<1>3. CASE RecvSimple(u)
  <2>1. /\ Takes(u, 1) /\ Head(up[u]).cmd \notin {"text", "dot"} /\ astray' = astray
        /\ th'[u] \in {"closing", "command"}
    BY <1>0, <1>3 DEF RecvSimple, Goto
  <2>2. up'[u] = <<>> /\ up[u] # <<>>
    BY <1>1, <2>1, CommandTaken
  <2>3. \A r \in Range(down'[u]) : r.kind = "stored" => r \in Range(down[u])
    <3>1. PICK kind \in {"ok", "goodbye"} : Reply(u, Head(up[u]), kind, <<>>, 0)
      BY <1>3 DEF RecvSimple
    <3> QED BY <1>0, <3>1, Added
  <2>4. ~ Asks(u)'
    BY <2>2 DEF Asks
  <2>5. u \notin cut
    <3> SUFFICES ASSUME u \in cut PROVE FALSE
      OBVIOUS
    <3>1. OnlyText(up[u])
      BY <1>0 DEF WriterPart, Session, StreamPart
    <3>2. 1 \in 1 .. Len(up[u]) /\ Head(up[u]) = up[u][1]
      BY <1>0, <2>2
    <3> QED BY <2>1, <3>1, <3>2 DEF OnlyText
  <2> QED BY <1>1, <1>2, <2>1, <2>2, <2>3, <2>4, <2>5, ThreadKept
<1>4. CASE RecvUnknown(u)
  <2>1. th' = th /\ astray' = astray /\ recipient' = recipient
    BY <1>4 DEF RecvUnknown, threadVars
  <2>2. PICK k \in 1 .. Len(up[u]) : Takes(u, k) /\ \A i \in 1 .. k : up[u][i].cmd \in {"text", "dot"}
    BY <1>4 DEF RecvUnknown
  <2>3. /\ up[u] # <<>> /\ up'[u] \in Seq(Requests) /\ Len(up[u]) \in Nat \ {0}
        /\ Len(up'[u]) = Len(up[u]) - k
        /\ \A i \in 1 .. Len(up'[u]) : up'[u][i] = up[u][i + k]
    BY <1>0, <2>2, TakenUp
  <2>4. OnlyText(up[u])
    <3>1. 1 \in 1 .. k /\ 1 \in 1 .. Len(up[u])
      BY <2>2
    <3>2. up[u][1].cmd \in {"text", "dot"}
      BY <2>2, <3>1
    <3>3. Len(up[u]) <= 1 => \A i \in 1 .. Len(up[u]) : i = 1
      BY <2>3
    <3> QED BY <1>0, <3>2, <3>3 DEF Session, StreamPart, OnlyText
  <2>5. OnlyText(up'[u])
    <3>1. \A i \in 1 .. Len(up'[u]) : i + k \in 1 .. Len(up[u])
      BY <2>2, <2>3
    <3> QED BY <2>3, <2>4, <3>1 DEF OnlyText
  <2>6. ~ Asks(u)'
    BY <2>3, <2>5 DEF Asks, OnlyText
  <2>7. \A r \in Range(down'[u]) : r.kind = "stored" => r \in Range(down[u])
    <3>1. Reply(u, Head(up[u]), "err", <<>>, 0)
      BY <1>4 DEF RecvUnknown
    <3> QED BY <1>0, <3>1, Added
  <2> QED BY <1>1, <1>2, <2>1, <2>3, <2>6, <2>7, ThreadKept
<1>5. CASE RecvData(u)
  <2>1. /\ Takes(u, 1) /\ Head(up[u]).cmd = "data" /\ recipient' = recipient
        /\ astray' \subseteq astray \cup {u}
        /\ th'[u] \in {"data", "command"}
    BY <1>0, <1>5 DEF RecvData, Goto, Thread
  <2>2. up'[u] = <<>> /\ up[u] # <<>>
    BY <1>1, <2>1, CommandTaken
  <2>3. \A r \in Range(down'[u]) : r.kind = "stored" => r \in Range(down[u])
    <3>1. PICK kind \in {"prompt", "badseq"} : Reply(u, Head(up[u]), kind, <<>>, 0)
      BY <1>5 DEF RecvData
    <3> QED BY <1>0, <3>1, Added
  <2>4. Asks(u) /\ ~ Asks(u)'
    BY <1>1, <2>1, <2>2 DEF Asks
  <2> QED BY <1>1, <1>2, <2>1, <2>2, <2>3, <2>4, ThreadKept
<1>6. CASE RecvQuery(u)
  <2>1. /\ Takes(u, 1) /\ Head(up[u]).cmd \notin {"text", "dot"} /\ astray' = astray
        /\ th'[u] \in {"read", "command"}
    BY <1>0, <1>1, <1>6 DEF RecvQuery, Goto
  <2>2. up'[u] = <<>> /\ up[u] # <<>>
    BY <1>1, <2>1, CommandTaken
  <2>3. \A r \in Range(down'[u]) : r.kind = "stored" => r \in Range(down[u])
    <3>1. down' = down \/ Reply(u, Head(up[u]), "notfound", <<>>, 0)
      BY <1>6 DEF RecvQuery, NotFound
    <3> QED BY <1>0, <3>1, Added
  <2>4. ~ Asks(u)'
    BY <2>2 DEF Asks
  <2> QED BY <1>1, <1>2, <1>6, <2>1, <2>2, <2>3, <2>4, ThreadKept
<1>7. CASE RecvClosed(u)
  <2>1. /\ th'[u] = "closing" /\ astray' = astray /\ down' = down
        /\ net[u] \in {"fin", "rst"}
    BY <1>0, <1>7 DEF RecvClosed, Goto, Ended
  <2>2. cl[u] # "await" /\ ~ Asks(u)'
    BY <1>0, <2>1 DEF Session, ConnectionPart, Asks
  <2> QED BY <1>1, <1>2, <1>7, <2>1, <2>2, ThreadKept
<1> QED BY <1>3, <1>4, <1>5, <1>6, <1>7

LEMMA ReadKept ==
  ASSUME IInv, NEW u \in Users, MessagePart(u), SaidPart(u),
         ReadPart(u) \/ ReadDone(u)
  PROVE  Kept(u) /\ MessagePart(u)'
<1>0. TypeOK /\ th \in [Users -> Places]
  BY DEF IInv, TypeOK
<1>1. /\ th[u] = "read" /\ UNCHANGED <<message, pending, recipient, userVars, up, astray, cut>>
      /\ th'[u] \in {"read", "command"}
  BY <1>0 DEF ReadPart, ReadDone, Thread, ByThread, threadVars, fileVars, Goto
<1>2. /\ composed'[u] = composed[u] /\ message'[u] = message[u] /\ pending'[u] = <<>>
      /\ up'[u] = up[u] /\ recipient'[u] = recipient[u] /\ astray' = astray /\ cut' = cut
      /\ cl'[u] = cl[u]
  BY <1>1 DEF userVars, MessagePart
<1>3. Asks(u)' => Asks(u)
  BY <1>1, <1>2 DEF Asks
<1>4. \A r \in Range(down'[u]) : r.kind = "stored" => r \in Range(down[u])
  <2>1. CASE ReadPart(u)
    BY <2>1 DEF ReadPart
  <2>2. CASE ReadDone(u)
    <3>1. \/ Reply(u, reader[u].req, "notfound", <<>>, reader[u].opened)
          \/ Reply(u, reader[u].req, "ok", buffer[reader[u].req.cmd], reader[u].opened)
      BY <2>2 DEF ReadDone
    <3> QED BY <1>0, <3>1, Added
  <2> QED BY <2>1, <2>2
<1> QED BY <1>1, <1>2, <1>3, <1>4, ThreadKept

LEMMA StoreFailsKept ==
  ASSUME IInv, NEW u \in Users, MessagePart(u), SaidPart(u), StoreFails(u)
  PROVE  Kept(u) /\ MessagePart(u)'
<1>0. TypeOK /\ th \in [Users -> Places] /\ pending \in [Users -> Items] /\ Session(u)
  BY DEF IInv, TypeOK, InStep
<1>1. /\ th[u] = "store" /\ ~ Begun(u) /\ th'[u] = "command" /\ pending'[u] = <<>>
      /\ UNCHANGED <<message, recipient, userVars, up, astray, cut>>
      /\ Reply(u, Dot, "failed", <<>>, 0)
  BY <1>0 DEF StoreFails, Thread, ByThread, Goto, Failed, fileVars
<1>2. /\ composed'[u] = composed[u] /\ message'[u] = message[u]
      /\ up'[u] = up[u] /\ recipient'[u] = recipient[u] /\ astray' = astray /\ cut' = cut
      /\ cl'[u] = cl[u]
  BY <1>1 DEF userVars
<1>3. ~ Asks(u)'
  <2>1. up[u] = <<>> \/ OnlyText(up[u])
    BY <1>0, <1>1 DEF Session, StreamPart
  <2>2. up[u] # <<>> /\ OnlyText(up[u]) => Head(up[u]).cmd # "data"
    <3>1. up[u] \in Seq(Requests)
      BY <1>0 DEF TypeOK
    <3> QED BY <3>1 DEF OnlyText
  <2> QED BY <1>2, <2>1, <2>2 DEF Asks
<1>4. \A r \in Range(down'[u]) : r.kind = "stored" => r \in Range(down[u])
  BY <1>0, <1>1, Added
<1> QED BY <1>1, <1>2, <1>3, <1>4, ThreadKept

(* A new message, and a line more of it.                                   *)
LEMMA GiveKept ==
  ASSUME IInv, NEW u \in Users, MessagePart(u), Give(u)
  PROVE  Kept(u) /\ MessagePart(u)'
<1>0. /\ TypeOK /\ Session(u) /\ up \in [Users -> Seq(Requests)]
      /\ composed \in [Users -> Seq(Messages)]
  BY DEF IInv, TypeOK, InStep
<1>1. /\ cl[u] = "prompt" /\ u \notin astray
      /\ UNCHANGED <<threadVars, astray, cut, net, down, srv>>
  BY DEF Give, ByClient, fileVars
<1>2. down[u] = <<>> /\ up[u] = <<>> /\ th[u] \in {"none", "command", "gone"}
  BY <1>0, <1>1 DEF Session, TurnPart, Unread, ConnectionPart
<1>3. PICK req \in May[u] :
         /\ Send(u, req)
         /\ IF req.cmd = "data"
            THEN composed' = [composed EXCEPT ![u] =
                                Append(@, [box |-> recipient[u], text |-> <<>>])]
            ELSE composed' = composed
  BY DEF Give
<1>4. req \in Requests
  BY MayAssumption, SomeRequests
<1>5. /\ up'[u] = <<req>> \/ up'[u] = <<>>
      /\ Asks(u)' => req.cmd = "data"
  <2>1. up'[u] = IF Reachable(u) THEN Append(up[u], req) ELSE up[u]
    BY <1>0, <1>3, <1>4, Sent
  <2>2. up'[u] = <<req>> \/ up'[u] = <<>>
    BY <1>2, <1>4, <2>1
  <2> QED BY <2>2 DEF Asks
<1>6. /\ th'[u] = th[u] /\ recipient'[u] = recipient[u] /\ message'[u] = message[u]
      /\ pending'[u] = pending[u] /\ down'[u] = <<>> /\ astray' = astray /\ cut' = cut
  BY <1>1, <1>2 DEF threadVars
<1>7. \A r \in Range(down'[u]) : FALSE
  BY <1>6 DEF Range
<1>8. composed[u] \in Seq(Messages) /\ Len(composed[u]) \in Nat
  BY <1>0
<1>9. CASE req.cmd = "data"
  <2> DEFINE m == [box |-> recipient[u], text |-> <<>>]
             s == composed[u]
  <2>1. composed'[u] = Append(s, m) /\ m.box = recipient[u] /\ m.text = <<>>
    BY <1>0, <1>3, <1>9
  <2>2. s \in Seq(Messages) /\ m \in Messages
    <3>1. recipient[u] \in Boxes \cup {None} /\ <<>> \in Seq(1 .. MaxLines)
      BY <1>0 DEF TypeOK
    <3> QED BY <1>8, <3>1 DEF Messages
  <2> HIDE DEF m
  <2>3. /\ Len(Append(s, m)) = Len(s) + 1 /\ Append(s, m)[Len(s) + 1] = m
        /\ \A i \in 1 .. Len(s) : Append(s, m)[i] = s[i]
    BY <2>2, AppendProperties
  <2>4. Kept(u)
    BY <1>2, <1>6, <1>7, <1>8, <2>1, <2>3 DEF Kept
  <2>5. composed'[u] # <<>> /\ Typed(u)' = m
    <3>1. Append(s, m) # <<>> /\ Last(Append(s, m)) = m
      BY <2>2, <2>3 DEF Last
    <3> QED BY <2>1, <3>1 DEF Typed
  <2>6. message[u] = <<>> /\ pending[u] = <<>>
    BY <1>2 DEF MessagePart
  <2> QED BY <1>2, <1>6, <2>1, <2>4, <2>5, <2>6 DEF MessagePart
<1>10. CASE req.cmd # "data"
  <2>1. composed' = composed /\ ~ Asks(u)'
    BY <1>3, <1>5, <1>10
  <2>2. ~ Unstored(u)'
    BY <1>1, <1>2, <1>6, <2>1 DEF Unstored
  <2>3. Kept(u)
    BY <1>2, <1>6, <1>7, <1>8, <2>1, <2>2 DEF Kept
  <2> QED BY <1>2, <1>6, <2>1, <2>3 DEF MessagePart
<1> QED BY <1>9, <1>10

LEMMA LineKept ==
  ASSUME IInv, NEW u \in Users, MessagePart(u), SaidPart(u), TypeLine(u), u \notin cut
  PROVE  Kept(u) /\ MessagePart(u)'
<1>0. /\ TypeOK /\ Session(u) /\ up \in [Users -> Seq(Requests)]
      /\ composed \in [Users -> Seq(Messages)] /\ typed \in [Users -> 0 .. MaxLines]
      /\ message \in [Users -> Seq(0 .. MaxLines)]
  BY DEF IInv, TypeOK, InStep
<1>1. /\ cl[u] = "typing" /\ typed[u] < MaxLines /\ typed' = [typed EXCEPT ![u] = @ + 1]
      /\ Send(u, Req("text", None, typed'[u]))
      /\ composed' = [composed EXCEPT ![u][Len(composed[u])].text = Append(@, typed'[u])]
      /\ UNCHANGED <<threadVars, astray, cut, net, down, srv, cl, asked>>
  BY DEF TypeLine, ByClient, fileVars
<1> DEFINE s == composed[u]
           n == typed'[u]
           req == Req("text", None, n)
<1>2. n \in 1 .. MaxLines
  BY <1>0, <1>1, MailAssumption
<1>3. req \in Requests /\ req.cmd = "text" /\ req.n = n
  BY <1>2, SomeRequests DEF Req
<1>4. /\ Len(composed'[u]) = Len(s)
      /\ \A k \in 1 .. Len(s) :
           composed'[u][k] = IF k # Len(s) THEN s[k]
                             ELSE [box |-> s[k].box, text |-> Append(s[k].text, n)]
  BY <1>0, <1>1, <1>2, LineTyped
<1>5. /\ \A i \in 1 .. Len(up[u]) : up[u][i].cmd = "text"
      /\ th[u] \in {"data", "command"} /\ (u \notin astray => th[u] = "data")
  BY <1>0, <1>1, TextOnly DEF Session, AstrayPart
<1>6. s \in Seq(Messages) /\ Len(s) \in Nat
  BY <1>0
<1>7. Unstored(u)
  BY <1>1, <1>5 DEF Unstored
<1>8. /\ th'[u] = th[u] /\ recipient'[u] = recipient[u] /\ message'[u] = message[u]
      /\ pending'[u] = pending[u] /\ down'[u] = down[u] /\ srv' = srv
      /\ up'[u] = IF Reachable(u) THEN Append(up[u], req) ELSE up[u]
  BY <1>0, <1>1, <1>3, Sent DEF threadVars
<1> HIDE DEF req, n
<1>9. \A r \in Range(down'[u]) : r.kind # "stored"
  <2> SUFFICES ASSUME NEW r \in Range(down[u]) PROVE r.kind # "stored"
    BY <1>8
  <2> QED BY <1>1, NothingSaid
<1>10. Kept(u)
  <2>1. \A k \in 1 .. Len(composed[u]) :
          (Unstored(u) => k # Len(composed[u])) => composed'[u][k] = composed[u][k]
    BY <1>4, <1>7
  <2>2. Len(composed[u]) <= Len(composed'[u])
    BY <1>4, <1>6
  <2>3. th[u] # "store" /\ th'[u] # "store"
    BY <1>5, <1>8
  <2> QED BY <1>7, <1>9, <2>1, <2>2, <2>3 DEF Kept
<1>11. ~ Asks(u)'
  <2>1. up[u] \in Seq(Requests)
    BY <1>0
  <2>2. \A i \in 1 .. Len(up'[u]) : up'[u][i].cmd = "text"
    BY <1>3, <1>5, <1>8, <2>1
  <2> QED BY <1>3, <2>1, <2>2, <1>8 DEF Asks
<1>12. CASE th[u] = "command"
  BY <1>8, <1>10, <1>11, <1>12 DEF MessagePart
<1>13. CASE th[u] = "data"
  <2>1. s # <<>> /\ Typed(u).box = recipient[u] /\ pending[u] = <<>>
    BY <1>13 DEF MessagePart
  <2>2. Len(s) \in 1 .. Len(s)
    BY <1>6, <2>1
  <2>3. composed'[u] # <<>> /\ Typed(u) = s[Len(s)] /\ Typed(u)' = composed'[u][Len(s)]
    <3>1. Len(composed'[u]) # 0
      BY <1>4, <2>2
    <3> QED BY <1>4, <3>1 DEF Typed, Last
  <2>4. Typed(u)' = [box |-> Typed(u).box, text |-> Append(Typed(u).text, n)]
    BY <1>4, <2>2, <2>3
  <2>5. srv = "up" => message[u] \o Lines(up'[u]) = Append(Typed(u).text, n)
    <3> SUFFICES ASSUME srv = "up" PROVE message[u] \o Lines(up'[u]) = Append(Typed(u).text, n)
      OBVIOUS
    <3>1. up'[u] = Append(up[u], req)
      BY <1>0, <1>8, <1>13 DEF Session, ConnectionPart, Reachable
    <3>2. Lines(up'[u]) = Append(Lines(up[u]), n) /\ Lines(up[u]) \in Seq(Nat)
      <4>1. up[u] \in Seq(Requests)
        BY <1>0
      <4> QED BY <1>3, <3>1, <4>1, LinesAppended, LinesTyped
    <3>3. message[u] \o Lines(up[u]) = Typed(u).text
      BY <1>1, <1>13 DEF MessagePart
    <3>4. message[u] \o Append(Lines(up[u]), n) = Append(message[u] \o Lines(up[u]), n)
      <4> DEFINE N == Nat
                 m == message[u]
                 l == Lines(up[u])
      <4>1. m \in Seq(N)
        <5> DEFINE L == 0 .. MaxLines
        <5>1. L \subseteq N /\ m \in Seq(L)
          BY <1>0, MailAssumption
        <5> HIDE DEF L, N, m
        <5> QED BY <5>1, SeqMonotonic
      <4>2. l \in Seq(N) /\ n \in N
        BY <1>2, <3>2
      <4> HIDE DEF N, m, l
      <4>3. m \o Append(l, n) = Append(m \o l, n)
        BY <4>1, <4>2, ConcatAppended
      <4> QED BY <4>3 DEF m, l
    <3> QED BY <3>2, <3>3, <3>4
  <2>6. Typed(u)'.box = recipient'[u] /\ Typed(u)'.text = Append(Typed(u).text, n)
    BY <1>8, <2>1, <2>4
  <2>7. Append(Typed(u).text, n) \in Arrivals(Append(Typed(u).text, n))
    BY DEF Arrivals
  <2> QED BY <1>8, <1>10, <1>11, <1>13, <2>1, <2>3, <2>5, <2>6, <2>7 DEF MessagePart
<1> QED BY <1>5, <1>12, <1>13

(* Behind a message that ended too early, what is typed is none of it.     *)
LEMMA CutLineKept ==
  ASSUME IInv, WriterPart, NEW u \in Users, MessagePart(u), TypeLine(u), u \in cut
  PROVE  Kept(u) /\ MessagePart(u)'
<1>0. /\ TypeOK /\ Session(u) /\ up \in [Users -> Seq(Requests)]
      /\ composed[u] \in Seq(Messages) /\ typed \in [Users -> 0 .. MaxLines]
  BY DEF IInv, TypeOK, InStep
<1>1. /\ cl[u] = "typing" /\ typed[u] < MaxLines /\ typed' = [typed EXCEPT ![u] = @ + 1]
      /\ Send(u, Req("text", None, typed'[u])) /\ composed' = composed
      /\ UNCHANGED <<threadVars, astray, cut, net, down, srv, cl, asked>>
  BY DEF TypeLine, ByClient, fileVars
<1> DEFINE req == Req("text", None, typed'[u])
<1>2. typed'[u] \in 1 .. MaxLines
  BY <1>0, <1>1, MailAssumption
<1>3. req \in Requests /\ req.cmd = "text"
  BY <1>2, SomeRequests DEF Req
<1>4. /\ th'[u] = th[u] /\ recipient'[u] = recipient[u] /\ message'[u] = message[u]
      /\ pending'[u] = pending[u] /\ down'[u] = down[u] /\ composed'[u] = composed[u]
      /\ u \in astray /\ u \in cut' /\ th[u] # "data" /\ cl'[u] = cl[u]
      /\ net'[u] = net[u] /\ Len(composed[u]) \in Nat
  BY <1>0, <1>1 DEF threadVars, WriterPart, Session, AstrayPart
<1>5. ~ Asks(u)'
  <2>1. \A i \in 1 .. Len(up[u]) : up[u][i].cmd = "text"
    BY <1>1, TextOnly
  <2>2. up'[u] = up[u] \/ up'[u] = Append(up[u], req)
    BY <1>0, <1>1, <1>3, Sent
  <2> HIDE DEF req
  <2>3. up'[u] \in Seq(Requests) /\ \A i \in 1 .. Len(up'[u]) : up'[u][i].cmd = "text"
    <3>1. up[u] \in Seq(Requests) /\ req \in Requests /\ req.cmd = "text"
      BY <1>0, <1>3 DEF req
    <3>2. CASE up'[u] = up[u]
      BY <2>1, <3>1, <3>2
    <3>3. CASE up'[u] = Append(up[u], req)
      BY <2>1, <3>1, <3>3, AppendProperties
    <3> QED BY <2>2, <3>2, <3>3
  <2> QED BY <2>3 DEF Asks
<1>6. (Begun(u)' <=> Begun(u)) /\ Typed(u)' = Typed(u)
  BY <1>4 DEF Begun, Typed
<1>7. Unstored(u)' => Unstored(u)
  BY <1>4, <1>5, <1>6 DEF Unstored
<1>8. Kept(u)
  BY <1>4, <1>6, <1>7 DEF Kept
<1>9. \A mail : Rest(u, mail)' <=> Rest(u, mail)
  BY <1>4 DEF Rest
<1> QED BY <1>4, <1>5, <1>6, <1>8, <1>9 DEF MessagePart

LEMMA TypeLineKept ==
  ASSUME IInv, WriterPart, NEW u \in Users, MessagePart(u), SaidPart(u), TypeLine(u)
  PROVE  Kept(u) /\ MessagePart(u)'
BY LineKept, CutLineKept

(* The message is complete, as far as it will come.                        *)
LEMMA StoreKept ==
  ASSUME IInv, WriterPart, NEW u \in Users, MessagePart(u), SaidPart(u), th[u] = "data",
         NEW text \in Arrivals(Typed(u).text), text \in Seq(Nat), Store(u, text),
         composed' = composed, recipient' = recipient, down' = down, net' = net,
         net[u] = "open" => text = Typed(u).text
  PROVE  Kept(u) /\ MessagePart(u)'
<1>0. /\ TypeOK /\ composed \in [Users -> Seq(Messages)]
      /\ th \in [Users -> Places]
      /\ pending \in [Users -> Items] /\ message \in [Users -> Seq(0 .. MaxLines)]
      /\ u \notin cut
  BY DEF IInv, TypeOK, InStep, Session, AstrayPart, WriterPart
<1>1. PICK k, t : k = Len(composed[u]) /\ t = text
  OBVIOUS
<1> DEFINE mail == Mail(u, k, t)
<1>2. /\ th'[u] = "store" /\ pending'[u] = mail /\ message'[u] = <<>> /\ k \in Nat
  <2>1. th'[u] = "store"
    BY <1>0 DEF Store, Goto
  <2>2. /\ pending' = [pending EXCEPT ![u] = mail]
        /\ message' = [message EXCEPT ![u] = <<>>]
    BY <1>1 DEF Store
  <2>3. composed[u] \in Seq(Messages)
    BY <1>0
  <2> QED BY <1>0, <1>1, <2>1, <2>2, <2>3
<1>3. mail \in Items /\ Len(mail) \in Nat /\ Len(mail) >= 1 /\ mail[1].kind = "start"
  <2>1. t \in Seq(Nat)
    BY <1>1
  <2>2. /\ mail \in Items /\ Len(mail) = Len(t) + 2 /\ Len(t) \in Nat
        /\ mail[1] = Part("start", u, k)
    BY <1>2, <2>1, MailParts
  <2> QED BY <2>2 DEF Part
<1> HIDE DEF mail
<1>4. SubSeq(mail, 1, Len(mail)) = mail /\ 1 \in 1 .. Len(mail) /\ mail # <<>> /\ Head(mail) = mail[1]
  BY <1>3 DEF Items
<1>5. ~ Begun(u)' /\ ~ Asks(u)' /\ Typed(u)' = Typed(u) /\ Unstored(u)
  BY <1>2, <1>3, <1>4 DEF Begun, Asks, Typed, Unstored
<1>6. \A r \in Range(down'[u]) : r.kind # "stored"
  <2> SUFFICES ASSUME NEW r \in Range(down[u]) PROVE r.kind # "stored"
    OBVIOUS
  <2> QED BY <1>0, NothingSaid
<1>7. Kept(u)
  <2>1. Len(composed[u]) \in Nat
    BY <1>1, <1>2
  <2> QED BY <1>5, <1>6, <2>1 DEF Kept
<1>8. pending'[u] = SubSeq(mail, 1, Len(mail))
  BY <1>2, <1>4
<1>9. Rest(u, mail)'
  BY <1>4, <1>8 DEF Rest
<1>10. composed[u] # <<>> /\ Typed(u).box = recipient[u]
  BY DEF MessagePart
<1>11. /\ t \in Arrivals(Typed(u)'.text) /\ Rest(u, Mail(u, Len(composed[u]), t))'
       /\ net'[u] = "open" => t = Typed(u)'.text
  BY <1>1, <1>5, <1>9 DEF mail
<1> QED BY <1>2, <1>5, <1>7, <1>10, <1>11 DEF MessagePart

LEMMA DotEnds ==
  ASSUME NEW m \in Seq(Nat), NEW text \in Seq(1 .. MaxLines),
         Append(m, 0) \in Arrivals(text)
  PROVE  m = text
<1>1. text \in Seq(Nat)
  BY ArrivalsTyped DEF Arrivals
<1>2. Len(m) + 1 \in 1 .. Len(Append(m, 0)) /\ Append(m, 0)[Len(m) + 1] = 0
  OBVIOUS
<1>3. Append(m, 0) # text
  <2> SUFFICES ASSUME Append(m, 0) = text PROVE FALSE
    OBVIOUS
  <2>1. text[Len(m) + 1] \in 1 .. MaxLines
    <3> DEFINE L == 1 .. MaxLines
    <3>1. text \in Seq(L) /\ Len(m) + 1 \in 1 .. Len(text)
      BY <1>2
    <3> HIDE DEF L
    <3>2. text[Len(m) + 1] \in L
      BY <3>1, ElementOfSeq
    <3> QED BY <3>2 DEF L
  <2> QED BY <1>2, <2>1
<1>4. Append(m, 0) = Append(text, 0)
  BY <1>3 DEF Arrivals
<1> QED BY <1>1, <1>4

(* What has come of a message is lines.                                    *)
LEMMA MessageLines ==
  ASSUME TypeOK, NEW u \in Users
  PROVE  message[u] \in Seq(Nat) /\ message[u] \o <<>> = message[u]
<1> DEFINE L == 0 .. MaxLines
           m == message[u]
<1>1. L \subseteq Nat /\ m \in Seq(L)
  BY MailAssumption DEF TypeOK
<1> HIDE DEF L, m
<1>2. m \in Seq(Nat)
  BY <1>1, SeqMonotonic
<1>3. m \o <<>> = m
  BY <1>2, ConcatEmptySeq
<1> QED BY <1>2, <1>3 DEF m

LEMMA RecvLinesKept ==
  ASSUME IInv, WriterPart, NEW u \in Users, MessagePart(u), SaidPart(u), RecvLines(u)
  PROVE  Kept(u) /\ MessagePart(u)'
<1>0. /\ TypeOK /\ Session(u) /\ up \in [Users -> Seq(Requests)]
      /\ composed \in [Users -> Seq(Messages)]
      /\ message \in [Users -> Seq(0 .. MaxLines)]
  BY DEF IInv, TypeOK, InStep
<1>1. /\ srv = "up" /\ th[u] = "data"
      /\ UNCHANGED <<srv, recipient, net, down, astray, cut, userVars>>
      /\ u \notin cut
  BY <1>0 DEF RecvLines, Thread, ByThread, fileVars, Session, AstrayPart, WriterPart
<1>2. PICK k \in 1 .. Len(up[u]) :
        /\ Takes(u, k)
        /\ IF k = 1 /\ Head(up[u]) = Dot THEN Store(u, message[u])
           ELSE /\ message' = [message EXCEPT ![u] = Join(@, [i \in 1 .. k |-> up[u][i].n])]
                /\ UNCHANGED <<th, pending>>
  BY DEF RecvLines
<1>3. /\ composed' = composed /\ recipient' = recipient /\ cl' = cl /\ asked' = asked
      /\ down' = down /\ net' = net /\ cut' = cut /\ astray' = astray
  BY <1>1 DEF userVars
<1>4. up[u] \in Seq(Requests) /\ Takes(u, k)
  BY <1>0, <1>2
<1>5. /\ composed[u] # <<>> /\ Typed(u).box = recipient[u] /\ pending[u] = <<>>
      /\ message[u] \o Lines(up[u]) \in Arrivals(Typed(u).text)
      /\ cl[u] = "typing" \/ asked[u].cmd = "data" => message[u] \o Lines(up[u]) = Typed(u).text
  BY <1>1 DEF MessagePart
<1>6. message[u] \in Seq(Nat)
  BY <1>0, MessageLines
<1>7. CASE k = 1 /\ Head(up[u]) = Dot
  <2>1. Store(u, message[u])
    BY <1>2, <1>7
  <2>2. up[u] = <<Dot>>
    <3>1. up[u][1] = Dot /\ 1 \in 1 .. Len(up[u]) /\ Len(up[u]) \in Nat
      BY <1>4, <1>7, <1>2
    <3>2. 1 = Len(up[u])
      BY <1>0, <3>1, SomeRequests DEF Session, StreamPart
    <3> QED BY <1>4, <3>1, <3>2
  <2>3. message[u] \o Lines(up[u]) = Append(message[u], 0)
    <3>1. Lines(<<Dot>>) = <<0>>
      BY DEF Lines, Dot, Req
    <3> DEFINE N == Nat
               m == message[u]
               z == 0
    <3>2. m \in Seq(N) /\ z \in N
      BY <1>6
    <3> HIDE DEF N, m, z
    <3>3. Append(m, z) = m \o <<z>>
      BY <3>2, AppendIsConcat
    <3> QED BY <2>2, <3>1, <3>3 DEF m, z
  <2>4. Typed(u).text \in Seq(1 .. MaxLines)
    <3>1. composed[u] \in Seq(Messages)
      BY <1>0
    <3>2. composed[u][Len(composed[u])] \in Messages
      BY <1>5, <3>1
    <3> QED BY <3>2 DEF Typed, Last, Messages
  <2>5. message[u] = Typed(u).text
    BY <1>5, <1>6, <2>3, <2>4, DotEnds
  <2>6. message[u] \in Arrivals(Typed(u).text)
    BY <2>5 DEF Arrivals
  <2> QED BY <1>1, <1>3, <1>6, <2>1, <2>5, <2>6, StoreKept
<1>8. CASE ~ (k = 1 /\ Head(up[u]) = Dot)
  <2> DEFINE N == Nat
             m == message[u]
             a == [i \in 1 .. k |-> up[u][i].n]
             t == SubSeq(up[u], k + 1, Len(up[u]))
             l == Lines(t)
  <2>1. /\ message' = [message EXCEPT ![u] = m \o a] /\ th' = th /\ pending' = pending
        /\ up'[u] = t
    <3>1. up' = [up EXCEPT ![u] = t]
      BY <1>4 DEF Takes
    <3> QED BY <1>0, <1>2, <1>8, <3>1 DEF Join
  <2>2. message'[u] = m \o a
    BY <1>0, <2>1
  <2>3. a \in Seq(N) /\ a \o l = Lines(up[u])
    BY <1>4, <1>2, LinesTaken
  <2>11. a \in Seq(N)
    BY <2>3
  <2>4. l \in Seq(N)
    <3>1. t \in Seq(Requests)
      BY <1>4, <1>2, Taken
    <3> HIDE DEF t
    <3> QED BY <3>1, LinesTyped
  <2>5. m \in Seq(N)
    BY <1>6
  <2> HIDE DEF N, m, a, t, l
  <2>6. (m \o a) \o l = m \o (a \o l)
    BY <2>4, <2>5, <2>11, ConcatAssociative
  <2>7. message'[u] \o Lines(up'[u]) = message[u] \o Lines(up[u])
    <3>1. Lines(up'[u]) = l
      BY <2>1 DEF l
    <3>2. message[u] = m
      BY DEF m
    <3> QED BY <2>2, <2>3, <2>6, <3>1, <3>2
  <2>8. th'[u] = "data" /\ Unstored(u) /\ ~ Asks(u)' /\ Typed(u)' = Typed(u)
    BY <1>1, <1>3, <2>1 DEF Unstored, Asks, Typed
  <2>9. \A r \in Range(down'[u]) : r.kind # "stored"
    <3> SUFFICES ASSUME NEW r \in Range(down[u]) PROVE r.kind # "stored"
      BY <1>3
    <3> QED BY <1>1, NothingSaid
  <2>10. Kept(u)
    <3>1. Len(composed[u]) \in Nat
      BY <1>0
    <3> QED BY <1>1, <1>3, <2>8, <2>9, <3>1 DEF Kept
  <2> QED BY <1>3, <1>5, <2>1, <2>7, <2>8, <2>10 DEF MessagePart
<1> QED BY <1>7, <1>8

LEMMA RecvEndKept ==
  ASSUME IInv, WriterPart, NEW u \in Users, MessagePart(u), SaidPart(u), RecvEnd(u)
  PROVE  Kept(u) /\ MessagePart(u)'
<1>1. /\ srv = "up" /\ th[u] = "data" /\ up[u] = <<>> /\ net[u] # "open" /\ Store(u, message[u])
      /\ UNCHANGED <<recipient, net, down, composed>>
  BY DEF RecvEnd, Thread, ByThread, Ended, userVars
<1>2. message[u] \o Lines(up[u]) \in Arrivals(Typed(u).text)
  BY <1>1 DEF MessagePart
<1>3. message[u] \o Lines(up[u]) = message[u] /\ message[u] \in Seq(Nat)
  <2>1. Lines(<<>>) = <<>>
    BY DEF Lines
  <2> QED BY <1>1, <2>1, MessageLines DEF IInv
<1> QED BY <1>1, <1>2, <1>3, StoreKept

(* A text that does not end in the dot is what was typed.                  *)
LEMMA NoDotEnds ==
  ASSUME NEW t \in Seq(Nat), NEW n \in Nat, n # 0, NEW text \in Seq(1 .. MaxLines),
         Append(t, n) \in Arrivals(text)
  PROVE  Append(t, n) = text
<1>1. text \in Seq(Nat)
  BY ArrivalsTyped DEF Arrivals
<1>2. Append(t, n) # Append(text, 0)
  BY <1>1
<1> QED BY <1>2 DEF Arrivals

LEMMA RecvTailKept ==
  ASSUME IInv, WriterPart, NEW u \in Users, MessagePart(u), SaidPart(u), RecvTail(u)
  PROVE  Kept(u) /\ MessagePart(u)'
<1> DEFINE N == Nat
           m == message[u]
           s == up[u]
           a == [i \in 1 .. Len(s) |-> s[i].n]
           text == Join(m, a)
<1>0. /\ TypeOK /\ Session(u) /\ s \in Seq(Requests) /\ composed[u] \in Seq(Messages)
  BY DEF IInv, TypeOK, InStep
<1>1. /\ srv = "up" /\ th[u] = "data" /\ s # <<>> /\ Last(s) # Dot /\ Store(u, text)
      /\ composed' = composed /\ recipient' = recipient /\ down' = down /\ net' = net
  BY DEF RecvTail, Thread, ByThread, userVars
<1>2. /\ composed[u] # <<>> /\ m \o Lines(s) \in Arrivals(Typed(u).text)
  BY <1>1 DEF MessagePart
<1>3. text = m \o Lines(s) /\ a = Lines(s)
  BY DEF Join, Lines
<1>4. m \in Seq(N) /\ Lines(s) \in Seq(N) /\ Len(Lines(s)) = Len(s)
      /\ Lines(s)[Len(s)] = s[Len(s)].n /\ Len(s) \in 1 .. Len(s)
  <2>1. Len(s) \in 1 .. Len(s)
    BY <1>0, <1>1
  <2> QED BY <1>0, <2>1, MessageLines, LinesTyped
<1>5. Lines(s)[Len(s)] \in Nat \ {0}
  <2>1. s[Len(s)] \in Requests /\ s[Len(s)].cmd \in {"text", "dot"}
    BY <1>0, <1>1, <1>4 DEF Session, StreamPart, OnlyText
  <2>2. s[Len(s)] # Dot
    BY <1>1 DEF Last
  <2>3. s[Len(s)] \in Texts
    BY <2>1, <2>2 DEF Requests, Commands, Req
  <2>4. s[Len(s)].n \in 1 .. MaxLines
    BY <2>3 DEF Texts, Req
  <2>5. s[Len(s)].n \in Nat \ {0}
    BY <2>4
  <2>6. Lines(s)[Len(s)] = s[Len(s)].n
    BY <1>4
  <2> HIDE DEF s
  <2> QED BY <2>5, <2>6
<1>6. Typed(u).text \in Seq(1 .. MaxLines)
  <2>1. composed[u][Len(composed[u])] \in Messages
    BY <1>0, <1>2
  <2> QED BY <2>1 DEF Typed, Last, Messages
<1> HIDE DEF N, m, a
<1>7. PICK l, n : l \in Seq(N) /\ n \in N \ {0} /\ Lines(s) = Append(l, n)
  <2> DEFINE z == Lines(s)
  <2>1. z \in Seq(N) /\ Len(z) \in Nat \ {0} /\ z[Len(z)] \in N \ {0}
    BY <1>0, <1>1, <1>4, <1>5 DEF N
  <2> HIDE DEF z
  <2>2. /\ SubSeq(z, 1, Len(z) - 1) \in Seq(N)
        /\ z = Append(SubSeq(z, 1, Len(z) - 1), z[Len(z)])
    BY <2>1
  <2> QED BY <2>1, <2>2 DEF z
<1>8. m \o Append(l, n) = Append(m \o l, n) /\ m \o l \in Seq(N)
  BY <1>4, <1>7, ConcatAppended
<1>9. /\ text = Append(m \o l, n) /\ text \in Seq(Nat)
      /\ text \in Arrivals(Typed(u).text)
  BY <1>2, <1>3, <1>7, <1>8 DEF N
<1>10. text = Typed(u).text
  BY <1>6, <1>7, <1>8, <1>9, NoDotEnds DEF N
<1> HIDE DEF text
<1> QED BY <1>1, <1>9, <1>10, StoreKept

-----------------------------------------------------------------------------
(* write().                                                                *)

-----------------------------------------------------------------------------
RestOf(mail, j) == SubSeq(mail, j, Len(mail))

(* write().  u's mail, what of it is in the file and what is left.         *)
At(u, k, text, j) ==
  LET mail == Mail(u, k, text)
      file == mailbox[recipient[u]]
  IN
  /\ k = Len(composed[u]) /\ composed[u] # <<>> /\ Typed(u).box = recipient[u]
  /\ text \in Arrivals(Typed(u).text) /\ j \in 1 .. Len(mail)
  /\ pending[u] = RestOf(mail, j)
  /\ net[u] = "open" => text = Typed(u).text
  /\ recipient[u] \notin torn =>
       /\ j <= Len(file) + 1 /\ Holds(file, Len(file) - j + 2, mail)
       /\ j # 1 => file[Len(file) - j + 2] = Part("start", u, k)

(* Its next n parts are written.                                           *)
Written(u, mail, j, n) ==
  LET b == recipient[u] IN
  /\ n \in Nat \ {0} /\ j + n - 1 <= Len(mail)
  /\ mailbox'[b] \in Items /\ Len(mailbox'[b]) = Len(mailbox[b]) + n
  /\ \A i \in 1 .. Len(mailbox[b]) : mailbox'[b][i] = mailbox[b][i]
  /\ \A x \in 1 .. n : mailbox'[b][Len(mailbox[b]) + x] = mail[j + x - 1]
  /\ \A c \in Boxes \ {b} : mailbox'[c] = mailbox[c]
  /\ \/ /\ j + n - 1 = Len(mail) /\ pending'[u] = <<>> /\ th'[u] = "command"
        /\ Reply(u, Dot, "stored", <<>>, 0)
     \/ /\ j + n - 1 < Len(mail) /\ pending'[u] = RestOf(mail, j + n)
        /\ th'[u] = "store" /\ UNCHANGED <<net, down, srv>>

(* What is left of a mail, from its part j on.                              *)
Rests(rest, mail, j) ==
  /\ Len(rest) = Len(mail) - j + 1
  /\ \A x \in 1 .. Len(rest) : rest[x] = mail[j + x - 1]

LEMMA TextTyped ==
  ASSUME TypeOK, NEW u \in Users, composed[u] # <<>>, NEW text \in Arrivals(Typed(u).text)
  PROVE  /\ text \in Seq(Nat) /\ Typed(u).text \in Seq(Nat)
         /\ Len(composed[u]) \in Nat \ {0} /\ Typed(u) = composed[u][Len(composed[u])]
<1>1. composed[u] \in Seq(Messages)
  BY DEF TypeOK
<1>2. /\ Len(composed[u]) \in Nat \ {0} /\ composed[u][Len(composed[u])] \in Messages
      /\ Typed(u) = composed[u][Len(composed[u])]
  BY <1>1 DEF Typed, Last
<1>3. Typed(u).text \in Seq(1 .. MaxLines)
  BY <1>2 DEF Messages
<1> QED BY <1>2, <1>3, ArrivalsTyped

Whole(mail) ==
  /\ mail \in Items /\ mail[1].kind = "start"
  /\ \A i \in 2 .. Len(mail) : mail[i].kind # "start"

LEMMA MailKinds ==
  ASSUME NEW u \in Users, NEW k \in Nat, NEW text \in Seq(Nat)
  PROVE  LET mail == Mail(u, k, text) IN
         /\ mail \in Items /\ Len(mail) \in Nat /\ mail[1] = Part("start", u, k)
         /\ mail[1].kind = "start" /\ \A i \in 2 .. Len(mail) : mail[i].kind # "start"
<1> DEFINE mail == Mail(u, k, text)
<1>1. /\ mail \in Items /\ Len(mail) = Len(text) + 2 /\ Len(text) \in Nat
      /\ mail[1] = Part("start", u, k)
      /\ \A i \in 2 .. Len(text) + 1 : mail[i].kind = "text"
      /\ mail[Len(text) + 2].kind = "end"
  BY MailParts
<1> HIDE DEF mail
<1>2. \A i \in 2 .. Len(mail) : mail[i].kind # "start"
  <2> SUFFICES ASSUME NEW i \in 2 .. Len(mail) PROVE mail[i].kind # "start"
    OBVIOUS
  <2>1. i \in 2 .. Len(text) + 1 \/ i = Len(text) + 2
    BY <1>1
  <2> QED BY <1>1, <2>1
<1>3. mail[1].kind = "start"
  BY <1>1 DEF Part
<1> QED BY <1>1, <1>2, <1>3 DEF mail

LEMMA Suffix ==
  ASSUME NEW S, NEW s \in Seq(S), NEW j \in Nat \ {0}, j <= Len(s) + 1
  PROVE  /\ SubSeq(s, j, Len(s)) \in Seq(S) /\ Len(SubSeq(s, j, Len(s))) = Len(s) - j + 1
         /\ \A x \in 1 .. Len(s) - j + 1 : SubSeq(s, j, Len(s))[x] = s[j + x - 1]
OBVIOUS

(* The rest of a mail begins with its heading only when it is all of it.   *)
LEMMA RestParts ==
  ASSUME NEW mail, Whole(mail), NEW j \in Nat \ {0}, j <= Len(mail),
         NEW rest, rest = RestOf(mail, j)
  PROVE  /\ Rests(rest, mail, j) /\ rest # <<>> /\ Head(rest) = mail[j]
         /\ (Head(rest).kind # "start" <=> j # 1)
<1>1. mail \in Seq(Parts) /\ Len(mail) \in Nat
  BY DEF Whole, Items
<1>2. /\ rest \in Seq(Parts) /\ Len(rest) = Len(mail) - j + 1
      /\ \A x \in 1 .. Len(mail) - j + 1 : rest[x] = mail[j + x - 1]
  <2>1. j <= Len(mail) + 1
    BY <1>1
  <2> QED BY <1>1, <2>1, Suffix DEF RestOf
<1>3. Rests(rest, mail, j)
  BY <1>2 DEF Rests
<1>4. Len(rest) >= 1 /\ rest[1] = mail[j]
  <2>1. Len(mail) - j + 1 >= 1 /\ j + 1 - 1 = j /\ 1 \in 1 .. Len(mail) - j + 1
    BY <1>1
  <2> QED BY <1>2, <2>1
<1>5. rest # <<>> /\ Head(rest) = mail[j]
  <2>1. \A s \in Seq(Parts) : Len(s) >= 1 => s # <<>> /\ Head(s) = s[1]
    OBVIOUS
  <2> QED BY <1>2, <1>4, <2>1
<1>6. mail[j].kind # "start" <=> j # 1
  <2>1. j # 1 => j \in 2 .. Len(mail)
    BY <1>1
  <2> QED BY <2>1 DEF Whole
<1> QED BY <1>3, <1>5, <1>6

LEMMA Placed ==
  ASSUME TypeOK, NEW u \in Users, th[u] = "store", recipient[u] \in Boxes,
         MessagePart(u), BegunPart(u)
  PROVE  \E k \in Nat \ {0}, text \in Seq(Nat), j \in Nat \ {0} : At(u, k, text, j)
<1>1. PICK k : k = Len(composed[u])
  OBVIOUS
<1>2. composed[u] # <<>> /\ Typed(u).box = recipient[u]
  BY DEF MessagePart
<1>3. PICK text \in Arrivals(Typed(u).text) :
        /\ Rest(u, Mail(u, k, text))
        /\ net[u] = "open" => text = Typed(u).text
  BY <1>1 DEF MessagePart
<1>4. text \in Seq(Nat) /\ k \in Nat \ {0}
  BY <1>1, <1>2, TextTyped
<1>5. PICK j \in 1 .. Len(Mail(u, k, text)) :
        pending[u] = SubSeq(Mail(u, k, text), j, Len(Mail(u, k, text)))
  BY <1>3 DEF Rest
<1>6. mailbox[recipient[u]] \in Items /\ Len(mailbox[recipient[u]]) \in Nat
  BY DEF TypeOK, Items
<1>7. j \in Nat \ {0} /\ Len(Mail(u, k, text)) \in Nat
  <2>1. Len(Mail(u, k, text)) = Len(text) + 2 /\ Len(text) \in Nat
    BY <1>4, MailParts
  <2> QED BY <1>5, <2>1
<1>8. CASE j = 1
  <2>1. Holds(mailbox[recipient[u]], Len(mailbox[recipient[u]]) - 1 + 2, Mail(u, k, text))
    <3> DEFINE file == mailbox[recipient[u]]
               mail == Mail(u, k, text)
    <3>1. DOMAIN mail = 1 .. Len(mail) /\ DOMAIN file = 1 .. Len(file)
      BY <1>4, <1>6, MailParts DEF Items
    <3> HIDE DEF file, mail
    <3>2. \A x \in DOMAIN mail : Len(file) - 1 + 2 + x - 1 \notin DOMAIN file
      BY <1>6, <3>1, <1>7 DEF file, mail
    <3>3. Holds(file, Len(file) - 1 + 2, mail)
      BY <3>2 DEF Holds
    <3> QED BY <3>3 DEF file, mail
  <2>2. At(u, k, text, j)
    BY <1>1, <1>2, <1>3, <1>5, <1>6, <1>8, <2>1 DEF At, RestOf
  <2> QED BY <1>4, <1>7, <2>2
<1>9. CASE j # 1 /\ recipient[u] \in torn
  <2>1. At(u, k, text, j)
    BY <1>1, <1>2, <1>3, <1>5, <1>9 DEF At, RestOf
  <2> QED BY <1>4, <1>7, <2>1
<1>10. CASE j # 1 /\ recipient[u] \notin torn
  <2>1. Begun(u)
    <3> DEFINE mail == Mail(u, k, text)
    <3>1. /\ mail \in Items /\ mail[1].kind = "start"
          /\ \A i \in 2 .. Len(mail) : mail[i].kind # "start"
      BY <1>4, MailKinds
    <3>3. j <= Len(mail) /\ pending[u] = SubSeq(mail, j, Len(mail))
      BY <1>5, <1>7
    <3>4. PICK rest : rest = pending[u]
      OBVIOUS
    <3> HIDE DEF mail
    <3>5. rest = RestOf(mail, j) /\ j \in Nat \ {0}
      BY <1>7, <3>3, <3>4 DEF RestOf
    <3>6. rest # <<>> /\ (Head(rest).kind # "start" <=> j # 1)
      <4>1. Whole(mail) /\ j <= Len(mail)
        BY <3>1, <3>3 DEF Whole
      <4> QED BY <3>5, <4>1, RestParts
    <3>2. pending[u] # <<>> /\ (Head(pending[u]).kind # "start" <=> j # 1)
      BY <3>4, <3>6
    <3> QED BY <1>10, <3>2 DEF Begun
  <2>2. PICK i \in Mails(recipient[u]), text1 \in Arrivals(Typed(u).text) :
          /\ Holds(mailbox[recipient[u]], i, Mail(u, k, text1))
          /\ Unfinished(recipient[u], i, u, Mail(u, k, text1))
          /\ net[u] = "open" => text1 = Typed(u).text
    BY <1>1, <1>10, <2>1 DEF BegunPart
  <2> DEFINE j1 == Len(mailbox[recipient[u]]) - i + 2
  <2>3. i \in 1 .. Len(mailbox[recipient[u]])
    BY DEF Mails, Starts
  <2>4. j1 \in Nat \ {0} /\ j1 # 1 /\ j1 <= Len(mailbox[recipient[u]]) + 1
        /\ Len(mailbox[recipient[u]]) - j1 + 2 = i
    BY <1>6, <2>3
  <2>5. text1 \in Seq(Nat)
    BY <1>2, TextTyped
  <2>6. /\ pending[u] = SubSeq(Mail(u, k, text1), j1, Len(Mail(u, k, text1)))
        /\ mailbox[recipient[u]][i] = Part("start", u, k)
    BY <1>1, <2>2 DEF Unfinished
  <2> HIDE DEF j1
  <2>7. j1 \in 1 .. Len(Mail(u, k, text1))
    <3> DEFINE mail == Mail(u, k, text1)
    <3>1. mail \in Seq(Parts) /\ Len(mail) \in Nat
      BY <1>4, <2>5, MailKinds DEF Items
    <3>2. pending[u] # <<>> /\ pending[u] = SubSeq(mail, j1, Len(mail))
      BY <2>1, <2>6 DEF Begun
    <3> HIDE DEF mail
    <3>3. j1 > Len(mail) => SubSeq(mail, j1, Len(mail)) = <<>>
      BY <2>4, <3>1
    <3>4. j1 \in 1 .. Len(mail)
      BY <2>4, <3>1, <3>2, <3>3
    <3> QED BY <3>4 DEF mail
  <2>8. At(u, k, text1, j1)
    BY <1>1, <1>2, <2>2, <2>4, <2>6, <2>7 DEF At, RestOf
  <2> QED BY <1>4, <2>4, <2>5, <2>8
<1> QED BY <1>8, <1>9, <1>10

LEMMA Least ==
  ASSUME NEW l \in Nat \ {0}, NEW m \in Nat \ {0}
  PROVE  Min({l, m}) \in 1 .. m
BY DEF Min

LEMMA WriteSteps ==
  ASSUME TypeOK, NEW u \in Users, Write(u), recipient[u] \in Boxes,
         NEW mail \in Items, NEW j \in Nat \ {0}, j <= Len(mail),
         Rests(pending[u], mail, j)
  PROVE  \E n : Written(u, mail, j, n)
<1> DEFINE b == recipient[u]
           p == pending[u]
           f == mailbox[b]
<1>0. /\ f \in Items /\ mailbox \in [Boxes -> Items] /\ p \in Items
      /\ pending \in [Users -> Items] /\ th \in [Users -> Places]
  BY DEF TypeOK
<1>1. /\ mail \in Seq(Parts) /\ Len(mail) \in Nat
      /\ Len(p) = Len(mail) - j + 1
  BY DEF Items, Rests
<1>12. \A x \in 1 .. Len(p) : p[x] = mail[j + x - 1]
  BY DEF Rests
<1> DEFINE n == Min({WriteLen, Len(p)})
<1>2. n \in 1 .. Len(p)
  <2>1. Len(p) \in Nat \ {0} /\ WriteLen \in Nat \ {0}
    BY <1>1, MailAssumption
  <2> HIDE DEF p
  <2> QED BY <2>1, Least
<1>3. /\ mailbox' = [mailbox EXCEPT ![b] = @ \o SubSeq(p, 1, n)]
      /\ pending' = [pending EXCEPT ![u] = SubSeq(@, n + 1, Len(@))]
      /\ IF pending'[u] = <<>>
         THEN th' = [th EXCEPT ![u] = "command"] /\ Reply(u, Dot, "stored", <<>>, 0)
         ELSE UNCHANGED <<th, net, down, srv>>
      /\ th[u] = "store"
  BY DEF Write, Thread, Goto
<1> HIDE DEF n
<1> DEFINE w == SubSeq(p, 1, n)
<1>4. w \in Seq(Parts) /\ Len(w) = n /\ \A x \in 1 .. n : w[x] = mail[j + x - 1]
  <2>1. p \in Seq(Parts)
    BY <1>0 DEF Items
  <2> HIDE DEF p
  <2>2. w \in Seq(Parts) /\ Len(w) = n /\ \A x \in 1 .. n : w[x] = p[x]
    BY <1>2, <2>1
  <2>3. \A x \in 1 .. n : x \in 1 .. Len(p)
    BY <1>1, <1>2
  <2> QED BY <1>12, <2>2, <2>3 DEF p
<1>5. mailbox'[b] = f \o w /\ \A c \in Boxes \ {b} : mailbox'[c] = mailbox[c]
  BY <1>0, <1>3
<1> HIDE DEF w
<1>6. /\ f \o w \in Seq(Parts) /\ Len(f \o w) = Len(f) + n /\ Len(f) \in Nat
      /\ \A i \in 1 .. Len(f) : (f \o w)[i] = f[i]
      /\ \A x \in 1 .. n : (f \o w)[Len(f) + x] = w[x]
  <2>1. f \in Seq(Parts)
    BY <1>0 DEF Items
  <2> HIDE DEF f
  <2>2. /\ f \o w \in Seq(Parts) /\ Len(f \o w) = Len(f) + Len(w)
        /\ \A i \in 1 .. Len(f) + Len(w) :
             (f \o w)[i] = IF i <= Len(f) THEN f[i] ELSE w[i - Len(f)]
    BY <1>4, <2>1, ConcatProperties
  <2>3. Len(f) \in Nat /\ n \in Nat
    BY <1>1, <1>2, <2>1
  <2>4. \A x \in 1 .. n : /\ Len(f) + x \in 1 .. Len(f) + n /\ ~ (Len(f) + x <= Len(f))
                          /\ Len(f) + x - Len(f) = x
    BY <2>3
  <2> QED BY <1>4, <2>2, <2>3, <2>4
<1>7. /\ n \in Nat \ {0} /\ j + n - 1 <= Len(mail)
      /\ j + n - 1 = Len(mail) <=> n = Len(p)
  BY <1>1, <1>2
<1>8. /\ n = Len(p) => pending'[u] = <<>>
      /\ n # Len(p) => pending'[u] # <<>> /\ pending'[u] = SubSeq(mail, j + n, Len(mail))
  <2>1. pending'[u] = SubSeq(p, n + 1, Len(p))
    BY <1>0, <1>3
  <2>2. p \in Seq(Parts)
    BY <1>0, <1>1 DEF Items
  <2> HIDE DEF p
  <2>3. n = Len(p) => SubSeq(p, n + 1, Len(p)) = <<>>
    BY <1>2, <2>2
  <2>4. CASE n # Len(p)
    <3> DEFINE s == SubSeq(p, n + 1, Len(p))
               t == SubSeq(mail, j + n, Len(mail))
    <3>1. s \in Seq(Parts) /\ Len(s) = Len(p) - n /\ \A i \in 1 .. Len(p) - n : s[i] = p[i + n]
      BY <1>2, <2>2, Taken
    <3>2. t \in Seq(Parts) /\ Len(t) = Len(mail) - (j + n) + 1
          /\ \A i \in 1 .. Len(mail) - (j + n) + 1 : t[i] = mail[j + n + i - 1]
      <4>1. j + n \in Nat \ {0} /\ j + n <= Len(mail) + 1
        BY <1>1, <1>2
      <4> QED BY <1>1, <4>1, Suffix
    <3> HIDE DEF s, t
    <3>3. Len(s) = Len(t) /\ Len(s) >= 1
      <4>1. Len(p) - n = Len(mail) - (j + n) + 1 /\ Len(p) - n >= 1
        BY <1>1, <1>2, <2>4
      <4> QED BY <3>1, <3>2, <4>1
    <3>4. \A i \in 1 .. Len(s) : s[i] = t[i]
      <4> SUFFICES ASSUME NEW i \in 1 .. Len(s) PROVE s[i] = t[i]
        OBVIOUS
      <4>1. s[i] = p[i + n] /\ i + n \in 1 .. Len(p)
        BY <1>1, <1>2, <2>4, <3>1
      <4>2. p[i + n] = mail[j + (i + n) - 1]
        BY <1>12, <4>1
      <4>3. t[i] = mail[j + n + i - 1] /\ j + n + i - 1 = j + (i + n) - 1
        BY <1>1, <1>2, <3>2, <3>3
      <4> QED BY <4>1, <4>2, <4>3
    <3>5. s = t
      BY <3>1, <3>2, <3>3, <3>4, SeqEqual
    <3>6. s # <<>>
      BY <3>3
    <3> QED BY <2>1, <2>4, <3>5, <3>6 DEF s, t
  <2> QED BY <2>1, <2>3, <2>4
<1>9. /\ mailbox'[b] \in Items /\ Len(mailbox'[b]) = Len(mailbox[b]) + n
      /\ \A i \in 1 .. Len(mailbox[b]) : mailbox'[b][i] = mailbox[b][i]
      /\ \A x \in 1 .. n : mailbox'[b][Len(mailbox[b]) + x] = mail[j + x - 1]
  BY <1>4, <1>5, <1>6 DEF Items
<1>10. CASE n = Len(p)
  <2>1. th'[u] = "command" /\ Reply(u, Dot, "stored", <<>>, 0)
    BY <1>0, <1>3, <1>8, <1>10
  <2>2. Written(u, mail, j, n)
    BY <1>5, <1>7, <1>8, <1>9, <1>10, <2>1 DEF Written, RestOf
  <2> QED BY <2>2
<1>11. CASE n # Len(p)
  <2>1. th'[u] = "store" /\ UNCHANGED <<net, down, srv>>
    BY <1>3, <1>8, <1>11
  <2>2. j + n - 1 < Len(mail)
    BY <1>1, <1>7, <1>11
  <2>3. Written(u, mail, j, n)
    BY <1>5, <1>7, <1>8, <1>9, <1>11, <2>1, <2>2 DEF Written, RestOf
  <2> QED BY <2>3
<1> QED BY <1>10, <1>11

(* What a write() does, for the mail it is of and what of it is written.   *)
Wrote(u, b, k, text, j, n) ==
  /\ b = recipient[u] /\ b \in Boxes /\ At(u, k, text, j) /\ Written(u, Mail(u, k, text), j, n)
  /\ k \in Nat \ {0} /\ text \in Seq(Nat) /\ j \in Nat \ {0}
  /\ Begun(u) <=> j # 1
  /\ th[u] = "store" /\ u \notin astray \ cut /\ srv = "up"
  /\ up[u] = <<>> \/ Head(up[u]).cmd # "data"
  /\ UNCHANGED <<recipient, message, composed, up, astray, cut, cl, asked>>
  /\ torn' = IF \E v \in Users \ {u} : recipient[v] = b /\ Begun(v) THEN torn \cup {b} ELSE torn

LEMMA WriteShape ==
  ASSUME IInv, WriterPart, WritersAgree, NEW u \in Users, Write(u)
  PROVE  \E b, k, text, j, n : Wrote(u, b, k, text, j, n)
<1>0. TypeOK /\ Session(u)
  BY DEF IInv, InStep
<1>1. /\ th[u] = "store" /\ srv = "up"
      /\ UNCHANGED <<recipient, message, composed, up, astray, cut, cl, asked>>
      /\ torn' = IF \E v \in Users \ {u} : recipient[v] = recipient[u] /\ Begun(v)
                 THEN torn \cup {recipient[u]} ELSE torn
  BY DEF Write, Thread, ByThread, userVars
<1>2. u \notin astray \ cut /\ (up[u] = <<>> \/ Head(up[u]).cmd # "data")
  <2>1. u \notin astray \ cut /\ (up[u] = <<>> \/ OnlyText(up[u]))
    BY <1>0, <1>1 DEF Session, StreamPart, AstrayPart
  <2>2. up[u] \in Seq(Requests)
    BY <1>0 DEF TypeOK
  <2> QED BY <2>1, <2>2 DEF OnlyText
<1>3. PICK b : b = recipient[u]
  OBVIOUS
<1>4. b \in Boxes
  <2>1. recipient[u] \in Boxes \cup {None} /\ recipient[u] # None
    BY <1>0, <1>1 DEF TypeOK, WriterPart
  <2> QED BY <1>3, <2>1
<1>5. PICK k \in Nat \ {0}, text \in Seq(Nat), j \in Nat \ {0} : At(u, k, text, j)
  <2>1. MessagePart(u) /\ BegunPart(u)
    BY DEF WritersAgree
  <2> QED BY <1>0, <1>1, <1>3, <1>4, <2>1, Placed
<1> DEFINE mail == Mail(u, k, text)
<1>6. Whole(mail) /\ j <= Len(mail) /\ pending[u] = RestOf(mail, j)
  <2>1. Whole(mail) /\ Len(mail) \in Nat
    BY MailKinds DEF Whole
  <2>2. j \in 1 .. Len(mail) /\ pending[u] = RestOf(mail, j)
    BY <1>5 DEF At
  <2> QED BY <2>1, <2>2
<1> HIDE DEF mail
<1>7. PICK rest : rest = pending[u]
  OBVIOUS
<1>8. Rests(rest, mail, j) /\ rest # <<>> /\ (Head(rest).kind # "start" <=> j # 1)
  BY <1>6, <1>7, RestParts
<1>9. Begun(u) <=> j # 1
  BY <1>7, <1>8 DEF Begun
<1>10. PICK n : Written(u, mail, j, n)
  <2>1. mail \in Items /\ recipient[u] \in Boxes /\ Rests(pending[u], mail, j)
    BY <1>3, <1>4, <1>6, <1>7, <1>8 DEF Whole
  <2> QED BY <1>0, <1>6, <2>1, WriteSteps
<1>11. Wrote(u, b, k, text, j, n)
  BY <1>1, <1>2, <1>3, <1>4, <1>5, <1>9, <1>10 DEF Wrote, mail
<1> QED BY <1>11

(* Where the mail begins in the file, or will.                             *)
BeginsAt(b, i, j) == i = Len(mailbox[b]) - j + 2

(* The mail is where it was begun, and what is left of it is its rest.     *)
LEMMA WriteMail ==
  ASSUME TypeOK, TypeOK', NEW u \in Users, NEW b, NEW k, NEW text, NEW j, NEW n,
         Wrote(u, b, k, text, j, n), b \notin torn', NEW i, BeginsAt(b, i, j)
  PROVE  /\ i \in Mails(b)' /\ mailbox'[b][i] = Part("start", u, k)
         /\ i \in 1 .. Len(mailbox[b]) + 1 /\ (i = Len(mailbox[b]) + 1 <=> j = 1)
         /\ Holds(mailbox'[b], i, Mail(u, k, text))
         /\ \/ /\ i + Len(Mail(u, k, text)) - 1 <= Len(mailbox'[b]) /\ th'[u] = "command"
               /\ pending'[u] = <<>> /\ Reply(u, Dot, "stored", <<>>, 0)
            \/ /\ Unfinished(b, i, u, Mail(u, k, text))' /\ net' = net /\ down' = down
<1> DEFINE mail == Mail(u, k, text)
           M == Len(mailbox[b])
<1>0. /\ b = recipient[u] /\ b \in Boxes /\ recipient' = recipient /\ composed' = composed
      /\ k \in Nat \ {0} /\ text \in Seq(Nat) /\ j \in Nat \ {0} /\ b \notin torn
  BY DEF Wrote
<1>1. Whole(mail) /\ Len(mail) \in Nat /\ mail[1] = Part("start", u, k) /\ DOMAIN mail = 1 .. Len(mail)
  <2>1. Whole(mail) /\ Len(mail) \in Nat /\ mail[1] = Part("start", u, k)
    BY <1>0, MailKinds DEF Whole
  <2>2. DOMAIN mail = 1 .. Len(mail)
    BY <1>0, MailParts
  <2> QED BY <2>1, <2>2
<1>2. /\ k = Len(composed[u]) /\ j \in 1 .. Len(mail)
      /\ j <= M + 1 /\ Holds(mailbox[b], i, mail)
      /\ j # 1 => mailbox[b][i] = Part("start", u, k)
  BY <1>0 DEF Wrote, At, BeginsAt
<1>3. /\ n \in Nat \ {0} /\ j + n - 1 <= Len(mail)
      /\ Len(mailbox'[b]) = M + n
      /\ \A x \in 1 .. M : mailbox'[b][x] = mailbox[b][x]
      /\ \A x \in 1 .. n : mailbox'[b][M + x] = mail[j + x - 1]
      /\ \/ /\ j + n - 1 = Len(mail) /\ pending'[u] = <<>> /\ th'[u] = "command"
            /\ Reply(u, Dot, "stored", <<>>, 0)
         \/ /\ j + n - 1 < Len(mail) /\ pending'[u] = RestOf(mail, j + n)
            /\ th'[u] = "store" /\ UNCHANGED <<net, down, srv>>
  BY <1>0 DEF Wrote, Written
<1>4. /\ mailbox[b] \in Seq(Parts) /\ M \in Nat /\ DOMAIN mailbox[b] = 1 .. M
      /\ mailbox'[b] \in Seq(Parts) /\ DOMAIN mailbox'[b] = 1 .. M + n
  <2>1. \A s \in Seq(Parts) : Len(s) \in Nat /\ DOMAIN s = 1 .. Len(s)
    OBVIOUS
  <2>2. mailbox[b] \in Seq(Parts) /\ mailbox'[b] \in Seq(Parts)
    BY <1>0 DEF TypeOK, Items
  <2>3. Len(mailbox'[b]) = M + n
    BY <1>3
  <2> QED BY <2>1, <2>2, <2>3
<1> HIDE DEF mail, M
<1>5. i = M - j + 2
  BY DEF M, BeginsAt
<1>12. n \in Nat \ {0} /\ M \in Nat /\ j \in Nat \ {0} /\ i = M - j + 2
  BY <1>0, <1>3, <1>4, <1>5
<1>6. i \in 1 .. M + 1 /\ (i = M + 1 <=> j = 1)
  BY <1>0, <1>2, <1>4, <1>5
<1>7. mailbox'[b][i] = Part("start", u, k)
  <2>1. CASE j = 1
    <3>1. i = M + 1 /\ 1 \in 1 .. n /\ j + 1 - 1 = 1
      BY <1>3, <1>6, <2>1
    <3> QED BY <1>1, <1>3, <3>1
  <2>2. CASE j # 1
    BY <1>2, <1>3, <1>4, <1>6, <2>2
  <2> QED BY <2>1, <2>2
<1>8. i \in Mails(b)'
  <2>1. i \in 1 .. M + n
    BY <1>3, <1>4, <1>6
  <2> QED BY <1>3, <1>7, <2>1 DEF Mails, Starts, Part
<1>9. Holds(mailbox'[b], i, mail)
  <2> SUFFICES ASSUME NEW x \in 1 .. Len(mail), i + x - 1 \in 1 .. M + n
               PROVE  mailbox'[b][i + x - 1] = mail[x]
    BY <1>1, <1>4 DEF Holds
  <2>1. CASE i + x - 1 <= M
    <3>1. i + x - 1 \in 1 .. M
      BY <1>4, <1>6, <2>1
    <3>2. mailbox[b][i + x - 1] = mail[x]
      BY <1>1, <1>2, <1>4, <3>1 DEF Holds
    <3> QED BY <1>3, <3>1, <3>2
  <2>2. CASE ~ (i + x - 1 <= M)
    <3> DEFINE y == i + x - 1 - M
    <3>1. y \in 1 .. n /\ M + y = i + x - 1 /\ j + y - 1 = x
      <4>1. i + x - 1 <= M + n /\ i + x - 1 > M /\ i \in Nat /\ x \in Nat
        BY <1>1, <1>6, <1>12, <2>2
      <4> QED BY <1>12, <4>1
    <3> HIDE DEF y
    <3> QED BY <1>3, <3>1
  <2> QED BY <2>1, <2>2
<1>10. CASE /\ j + n - 1 = Len(mail) /\ pending'[u] = <<>> /\ th'[u] = "command"
            /\ Reply(u, Dot, "stored", <<>>, 0)
  <2>1. i + Len(mail) - 1 <= Len(mailbox'[b])
    BY <1>0, <1>1, <1>3, <1>4, <1>5, <1>10
  <2> QED BY <1>6, <1>7, <1>8, <1>9, <1>10, <2>1 DEF mail, M
<1>11. CASE /\ j + n - 1 < Len(mail) /\ pending'[u] = RestOf(mail, j + n)
            /\ th'[u] = "store" /\ UNCHANGED <<net, down, srv>>
  <2>1. Len(mailbox'[b]) - i + 2 = j + n
    <3>1. Len(mailbox'[b]) = M + n
      BY <1>3
    <3> QED BY <1>12, <3>1
  <2>2. pending'[u] = SubSeq(mail, Len(mailbox'[b]) - i + 2, Len(mail))
    BY <1>11, <2>1 DEF RestOf
  <2>3. Begun(u)'
    <3>1. PICK rest : rest = pending'[u]
      OBVIOUS
    <3>2. rest # <<>> /\ Head(rest).kind # "start"
      <4>1. j + n \in Nat \ {0} /\ j + n <= Len(mail) /\ j + n # 1
        BY <1>0, <1>1, <1>3, <1>11
      <4> QED BY <1>1, <1>11, <3>1, <4>1, RestParts
    <3> QED BY <3>1, <3>2 DEF Begun
  <2>4. Unfinished(b, i, u, mail)'
    <3>1. mail' = mail
      BY DEF mail
    <3> QED BY <1>0, <1>2, <1>7, <1>11, <2>2, <2>3 DEF Unfinished, mail
  <2> QED BY <1>6, <1>7, <1>8, <1>9, <1>11, <2>4 DEF mail, M
<1> QED BY <1>3, <1>10, <1>11

(* Files grow; a mail begins where its first part is written.              *)
Grows(file, new) ==
  /\ file \in Items /\ new \in Items /\ Len(file) \in Nat /\ Len(new) \in Nat
  /\ Len(file) <= Len(new) /\ \A i \in 1 .. Len(file) : new[i] = file[i]

LEMMA WriteGrows ==
  ASSUME TypeOK, TypeOK', NEW u \in Users, NEW b, NEW k, NEW text, NEW j, NEW n,
         Wrote(u, b, k, text, j, n), NEW c \in Boxes
  PROVE  /\ Grows(mailbox[c], mailbox'[c]) /\ (c # b => mailbox'[c] = mailbox[c])
         /\ Mails(c) \subseteq Mails(c)'
         /\ \A i \in Mails(c)' : i \in Mails(c) \/ (c = b /\ j = 1 /\ i = Len(mailbox[b]) + 1)
<1>0. /\ b = recipient[u] /\ b \in Boxes
      /\ k \in Nat \ {0} /\ text \in Seq(Nat) /\ j \in Nat \ {0}
      /\ Written(u, Mail(u, k, text), j, n)
  BY DEF Wrote
<1>1. /\ mailbox[c] \in Items /\ mailbox'[c] \in Items
      /\ Len(mailbox[c]) \in Nat /\ Len(mailbox'[c]) \in Nat
  <2>1. mailbox[c] \in Items /\ mailbox'[c] \in Items
    BY DEF TypeOK
  <2>2. \A s \in Items : Len(s) \in Nat
    BY DEF Items
  <2> QED BY <2>1, <2>2
<1>2. CASE c # b
  <2>1. mailbox'[c] = mailbox[c]
    BY <1>0, <1>2 DEF Written
  <2> QED BY <1>1, <1>2, <2>1 DEF Grows, Mails, Starts
<1>3. CASE c = b
  <2> DEFINE M == Len(mailbox[b])
             mail == Mail(u, k, text)
  <2>1. /\ n \in Nat \ {0} /\ j + n - 1 <= Len(mail) /\ Len(mailbox'[b]) = M + n
        /\ \A i \in 1 .. M : mailbox'[b][i] = mailbox[b][i]
        /\ \A x \in 1 .. n : mailbox'[b][M + x] = mail[j + x - 1]
    BY <1>0 DEF Written
  <2>2. Whole(mail) /\ Len(mail) \in Nat
    BY <1>0, MailKinds DEF Whole
  <2>3. M \in Nat
    BY <1>1, <1>3
  <2> HIDE DEF M, mail
  <2>4. Grows(mailbox[c], mailbox'[c])
    BY <1>1, <1>3, <2>1, <2>3 DEF Grows, M
  <2>5. Mails(c) \subseteq Mails(c)'
    BY <1>3, <2>1, <2>3 DEF Mails, Starts, M
  <2>6. ASSUME NEW i \in Mails(c)', i \notin Mails(c)
        PROVE  j = 1 /\ i = M + 1
    <3>1. i \in 1 .. M + n /\ mailbox'[b][i].kind = "start"
      BY <1>3, <2>1 DEF Mails, Starts
    <3>2. i \notin 1 .. M
      BY <1>3, <2>1, <2>6, <3>1 DEF Mails, Starts, M
    <3> DEFINE x == i - M
    <3>3. x \in 1 .. n /\ M + x = i /\ j + x - 1 \in 1 .. Len(mail)
      BY <1>0, <2>1, <2>2, <2>3, <3>1, <3>2
    <3>4. mail[j + x - 1].kind = "start"
      BY <2>1, <3>1, <3>3
    <3> HIDE DEF x
    <3>5. j + x - 1 \notin 2 .. Len(mail)
      BY <2>2, <3>4 DEF Whole
    <3>6. j + x - 1 = 1
      BY <2>2, <3>3, <3>5
    <3> QED BY <1>0, <2>3, <3>3, <3>6
  <2> QED BY <1>3, <2>4, <2>5, <2>6 DEF M
<1> QED BY <1>2, <1>3

LEMMA WriteStamp ==
  ASSUME IInv, TypeOK', WritersAgree, NEW u \in Users, Aside(u),
         NEW b, NEW k, NEW text, NEW j, NEW n, Wrote(u, b, k, text, j, n)
  PROVE  StampPart'
<1>0. /\ b = recipient[u] /\ b \in Boxes /\ TypeOK /\ composed' = composed
      /\ k \in Nat \ {0} /\ k = Len(composed[u]) /\ text \in Seq(Nat) /\ j \in Nat \ {0}
      /\ Written(u, Mail(u, k, text), j, n) /\ (Begun(u) <=> j # 1)
      /\ th[u] = "store" /\ u \notin astray' \ cut'
      /\ up'[u] = <<>> \/ Head(up'[u]).cmd # "data"
  BY DEF IInv, Wrote, At
<1>1. ~ Unstored(u)'
  <2>1. CASE th'[u] = "command"
    BY <1>0, <2>1 DEF Unstored, Asks
  <2>2. CASE th'[u] # "command"
    <3> DEFINE mail == Mail(u, k, text)
    <3>1. /\ th'[u] = "store" /\ pending'[u] = RestOf(mail, j + n) /\ j + n - 1 < Len(mail)
          /\ n \in Nat \ {0}
      BY <1>0, <2>2 DEF Written
    <3>2. Whole(mail) /\ Len(mail) \in Nat
      BY <1>0, MailKinds DEF Whole
    <3> HIDE DEF mail
    <3>3. PICK rest : rest = pending'[u]
      OBVIOUS
    <3>4. rest # <<>> /\ Head(rest).kind # "start"
      <4>1. j + n \in Nat \ {0} /\ j + n <= Len(mail) /\ j + n # 1
        BY <1>0, <3>1, <3>2
      <4> QED BY <3>1, <3>2, <3>3, <4>1, RestParts
    <3>5. Begun(u)'
      BY <3>3, <3>4 DEF Begun
    <3> QED BY <1>0, <3>1, <3>5 DEF Unstored, Asks
  <2> QED BY <2>1, <2>2
<1>2. \A v \in Users \ {u} : Unstored(v)' <=> Unstored(v)
  BY DEF Unstored, Asks, Begun, Aside, Frame
<1>3. j = 1 => Unstored(u)
  BY <1>0 DEF Unstored
<1>4. StampPart
  BY DEF WritersAgree
<1>5. ASSUME NEW c \in Boxes, NEW i \in Mails(c)'
      PROVE  \/ i \in Mails(c) /\ mailbox'[c][i] = mailbox[c][i]
             \/ /\ c = b /\ j = 1 /\ i = Len(mailbox[b]) + 1
                /\ mailbox'[c][i] = Part("start", u, k)
  <2>1. i \in Mails(c) \/ (c = b /\ j = 1 /\ i = Len(mailbox[b]) + 1)
    BY <1>0, WriteGrows
  <2>2. CASE i \in Mails(c)
    <3>1. Grows(mailbox[c], mailbox'[c])
      BY <1>0, WriteGrows
    <3>2. i \in 1 .. Len(mailbox[c])
      BY <2>2 DEF Mails, Starts
    <3> QED BY <2>2, <3>1, <3>2 DEF Grows
  <2>3. CASE c = b /\ j = 1 /\ i = Len(mailbox[b]) + 1
    <3> DEFINE mail == Mail(u, k, text)
    <3>1. /\ n \in Nat \ {0} /\ mail[1] = Part("start", u, k)
          /\ \A x \in 1 .. n : mailbox'[b][Len(mailbox[b]) + x] = mail[j + x - 1]
      BY <1>0, MailKinds DEF Written
    <3> HIDE DEF mail
    <3>2. 1 \in 1 .. n /\ j + 1 - 1 = 1
      BY <2>3, <3>1
    <3> QED BY <2>3, <3>1, <3>2
  <2> QED BY <2>1, <2>2, <2>3
<1>6. Part("start", u, k).from = u /\ Part("start", u, k).n = k
  BY DEF Part
<1>7. ASSUME NEW c \in Boxes, NEW i \in Mails(c)', NEW v, NEW m,
             v = mailbox'[c][i].from, m = mailbox'[c][i].n
      PROVE  m \in 1 .. Len(composed'[v]) /\ (Unstored(v)' => m # Len(composed'[v]))
  <2>1. CASE i \in Mails(c) /\ mailbox'[c][i] = mailbox[c][i]
    <3>1. v = mailbox[c][i].from /\ m = mailbox[c][i].n
      BY <1>7, <2>1
    <3>2. v \in Users
      BY <1>0, <2>1, <3>1, MailsTyped
    <3>3. m \in 1 .. Len(composed[v]) /\ (Unstored(v) => m # Len(composed[v]))
      BY <1>4, <2>1, <3>1 DEF StampPart
    <3>4. Unstored(v)' => Unstored(v)
      BY <1>1, <1>2, <3>2
    <3> QED BY <1>0, <3>3, <3>4
  <2>2. CASE mailbox'[c][i] = Part("start", u, k)
    <3>1. v = u /\ m = k
      BY <1>6, <1>7, <2>2
    <3>2. k \in 1 .. k
      BY <1>0
    <3> QED BY <1>0, <1>1, <3>1, <3>2
  <2> QED BY <1>5, <2>1, <2>2
<1>8. ASSUME NEW c \in Boxes, NEW i \in Mails(c), mailbox[c][i] = Part("start", u, k)
      PROVE  j # 1
  BY <1>0, <1>3, <1>4, <1>6, <1>8 DEF StampPart
<1>9. ASSUME NEW c \in Boxes, NEW d \in Boxes, NEW i \in Mails(c)', NEW l \in Mails(d)',
             mailbox'[c][i] = mailbox'[d][l]
      PROVE  c = d /\ i = l
  <2>1. CASE i \in Mails(c) /\ mailbox'[c][i] = mailbox[c][i]
    <3>1. CASE l \in Mails(d) /\ mailbox'[d][l] = mailbox[d][l]
      <4>1. mailbox[c][i] = mailbox[d][l]
        BY <1>9, <2>1, <3>1
      <4>2. \A e, g \in Boxes : \A x \in Mails(e), y \in Mails(g) :
              mailbox[e][x] = mailbox[g][y] => e = g /\ x = y
        BY <1>4 DEF StampPart
      <4> QED BY <2>1, <3>1, <4>1, <4>2
    <3>2. CASE j = 1 /\ mailbox'[d][l] = Part("start", u, k)
      BY <1>8, <1>9, <2>1, <3>2
    <3> QED BY <1>5, <3>1, <3>2
  <2>2. CASE c = b /\ j = 1 /\ i = Len(mailbox[b]) + 1 /\ mailbox'[c][i] = Part("start", u, k)
    <3>1. ~ (l \in Mails(d) /\ mailbox'[d][l] = mailbox[d][l])
      BY <1>8, <1>9, <2>2
    <3>2. d = b /\ l = Len(mailbox[b]) + 1
      BY <1>5, <3>1
    <3> QED BY <2>2, <3>2
  <2> QED BY <1>5, <2>1, <2>2
<1>10. \A c \in Boxes : \A i \in Mails(c)' :
         LET start == mailbox'[c][i] IN
         /\ start.n \in 1 .. Len(composed'[start.from])
         /\ \A v : v = start.from => (Unstored(v)' => start.n # Len(composed'[v]))
  BY <1>7
<1> QED BY <1>9, <1>10 DEF StampPart

LEMMA WriteContent ==
  ASSUME IInv, TypeOK', WritersAgree, NEW u \in Users, Aside(u),
         NEW b, NEW k, NEW text, NEW j, NEW n, Wrote(u, b, k, text, j, n)
  PROVE  ContentPart'
<1>0. /\ b = recipient[u] /\ b \in Boxes /\ TypeOK /\ composed' = composed /\ recipient' = recipient
      /\ k \in Nat \ {0} /\ k = Len(composed[u]) /\ composed[u] # <<>>
      /\ Typed(u).box = b /\ text \in Arrivals(Typed(u).text)
      /\ th[u] = "store" /\ (Begun(u) <=> j # 1) /\ j \in Nat \ {0}
      /\ torn' = IF \E v \in Users \ {u} : recipient[v] = b /\ Begun(v) THEN torn \cup {b} ELSE torn
  BY DEF IInv, Wrote, At
<1>1. Typed(u) = composed[u][k]
  BY <1>0, TextTyped
<1>2. Part("start", u, k).from = u /\ Part("start", u, k).n = k
  BY DEF Part
<1> SUFFICES ASSUME NEW c \in Boxes \ torn', NEW i \in Mails(c)'
             PROVE  (LET start == mailbox[c][i]
                         m     == composed[start.from][start.n]
                     IN  /\ m.box = c
                         /\ \E t \in Arrivals(m.text) :
                              LET mail == Mail(start.from, start.n, t) IN
                              /\ Holds(mailbox[c], i, mail)
                              /\ \/ i + Len(mail) - 1 <= Len(mailbox[c])
                                 \/ Unfinished(c, i, start.from, mail))'
  BY DEF ContentPart
<1>3. c \notin torn
  BY <1>0
<1>4. CASE c = b /\ mailbox'[c][i] = Part("start", u, k)
  <2>1. PICK l : BeginsAt(b, l, j)
    BY DEF BeginsAt
  <2>2. /\ l \in Mails(b)' /\ mailbox'[b][l] = Part("start", u, k)
        /\ Holds(mailbox'[b], l, Mail(u, k, text))
        /\ \/ l + Len(Mail(u, k, text)) - 1 <= Len(mailbox'[b])
           \/ Unfinished(b, l, u, Mail(u, k, text))'
    BY <1>0, <1>4, <2>1, WriteMail
  <2>3. i = l
    BY <1>0, <1>4, <2>2, WriteStamp DEF StampPart
  <2> QED BY <1>0, <1>1, <1>2, <1>4, <2>2, <2>3
<1>5. CASE i \in Mails(c) /\ mailbox'[c][i] # Part("start", u, k)
  <2>1. /\ Grows(mailbox[c], mailbox'[c]) /\ (c # b => mailbox'[c] = mailbox[c])
        /\ i \in 1 .. Len(mailbox[c])
    BY <1>0, <1>5, WriteGrows DEF Mails, Starts
  <2>2. PICK v, m : v = mailbox[c][i].from /\ m = mailbox[c][i].n
    OBVIOUS
  <2>3. v \in Users /\ mailbox[c][i] = Part("start", v, m) /\ mailbox'[c][i] = mailbox[c][i] /\ m \in Nat
    BY <1>0, <1>5, <2>1, <2>2, MailsTyped DEF Grows
  <2>4. PICK t : /\ composed[v][m].box = c /\ t \in Arrivals(composed[v][m].text)
                 /\ Holds(mailbox[c], i, Mail(v, m, t))
                 /\ \/ i + Len(Mail(v, m, t)) - 1 <= Len(mailbox[c])
                    \/ Unfinished(c, i, v, Mail(v, m, t))
    BY <1>3, <1>5, <2>2 DEF WritersAgree, ContentPart
  <2>5. m \in 1 .. Len(composed[v])
    BY <1>5, <2>2 DEF WritersAgree, StampPart
  <2>6. t \in Seq(Nat)
    <3>1. composed[v] \in Seq(Messages)
      BY <1>0, <2>3 DEF TypeOK
    <3>2. composed[v][m] \in Messages
      BY <2>5, <3>1, ElementOfSeq
    <3>3. composed[v][m].text \in Seq(1 .. MaxLines)
      BY <3>2 DEF Messages
    <3> QED BY <2>4, <3>3, ArrivalsTyped
  <2>7. PICK mail : mail = Mail(v, m, t)
    OBVIOUS
  <2>8. DOMAIN mail = 1 .. Len(mail) /\ Len(mail) \in Nat
    <3>1. DOMAIN Mail(v, m, t) = 1 .. Len(Mail(v, m, t)) /\ Len(Mail(v, m, t)) \in Nat
      <4>1. /\ DOMAIN Mail(v, m, t) = 1 .. Len(t) + 2 /\ Len(Mail(v, m, t)) = Len(t) + 2
            /\ Len(t) \in Nat
        BY <2>3, <2>6, MailParts
      <4> QED BY <4>1
    <3> QED BY <2>7, <3>1
  <2>9. CASE i + Len(mail) - 1 <= Len(mailbox[c])
    <3>1. Holds(mailbox'[c], i, mail) /\ i + Len(mail) - 1 <= Len(mailbox'[c])
      <4>1. \A x \in 1 .. Len(mail) : i + x - 1 \in 1 .. Len(mailbox[c])
        BY <2>1, <2>8, <2>9 DEF Grows
      <4>2. DOMAIN mailbox[c] = 1 .. Len(mailbox[c])
        BY <2>1 DEF Grows, Items
      <4>3. Holds(mailbox'[c], i, mail)
        BY <2>1, <2>4, <2>7, <2>8, <4>1, <4>2 DEF Holds, Grows
      <4> QED BY <2>1, <2>8, <2>9, <4>3 DEF Grows
    <3> QED BY <1>0, <2>2, <2>3, <2>4, <2>7, <3>1
  <2>10. CASE Unfinished(c, i, v, mail)
    <3>1. v # u
      <4>1. v = u => mailbox[c][i] = Part("start", u, k)
        BY <1>0, <2>10 DEF Unfinished
      <4> QED BY <1>5, <2>3, <4>1
    <3>2. recipient[v] = c /\ Begun(v)
      BY <2>10 DEF Unfinished
    <3>3. c # b
      BY <1>0, <2>3, <3>1, <3>2
    <3>4. mailbox'[c] = mailbox[c]
      BY <2>1, <3>3
    <3>5. th'[v] = th[v] /\ pending'[v] = pending[v] /\ recipient'[v] = recipient[v]
      BY <2>3, <3>1 DEF Aside, Frame
    <3>6. Unfinished(c, i, v, mail)'
      BY <1>0, <2>10, <3>4, <3>5 DEF Unfinished, Begun
    <3> QED BY <1>0, <2>2, <2>3, <2>4, <2>7, <3>4, <3>6
  <2> QED BY <2>4, <2>7, <2>9, <2>10
<1>6. i \in Mails(c) \/ (c = b /\ j = 1 /\ i = Len(mailbox[b]) + 1)
  BY <1>0, WriteGrows
<1>7. CASE i \in Mails(c) /\ mailbox'[c][i] = Part("start", u, k) /\ c # b
  <2>1. mailbox'[c][i] = mailbox[c][i]
    BY <1>0, <1>7, WriteGrows
  <2>2. composed[u][k].box = c
    BY <1>2, <1>3, <1>7, <2>1 DEF WritersAgree, ContentPart
  <2> QED BY <1>0, <1>1, <1>7, <2>2
<1>8. CASE c = b /\ j = 1 /\ i = Len(mailbox[b]) + 1
  <2>1. BeginsAt(b, i, j)
    <3>1. Len(mailbox[b]) \in Nat
      BY <1>0 DEF TypeOK, Items
    <3> QED BY <1>8, <3>1 DEF BeginsAt
  <2>2. mailbox'[b][i] = Part("start", u, k)
    BY <1>0, <1>8, <2>1, WriteMail
  <2> QED BY <1>4, <1>8, <2>2
<1> QED BY <1>4, <1>5, <1>6, <1>7, <1>8

LEMMA WriteMessage ==
  ASSUME IInv, TypeOK', WritersAgree, NEW u \in Users, Aside(u),
         NEW b, NEW k, NEW text, NEW j, NEW n, Wrote(u, b, k, text, j, n), NEW v \in Users
  PROVE  MessagePart(v)'
<1>0. /\ b = recipient[u] /\ composed' = composed /\ recipient' = recipient
      /\ message' = message /\ up' = up /\ (up[u] = <<>> \/ Head(up[u]).cmd # "data")
      /\ k \in Nat \ {0} /\ k = Len(composed[u]) /\ composed[u] # <<>>
      /\ Typed(u).box = b /\ text \in Arrivals(Typed(u).text)
      /\ th[u] = "store" /\ j \in Nat \ {0} /\ text \in Seq(Nat)
      /\ net[u] = "open" => text = Typed(u).text
      /\ Written(u, Mail(u, k, text), j, n)
  BY DEF IInv, Wrote, At
<1>1. MessagePart(v)
  BY DEF WritersAgree
<1>2. CASE v # u
  <2>1. /\ composed'[v] = composed[v] /\ message'[v] = message[v] /\ pending'[v] = pending[v]
        /\ recipient'[v] = recipient[v] /\ th'[v] = th[v] /\ up'[v] = up[v]
        /\ net'[v] = net[v] /\ cl'[v] = cl[v] /\ asked'[v] = asked[v]
        /\ srv' = "up" => srv = "up"
    BY <1>2 DEF Aside, Frame
  <2>2. (Asks(v)' <=> Asks(v)) /\ Typed(v)' = Typed(v)
    BY <2>1 DEF Asks, Typed
  <2> QED BY <1>1, <2>1, <2>2 DEF MessagePart, Rest
<1>3. CASE v = u
  <2> DEFINE mail == Mail(u, k, text)
  <2>1. message'[u] = <<>> /\ ~ Asks(u)' /\ Typed(u)' = Typed(u)
    BY <1>0, <1>1, <1>3 DEF MessagePart, Asks, Typed
  <2>2. CASE th'[u] = "command"
    <3>1. pending'[u] = <<>>
      BY <1>0, <2>2 DEF Written
    <3> QED BY <1>3, <2>1, <2>2, <3>1 DEF MessagePart
  <2>3. CASE th'[u] # "command"
    <3>1. /\ n \in Nat \ {0} /\ j + n - 1 < Len(mail) /\ pending'[u] = RestOf(mail, j + n)
          /\ th'[u] = "store" /\ net' = net
      BY <1>0, <2>3 DEF Written
    <3>2. Len(mail) \in Nat
      BY <1>0, MailKinds
    <3>3. mail' = mail
      BY <1>0
    <3> HIDE DEF mail
    <3>4. j + n \in 1 .. Len(mail)
      BY <1>0, <3>1, <3>2
    <3>5. Rest(u, mail)'
      <4>1. pending'[u] = SubSeq(mail, j + n, Len(mail))
        BY <3>1 DEF RestOf
      <4> QED BY <3>3, <3>4, <4>1 DEF Rest
    <3>6. /\ text \in Arrivals(Typed(u)'.text) /\ Rest(u, Mail(u, Len(composed[u]), text))'
          /\ net'[u] = "open" => text = Typed(u)'.text
      BY <1>0, <2>1, <3>1, <3>5 DEF mail
    <3> QED BY <1>0, <1>3, <2>1, <3>1, <3>6 DEF MessagePart
  <2> QED BY <2>2, <2>3
<1> QED BY <1>2, <1>3

LEMMA WriteBegun ==
  ASSUME IInv, TypeOK', WritersAgree, WriterPart, NEW u \in Users, Aside(u),
         NEW b, NEW k, NEW text, NEW j, NEW n, Wrote(u, b, k, text, j, n), NEW v \in Users
  PROVE  BegunPart(v)'
<1>0. /\ b = recipient[u] /\ b \in Boxes /\ TypeOK /\ composed' = composed /\ recipient' = recipient
      /\ k = Len(composed[u]) /\ text \in Arrivals(Typed(u).text)
      /\ net[u] = "open" => text = Typed(u).text
      /\ torn' = IF \E w \in Users \ {u} : recipient[w] = b /\ Begun(w) THEN torn \cup {b} ELSE torn
  BY DEF IInv, Wrote, At
<1> SUFFICES ASSUME th'[v] = "store", Begun(v)', recipient'[v] \notin torn'
             PROVE  BegunPart(v)'
  BY DEF BegunPart
<1>1. CASE v = u
  <2>1. PICK i : BeginsAt(b, i, j)
    BY DEF BeginsAt
  <2>2. b \notin torn' /\ Typed(u)' = Typed(u)
    BY <1>0, <1>1 DEF Typed
  <2>3. /\ i \in Mails(b)' /\ Holds(mailbox'[b], i, Mail(u, k, text))
        /\ Unfinished(b, i, u, Mail(u, k, text))' /\ net' = net
    BY <1>0, <1>1, <2>1, <2>2, WriteMail
  <2>4. /\ i \in Mails(recipient[u])' /\ text \in Arrivals(Typed(u).text)'
        /\ Holds(mailbox[recipient[u]], i, Mail(u, Len(composed[u]), text))'
        /\ Unfinished(recipient[u], i, u, Mail(u, Len(composed[u]), text))'
        /\ net'[u] = "open" => text = Typed(u)'.text
    BY <1>0, <2>2, <2>3
  <2> QED BY <1>1, <2>4 DEF BegunPart
<1>2. CASE v # u
  <2>1. /\ composed'[v] = composed[v] /\ pending'[v] = pending[v]
        /\ recipient'[v] = recipient[v] /\ th'[v] = th[v] /\ net'[v] = net[v]
    BY <1>2 DEF Aside, Frame
  <2>2. Begun(v) /\ th[v] = "store"
    BY <2>1 DEF Begun
  <2>3. recipient[v] \notin torn /\ recipient[v] # b
    BY <1>0, <1>2, <2>1, <2>2
  <2>4. recipient[v] \in Boxes
    BY <1>0, <2>2 DEF TypeOK, WriterPart
  <2>5. mailbox'[recipient[v]] = mailbox[recipient[v]]
    BY <1>0, <2>3, <2>4, WriteGrows
  <2>6. PICK i \in Mails(recipient[v]), t \in Arrivals(Typed(v).text) :
          /\ Holds(mailbox[recipient[v]], i, Mail(v, Len(composed[v]), t))
          /\ Unfinished(recipient[v], i, v, Mail(v, Len(composed[v]), t))
          /\ net[v] = "open" => t = Typed(v).text
    BY <2>2, <2>3 DEF WritersAgree, BegunPart
  <2>7. Mails(recipient[v])' = Mails(recipient[v]) /\ Typed(v)' = Typed(v)
    BY <2>1, <2>5 DEF Mails, Starts, Typed
  <2>8. Unfinished(recipient[v], i, v, Mail(v, Len(composed[v]), t))'
    BY <2>1, <2>5, <2>6 DEF Unfinished, Begun
  <2>9. Holds(mailbox[recipient[v]], i, Mail(v, Len(composed[v]), t))'
    BY <2>1, <2>5, <2>6 DEF Holds
  <2>10. i \in Mails(recipient[v])' /\ t \in Arrivals(Typed(v).text)'
         /\ (net'[v] = "open" => t = Typed(v)'.text)
    BY <2>1, <2>6, <2>7
  <2> QED BY <2>8, <2>9, <2>10 DEF BegunPart
<1> QED BY <1>1, <1>2

(* A mail that is all in its file stays there.                             *)
LEMMA HeldStays ==
  ASSUME NEW file, NEW new, Grows(file, new), NEW i \in Nat \ {0}, NEW mail \in Items,
         HoldsAll(file, i, mail)
  PROVE  HoldsAll(new, i, mail)
<1>1. /\ DOMAIN mail = 1 .. Len(mail) /\ Len(mail) \in Nat
      /\ DOMAIN file = 1 .. Len(file) /\ DOMAIN new = 1 .. Len(new)
      /\ Len(file) \in Nat /\ Len(new) \in Nat /\ Len(file) <= Len(new)
  <2>1. \A s \in Items : DOMAIN s = 1 .. Len(s) /\ Len(s) \in Nat
    BY DEF Items
  <2> QED BY <2>1 DEF Grows
<1>2. i + Len(mail) - 1 <= Len(file) /\ Holds(file, i, mail)
  BY DEF HoldsAll
<1>3. ASSUME NEW x \in 1 .. Len(mail)
      PROVE  new[i + x - 1] = mail[x]
  <2>1. i + x - 1 \in 1 .. Len(file)
    BY <1>1, <1>2
  <2> QED BY <1>1, <1>2, <2>1 DEF Holds, Grows
<1>4. i + Len(mail) - 1 <= Len(new)
  BY <1>1, <1>2
<1> QED BY <1>1, <1>3, <1>4 DEF HoldsAll, Holds

LEMMA WriteSaid ==
  ASSUME IInv, TypeOK', WritersAgree, NEW u \in Users, Aside(u),
         NEW b, NEW k, NEW text, NEW j, NEW n, Wrote(u, b, k, text, j, n), NEW v \in Users
  PROVE  SaidPart(v)'
<1>0. /\ b = recipient[u] /\ b \in Boxes /\ TypeOK /\ composed' = composed /\ recipient' = recipient
      /\ k = Len(composed[u]) /\ composed[u] # <<>>
      /\ net[u] = "open" => text = Typed(u).text
      /\ u \notin astray \ cut /\ astray' = astray /\ cut' = cut /\ th[u] = "store"
      /\ Written(u, Mail(u, k, text), j, n)
      /\ torn' = IF \E w \in Users \ {u} : recipient[w] = b /\ Begun(w) THEN torn \cup {b} ELSE torn
  BY DEF IInv, Wrote, At
<1>1. SaidPart(v)
  BY DEF WritersAgree
<1> SUFFICES ASSUME NEW r \in Range(down'[v]), r.kind = "stored"
             PROVE  /\ r.to = Dot /\ v \notin astray' \ cut' /\ composed'[v] # <<>>
                    /\ recipient'[v] \notin torn' =>
                         \E i \in Mails(recipient[v])' :
                           HoldsAll(mailbox'[recipient'[v]], i, LastMail(v)')
  BY DEF SaidPart
<1>2. LastMail(v)' = LastMail(v)
  BY <1>0 DEF LastMail
<1>3. CASE r \in Range(down[v])
  <2>2. /\ r.to = Dot /\ v \notin astray \ cut /\ composed[v] # <<>>
        /\ recipient[v] \notin torn =>
             \E i \in Mails(recipient[v]) : HoldsAll(mailbox[recipient[v]], i, LastMail(v))
    BY <1>1, <1>3 DEF SaidPart
  <2>3. ASSUME recipient[v] \notin torn'
        PROVE  \E i \in Mails(recipient[v])' : HoldsAll(mailbox'[recipient[v]], i, LastMail(v))
    <3>1. PICK i \in Mails(recipient[v]) : HoldsAll(mailbox[recipient[v]], i, LastMail(v))
      BY <1>0, <2>2, <2>3
    <3>2. CASE recipient[v] = b
      <4>1. Grows(mailbox[b], mailbox'[b]) /\ Mails(b) \subseteq Mails(b)'
        BY <1>0, WriteGrows
      <4>2. LastMail(v) \in Items
        <5>1. Typed(v).text \in Seq(Nat) /\ Len(composed[v]) \in Nat
          BY <1>0, <2>2, TextTyped DEF Arrivals
        <5> QED BY <5>1, MailParts DEF LastMail, Typed
      <4>3. i \in Mails(b) /\ HoldsAll(mailbox[b], i, LastMail(v))
        BY <3>1, <3>2
      <4>4. i \in Nat \ {0}
        BY <1>0, <4>3, MailsTyped
      <4> DEFINE mail == LastMail(v)
                 file == mailbox[b]
                 new == mailbox'[b]
      <4>5. mail \in Items /\ Grows(file, new) /\ HoldsAll(file, i, mail)
        BY <4>1, <4>2, <4>3
      <4> HIDE DEF mail, file, new
      <4>6. HoldsAll(new, i, mail)
        BY <4>4, <4>5, HeldStays
      <4>7. HoldsAll(mailbox'[b], i, LastMail(v))
        BY <4>6 DEF mail, new
      <4>8. i \in Mails(b)'
        BY <4>1, <4>3
      <4>9. Mails(recipient[v])' = Mails(b)'
        BY <1>0, <3>2
      <4> QED BY <3>2, <4>7, <4>8, <4>9
    <3>3. CASE recipient[v] # b
      <4>1. mailbox'[recipient[v]] = mailbox[recipient[v]]
        <5>1. mailbox \in [Boxes -> Items] /\ mailbox' \in [Boxes -> Items]
          BY <1>0 DEF TypeOK
        <5>2. \A c \in Boxes \ {b} : mailbox'[c] = mailbox[c]
          BY <1>0 DEF Written
        <5> DEFINE new == mailbox'
                   last == new[b]
        <5>3. new = [mailbox EXCEPT ![b] = last]
          BY <5>1, <5>2
        <5> HIDE DEF last
        <5>4. new[recipient[v]] = mailbox[recipient[v]]
          BY <3>3, <5>1, <5>3
        <5> QED BY <5>4
      <4>2. Mails(recipient[v])' = Mails(recipient[v])
        BY <1>0, <4>1 DEF Mails, Starts
      <4> QED BY <3>1, <4>1, <4>2
    <3> QED BY <3>2, <3>3
  <2> QED BY <1>0, <1>2, <2>2, <2>3
<1>4. CASE r \notin Range(down[v])
  <2>0. v = u
    BY <1>4 DEF Aside, Frame
  <2>1. ~ r \in Range(down[u])
    BY <1>4, <2>0
  <2>2. ~ (th'[u] = "store" /\ UNCHANGED <<net, down, srv>>)
    BY <2>0, <2>1
  <2>3. th'[u] = "command" /\ Reply(u, Dot, "stored", <<>>, 0)
    BY <1>0, <2>2 DEF Written
  <2>4. r.to = Dot /\ net[u] = "open"
    <3>1. /\ Range(down'[u]) \subseteq Range(down[u])
                \cup {[to |-> Dot, kind |-> "stored", items |-> <<>>, opened |-> 0]}
          /\ down'[u] = down[u] \/ net[u] = "open"
      BY <1>0, <2>3, Added
    <3> QED BY <2>0, <2>1, <3>1
  <2>5. ASSUME b \notin torn'
        PROVE  \E i \in Mails(b)' : HoldsAll(mailbox'[b], i, LastMail(u))
    <3>1. PICK i : BeginsAt(b, i, j)
      BY DEF BeginsAt
    <3>2. /\ i \in Mails(b)' /\ Holds(mailbox'[b], i, Mail(u, k, text))
          /\ \/ i + Len(Mail(u, k, text)) - 1 <= Len(mailbox'[b])
             \/ Unfinished(b, i, u, Mail(u, k, text))'
      BY <1>0, <2>5, <3>1, WriteMail
    <3>3. ~ Unfinished(b, i, u, Mail(u, k, text))'
      BY <2>3 DEF Unfinished
    <3>4. LastMail(u) = Mail(u, k, text)
      BY <1>0, <2>4 DEF LastMail, Typed
    <3> QED BY <3>2, <3>3, <3>4 DEF HoldsAll
  <2> QED BY <1>0, <1>2, <2>0, <2>4, <2>5
<1> QED BY <1>3, <1>4

LEMMA WriteAgrees ==
  ASSUME IInv, TypeOK', WriterPart, WritersAgree, NEW u \in Users, Write(u), Aside(u)
  PROVE  WritersAgree'
<1>1. PICK b, k, text, j, n : Wrote(u, b, k, text, j, n)
  BY WriteShape
<1>2. StampPart' /\ ContentPart'
  BY <1>1, WriteStamp, WriteContent
<1>3. \A v \in Users : MessagePart(v)' /\ BegunPart(v)' /\ SaidPart(v)'
  BY <1>1, WriteMessage, WriteBegun, WriteSaid
<1> QED BY <1>2, <1>3 DEF WritersAgree

-----------------------------------------------------------------------------
(* The files agree with what was typed.                                    *)

LEMMA InitWriters ==
  ASSUME Init
  PROVE  WritersAgree
<1>1. \A b \in Boxes : mailbox[b] = <<>> /\ Mails(b) = {}
  <2> TAKE b \in Boxes
  <2>1. mailbox[b] = <<>> /\ Len(mailbox[b]) = 0
    BY DEF Init
  <2> QED BY <2>1 DEF Mails, Starts
<1>2. \A u \in Users : /\ th[u] = "none" /\ up[u] = <<>> /\ message[u] = <<>> /\ pending[u] = <<>>
                       /\ Range(down[u]) = {}
  BY DEF Init, Range
<1>3. StampPart /\ ContentPart
  BY <1>1 DEF StampPart, ContentPart
<1>4. \A u \in Users : MessagePart(u) /\ BegunPart(u) /\ SaidPart(u)
  BY <1>2 DEF MessagePart, BegunPart, SaidPart, Asks
<1> QED BY <1>3, <1>4 DEF WritersAgree

LEMMA StepKept ==
  ASSUME IInv, WriterPart, WritersAgree, NEW u \in Users, Step(u), ~ Write(u)
  PROVE  Kept(u) /\ MessagePart(u)'
<1>1. MessagePart(u) /\ SaidPart(u)
  BY DEF WritersAgree
<1>2. CASE Client(u)
  BY <1>1, <1>2, ClientStepKept, GiveKept, TypeLineKept DEF Client
<1>3. CASE Accept(u)
  BY <1>1, <1>3, AcceptKept
<1>4. CASE HandleClient(u)
  BY <1>1, <1>4, AcceptKept, CommandKept, ReadKept, StoreFailsKept, RecvLinesKept,
     RecvTailKept, RecvEndKept DEF HandleClient
<1> QED BY <1>2, <1>3, <1>4 DEF Step

LEMMA NextWriters ==
  ASSUME TypeOK, SessionsAgree, WritersAgree, [Next]_vars
  PROVE  WritersAgree'
<1>0. IInv /\ WriterPart /\ TypeOK'
  BY NextIInv DEF IInv, SessionsAgree
<1>1. CASE Next
  <2>1. PICK u \in Users : Client(u) \/ Accept(u) \/ HandleClient(u)
    BY <1>1 DEF Next
  <2>2. Step(u)
    BY <2>1 DEF Step
  <2>3. Aside(u)
    BY <1>0, <2>2, StepAside
  <2>4. CASE Write(u)
    BY <1>0, <2>3, <2>4, WriteAgrees
  <2>5. CASE ~ Write(u)
    <3>1. UNCHANGED <<mailbox, torn>>
      BY <2>2, <2>5, FilesStay
    <3>2. Kept(u) /\ MessagePart(u)'
      BY <1>0, <2>2, <2>5, StepKept
    <3> QED BY <1>0, <2>3, <3>1, <3>2, WritersKept
  <2> QED BY <2>4, <2>5
<1>2. CASE UNCHANGED vars
  <2>1. UNCHANGED <<srv, th, recipient, message, pending, mailbox, torn, net, up, down, cl, asked,
                    composed, astray, cut>>
    BY <1>2 DEF vars, tableVars, threadVars, readVars, fileVars, userVars
  <2>2. StampPart'
    <3>1. /\ \A b \in Boxes : Mails(b)' = Mails(b)
          /\ \A v : Unstored(v)' <=> Unstored(v)
      BY <2>1 DEF Mails, Starts, Unstored, Asks, Begun
    <3> QED BY <2>1, <3>1 DEF WritersAgree, StampPart
  <2>3. ContentPart'
    <3>1. ContentPart
      BY DEF WritersAgree
    <3>2. /\ \A b : Mails(b)' = Mails(b)
          /\ \A b, i, v, mail : Unfinished(b, i, v, mail)' <=> Unfinished(b, i, v, mail)
      BY <2>1 DEF Mails, Starts, Unfinished, Begun
    <3> QED BY <2>1, <3>1, <3>2 DEF ContentPart
  <2>4. ASSUME NEW u \in Users
        PROVE  MessagePart(u)' /\ BegunPart(u)' /\ SaidPart(u)'
    <3>1. MessagePart(u) /\ BegunPart(u) /\ SaidPart(u)
      BY DEF WritersAgree
    <3>2. /\ Mails(recipient[u])' = Mails(recipient[u]) /\ (Begun(u)' <=> Begun(u))
          /\ Typed(u)' = Typed(u) /\ (Asks(u)' <=> Asks(u)) /\ LastMail(u)' = LastMail(u)
      BY <2>1 DEF Mails, Starts, Begun, Typed, Asks, LastMail
    <3>3. MessagePart(u)'
      BY <2>1, <3>1, <3>2 DEF MessagePart, Rest
    <3>4. BegunPart(u)'
      BY <2>1, <3>1, <3>2 DEF BegunPart, Unfinished
    <3>5. SaidPart(u)'
      BY <2>1, <3>1, <3>2 DEF SaidPart
    <3> QED BY <3>3, <3>4, <3>5
  <2> QED BY <2>2, <2>3, <2>4 DEF WritersAgree
<1> QED BY <1>1, <1>2

-----------------------------------------------------------------------------
(* Numbers of mails, and files that grow.                                  *)

(* The mails that begin in the first parts of a file.                      *)
LEMMA StartsFinite ==
  ASSUME NEW file, NEW k \in Nat
  PROVE  /\ IsFiniteSet(Starts(file, k)) /\ Cardinality(Starts(file, k)) \in Nat
         /\ Starts(file, 0) = {} /\ Cardinality(Starts(file, 0)) = 0
<1>1. Starts(file, k) \subseteq 1 .. k
  BY DEF Starts
<1>2. IsFiniteSet(1 .. k)
  BY FS_Interval
<1>3. IsFiniteSet(Starts(file, k))
  BY <1>1, <1>2, FS_Subset
<1>4. Cardinality(Starts(file, k)) \in Nat
  BY <1>3, FS_CardinalityType
<1>5. Starts(file, 0) = {}
  BY DEF Starts
<1>6. Cardinality(Starts(file, 0)) = 0
  BY <1>5, FS_EmptySet
<1> QED BY <1>3, <1>4, <1>5, <1>6

LEMMA StartsNext ==
  ASSUME NEW file, NEW k \in Nat
  PROVE  /\ Starts(file, k) \subseteq Starts(file, k + 1)
         /\ Cardinality(Starts(file, k + 1)) =
              IF file[k + 1].kind = "start" THEN Cardinality(Starts(file, k)) + 1
              ELSE Cardinality(Starts(file, k))
         /\ file[k + 1].kind = "start" => k + 1 \in Starts(file, k + 1)
<1>1. /\ Starts(file, k) \subseteq Starts(file, k + 1)
      /\ file[k + 1].kind = "start" =>
           Starts(file, k + 1) = Starts(file, k) \cup {k + 1} /\ k + 1 \notin Starts(file, k)
      /\ file[k + 1].kind # "start" => Starts(file, k + 1) = Starts(file, k)
  BY DEF Starts
<1>2. IsFiniteSet(Starts(file, k))
  BY StartsFinite
<1>3. k + 1 \notin Starts(file, k) =>
        Cardinality(Starts(file, k) \cup {k + 1}) = Cardinality(Starts(file, k)) + 1
  BY <1>2, FS_AddElement
<1> QED BY <1>1, <1>3

LEMMA StartsFewer ==
  ASSUME NEW file, NEW k \in Nat, NEW l \in Nat, k <= l
  PROVE  /\ Starts(file, k) \subseteq Starts(file, l)
         /\ Cardinality(Starts(file, k)) <= Cardinality(Starts(file, l))
<1>1. Starts(file, k) \subseteq Starts(file, l)
  BY DEF Starts
<1>2. IsFiniteSet(Starts(file, l))
  BY StartsFinite
<1> QED BY <1>1, <1>2, FS_Subset

LEMMA StartsStay ==
  ASSUME NEW file, NEW new, Grows(file, new), NEW k \in Nat, k <= Len(file)
  PROVE  Starts(new, k) = Starts(file, k)
<1>1. \A i \in 1 .. k : new[i] = file[i]
  BY DEF Grows
<1> QED BY <1>1 DEF Starts

(* What a file has from i to j, another part of it, and one part of it.    *)
LEMMA Stretch ==
  ASSUME NEW file \in Items, NEW i \in 1 .. Len(file), NEW j \in i .. Len(file)
  PROVE  /\ Len(SubSeq(file, i, j)) = j - i + 1 /\ SubSeq(file, i, j) \in Items
         /\ \A x \in 1 .. j - i + 1 : SubSeq(file, i, j)[x] = file[i + x - 1]
         /\ SubSeq(file, i, i) = <<file[i]>>
         /\ j < Len(file) => Append(SubSeq(file, i, j), file[j + 1]) = SubSeq(file, i, j + 1)
<1> DEFINE S == Parts
<1>1. file \in Seq(S)
  BY DEF Items
<1> HIDE DEF S
<1>2. Len(file) \in Nat
  BY <1>1
<1>3. /\ SubSeq(file, i, j) \in Seq(S) /\ Len(SubSeq(file, i, j)) = j - i + 1
      /\ \A x \in 1 .. j - i + 1 : SubSeq(file, i, j)[x] = file[i + x - 1]
  BY <1>1, <1>2
<1>4. SubSeq(file, i, i) = <<file[i]>>
  <2> DEFINE one == SubSeq(file, i, i)
  <2>1. one \in Seq(S) /\ Len(one) = 1 /\ one[1] = file[i]
    BY <1>1, <1>2
  <2> HIDE DEF one
  <2>2. one = <<file[i]>>
    BY <2>1
  <2> QED BY <2>2 DEF one
<1>5. j < Len(file) => Append(SubSeq(file, i, j), file[j + 1]) = SubSeq(file, i, j + 1)
  BY <1>1, <1>2
<1> QED BY <1>3, <1>4, <1>5 DEF S, Items

LEMMA StretchStays ==
  ASSUME NEW file, NEW new, Grows(file, new), NEW i \in 1 .. Len(file), NEW j \in i .. Len(file)
  PROVE  SubSeq(new, i, j) = SubSeq(file, i, j)
<1> DEFINE S == Parts
<1>1. file \in Seq(S) /\ new \in Seq(S)
  BY DEF Grows, Items
<1> HIDE DEF S
<1>2. /\ Len(file) \in Nat /\ Len(new) \in Nat /\ Len(file) <= Len(new)
      /\ \A x \in 1 .. Len(file) : new[x] = file[x]
  BY DEF Grows
<1>3. SubSeq(file, i, j) = [x \in 1 .. j - i + 1 |-> file[i + x - 1]]
  BY <1>1, <1>2
<1>4. SubSeq(new, i, j) = [x \in 1 .. j - i + 1 |-> new[i + x - 1]]
  BY <1>1, <1>2
<1>5. \A x \in 1 .. j - i + 1 : new[i + x - 1] = file[i + x - 1]
  BY <1>2
<1> QED BY <1>3, <1>4, <1>5

LEMMA TrueListStays ==
  ASSUME NEW file, NEW new, Grows(file, new), NEW r, r.opened \in Nat, r.opened <= Len(file),
         r.items \in Items, TrueList(r, file)
  PROVE  TrueList(r, new)
<1>1. Len(file) \in Nat /\ Len(new) \in Nat /\ Len(file) <= Len(new)
  BY DEF Grows
<1>2. Starts(new, r.opened) = Starts(file, r.opened)
  BY <1>1, StartsStay
<1>3. ASSUME NEW k \in 1 .. Len(r.items)
      PROVE  \E i \in Starts(new, Len(new)) :
               /\ k = Cardinality(Starts(new, i))
               /\ r.items[k] = Part("start", new[i].from, k)
  <2>1. PICK i \in Starts(file, Len(file)) :
          k = Cardinality(Starts(file, i)) /\ r.items[k] = Part("start", file[i].from, k)
    BY <1>3 DEF TrueList
  <2>2. i \in 1 .. Len(file) /\ file[i].kind = "start"
    BY <2>1 DEF Starts
  <2>3. new[i] = file[i] /\ i \in Starts(new, Len(new)) /\ Starts(new, i) = Starts(file, i)
    <3>1. new[i] = file[i]
      BY <2>2 DEF Grows
    <3>2. i \in Starts(new, Len(new))
      BY <1>1, <2>2, <3>1 DEF Starts
    <3>3. Starts(new, i) = Starts(file, i)
      BY <1>1, <2>2, StartsStay
    <3> QED BY <3>1, <3>2, <3>3
  <2> QED BY <2>1, <2>3
<1> QED BY <1>2, <1>3 DEF TrueList

LEMMA TrueMailStays ==
  ASSUME NEW file, NEW new, Grows(file, new), NEW r, r.opened \in Nat, r.opened <= Len(file),
         r.items \in Items, TrueMail(r, file)
  PROVE  TrueMail(r, new)
<1>1. /\ Len(file) \in Nat /\ Len(new) \in Nat /\ Len(file) <= Len(new)
      /\ \A x \in 1 .. Len(file) : new[x] = file[x]
  BY DEF Grows
<1>2. Len(r.items) \in Nat
  BY DEF Items
<1>3. PICK i \in Starts(file, Len(file)) :
        LET last == i + Len(r.items) - 1 IN
        /\ r.to.n = Cardinality(Starts(file, i))
        /\ last \in i .. Len(file) /\ r.items = SubSeq(file, i, last)
        /\ \A j \in i + 1 .. last : file[j].kind = "text"
        /\ last < r.opened => file[last + 1].kind = "end"
  BY DEF TrueMail
<1>4. i \in 1 .. Len(file) /\ file[i].kind = "start"
  BY <1>3 DEF Starts
<1>5. i \in Starts(new, Len(new)) /\ Starts(new, i) = Starts(file, i)
  BY <1>1, <1>4, StartsStay DEF Starts
<1>6. PICK last \in i .. Len(file) : last = i + Len(r.items) - 1
  BY <1>3
<1>7. /\ r.to.n = Cardinality(Starts(file, i)) /\ r.items = SubSeq(file, i, last)
      /\ \A j \in i + 1 .. last : file[j].kind = "text"
      /\ last < r.opened => file[last + 1].kind = "end"
  BY <1>3, <1>6
<1>8. SubSeq(new, i, last) = SubSeq(file, i, last)
  BY <1>4, StretchStays
<1>9. /\ last \in i .. Len(new) /\ \A j \in i + 1 .. last : new[j].kind = "text"
      /\ last < r.opened => new[last + 1].kind = "end"
  <2>1. last \in Nat /\ i \in Nat \ {0} /\ i <= last /\ last <= Len(file)
    BY <1>1, <1>4
  <2>2. ASSUME NEW j \in i + 1 .. last
        PROVE  new[j].kind = "text"
    <3>1. j \in 1 .. Len(file)
      BY <1>1, <2>1
    <3>2. new[j] = file[j]
      BY <1>1, <3>1
    <3> QED BY <1>7, <3>2
  <2>3. ASSUME last < r.opened
        PROVE  new[last + 1].kind = "end"
    <3>1. last + 1 \in 1 .. Len(file)
      BY <1>1, <2>1, <2>3
    <3>2. new[last + 1] = file[last + 1]
      BY <1>1, <3>1
    <3> QED BY <1>7, <2>3, <3>2
  <2>4. last \in i .. Len(new)
    BY <1>1, <2>1
  <2> QED BY <2>2, <2>3, <2>4
<1>10. /\ r.to.n = Cardinality(Starts(new, i)) /\ r.items = SubSeq(new, i, last)
  BY <1>5, <1>7, <1>8
<1> QED BY <1>5, <1>6, <1>9, <1>10 DEF TrueMail

(* Files only grow.                                                        *)
Growing ==
  /\ \A c \in Boxes : Grows(mailbox[c], mailbox'[c])
  /\ torn \subseteq torn' /\ (mixed => mixed')

LEMMA StepGrows ==
  ASSUME IInv, WriterPart, WritersAgree, TypeOK', NEW u \in Users, Step(u)
  PROVE  Growing
<1>0. TypeOK
  BY DEF IInv
<1>1. mixed => mixed'
  BY DEF Step, Client, Connect, Give, TypeLine, EndText, Receive, ReceiveSome, Leave, Hungup,
     Close, ByClient, Accept, HandleClient, RecvSimple, RecvUnknown, RecvData, RecvLines, RecvTail,
     RecvEnd, RecvClosed, Write, StoreFails, RecvQuery, ReadPart, ReadDone, RemoveClient, readVars
<1>2. CASE ~ Write(u)
  <2>1. mailbox' = mailbox /\ torn' = torn
    BY <1>2, FilesStay
  <2>2. ASSUME NEW c \in Boxes
        PROVE  Grows(mailbox[c], mailbox'[c])
    <3>1. mailbox[c] \in Items
      BY <1>0 DEF TypeOK
    <3>2. \A s \in Items : Len(s) \in Nat
      BY DEF Items
    <3>3. Len(mailbox[c]) \in Nat
      BY <3>1, <3>2
    <3> QED BY <2>1, <3>1, <3>3 DEF Grows
  <2> QED BY <1>1, <2>1, <2>2 DEF Growing
<1>3. CASE Write(u)
  <2>1. PICK b, k, text, j, n : Wrote(u, b, k, text, j, n)
    BY <1>3, WriteShape
  <2>2. \A c \in Boxes : Grows(mailbox[c], mailbox'[c])
    BY <1>0, <2>1, WriteGrows
  <2>3. torn \subseteq torn'
    BY <2>1 DEF Wrote
  <2> QED BY <1>1, <2>2, <2>3 DEF Growing
<1> QED BY <1>2, <1>3

LEMMA TrueStays ==
  ASSUME TypeOK, Growing,
         NEW r \in [to : Requests, kind : Answers, items : Items, opened : Nat], IsTrue(r)
  PROVE  IsTrue(r)'
<1>1. CASE r.to.cmd \notin {"list", "get"}
  BY <1>1 DEF IsTrue
<1>2. CASE r.to.cmd \in {"list", "get"}
  <2>1. r.to.box \in Boxes /\ r.opened \in Nat /\ r.items \in Items
    BY <1>2, RequestKinds
  <2>2. PICK file, new : file = mailbox[r.to.box] /\ new = mailbox'[r.to.box]
    OBVIOUS
  <2>3. Grows(file, new)
    BY <2>1, <2>2 DEF Growing
  <2>4. r.opened <= Len(file) /\ r.opened <= Len(new)
    BY <1>2, <2>1, <2>2, <2>3 DEF IsTrue, Grows
  <2>5. ~ mixed' /\ r.kind = "ok" /\ r.to.cmd = "list" => TrueList(r, new)
    BY <2>1, <2>2, <2>3, <2>4, TrueListStays DEF IsTrue, Growing
  <2>6. ~ mixed' /\ r.kind = "ok" /\ r.to.cmd = "get" /\ r.to.box \notin torn' => TrueMail(r, new)
    BY <2>1, <2>2, <2>3, <2>4, TrueMailStays DEF IsTrue, Growing
  <2>7. Starts(new, r.opened) = Starts(file, r.opened)
    BY <2>1, <2>3, <2>4, StartsStay
  <2>8. r.kind = "notfound" /\ r.to.cmd = "get" => Cardinality(Starts(new, r.opened)) < r.to.n
    BY <2>2, <2>7 DEF IsTrue
  <2> QED BY <2>2, <2>4, <2>5, <2>6, <2>8 DEF IsTrue
<1> QED BY <1>1, <1>2

LEMMA AnswersStay ==
  ASSUME TypeOK, Growing, NEW u \in Users, AnswerPart(u), Range(down'[u]) \subseteq Range(down[u])
  PROVE  AnswerPart(u)'
<1> SUFFICES ASSUME NEW r \in Range(down'[u]) PROVE IsTrue(r)'
  BY DEF AnswerPart
<1>1. r \in Range(down[u]) /\ IsTrue(r)
  BY DEF AnswerPart
<1>2. r \in [to : Requests, kind : Answers, items : Items, opened : Nat]
  <2> DEFINE S == [to : Requests, kind : Answers, items : Items, opened : Nat]
  <2>1. down[u] \in Seq(S)
    BY DEF TypeOK
  <2> HIDE DEF S
  <2>2. r \in S
    BY <1>1, <2>1 DEF Range
  <2> QED BY <2>2 DEF S
<1> QED BY <1>1, <1>2, TrueStays

LEMMA AnswerAdded ==
  ASSUME TypeOK, Growing, NEW u \in Users, AnswerPart(u),
         NEW to, NEW kind, NEW items, NEW opened, Reply(u, to, kind, items, opened),
         IsTrue([to |-> to, kind |-> kind, items |-> items, opened |-> opened])'
  PROVE  AnswerPart(u)'
<1> DEFINE new == [to |-> to, kind |-> kind, items |-> items, opened |-> opened]
<1> SUFFICES ASSUME NEW r \in Range(down'[u]) PROVE IsTrue(r)'
  BY DEF AnswerPart
<1>1. Range(down'[u]) \subseteq Range(down[u]) \cup {new}
  BY Added
<1>2. CASE r = new
  BY <1>2
<1>3. CASE r \in Range(down[u])
  <2>1. r \in [to : Requests, kind : Answers, items : Items, opened : Nat]
    <3> DEFINE S == [to : Requests, kind : Answers, items : Items, opened : Nat]
    <3>1. down[u] \in Seq(S)
      BY DEF TypeOK
    <3> HIDE DEF S, new
    <3>2. r \in S
      BY <1>3, <3>1 DEF Range
    <3> QED BY <3>2 DEF S
  <2>2. IsTrue(r)
    BY <1>3 DEF AnswerPart
  <2> QED BY <2>1, <2>2, TrueStays
<1> QED BY <1>1, <1>2, <1>3

LEMMA ListedStays ==
  ASSUME NEW file, NEW new, Grows(file, new), NEW r, r.pos \in Nat, r.pos <= Len(file),
         NEW list, Listed(r, file, list)
  PROVE  Listed(r, new, list)
<1>1. Len(file) \in Nat /\ Starts(new, r.pos) = Starts(file, r.pos)
  BY StartsStay DEF Grows
<1>2. ASSUME NEW k \in 1 .. Len(list)
      PROVE  \E i \in Starts(new, r.pos) :
               k = Cardinality(Starts(new, i)) /\ list[k] = Part("start", new[i].from, k)
  <2>1. PICK i \in Starts(file, r.pos) :
          k = Cardinality(Starts(file, i)) /\ list[k] = Part("start", file[i].from, k)
    BY DEF Listed
  <2>2. i \in Nat /\ i \in 1 .. Len(file)
    BY <1>1, <2>1 DEF Starts
  <2>3. new[i] = file[i] /\ Starts(new, i) = Starts(file, i)
    BY <1>1, <2>2, StartsStay DEF Grows
  <2> QED BY <1>1, <2>1, <2>3
<1> QED BY <1>2 DEF Listed

LEMMA FoundStays ==
  ASSUME NEW file, NEW new, Grows(file, new), NEW r, r.pos \in Nat, r.pos <= Len(file),
         torn \subseteq torn', NEW parts, Found(r, file, parts)
  PROVE  Found(r, new, parts)'
<1>1. Len(file) \in Nat /\ Starts(new, r.pos) = Starts(file, r.pos)
  BY StartsStay DEF Grows
<1>2. PICK i \in Starts(file, r.pos) :
        /\ r.req.n = Cardinality(Starts(file, i)) /\ parts = SubSeq(file, i, r.pos)
        /\ r.req.box \notin torn => \A j \in i + 1 .. r.pos : file[j].kind = "text"
  BY DEF Found
<1>3. i \in Nat /\ i \in 1 .. Len(file) /\ i \in 1 .. r.pos
  BY <1>1, <1>2 DEF Starts
<1>4. Starts(new, i) = Starts(file, i)
  BY <1>1, <1>3, StartsStay
<1>5. r.pos \in i .. Len(file)
  BY <1>1, <1>3
<1>6. SubSeq(new, i, r.pos) = SubSeq(file, i, r.pos)
  BY <1>3, <1>5, StretchStays
<1>7. r.req.box \notin torn' => \A j \in i + 1 .. r.pos : new[j].kind = "text"
  <2> SUFFICES ASSUME r.req.box \notin torn', NEW j \in i + 1 .. r.pos
               PROVE  new[j].kind = "text"
    OBVIOUS
  <2>1. j \in 1 .. Len(file)
    BY <1>1, <1>3
  <2>2. new[j] = file[j]
    BY <2>1 DEF Grows
  <2> QED BY <1>2, <2>2
<1>8. /\ i \in Starts(new, r.pos) /\ r.req.n = Cardinality(Starts(new, i))
      /\ parts = SubSeq(new, i, r.pos)
  BY <1>1, <1>2, <1>4, <1>6
<1> QED BY <1>7, <1>8 DEF Found

LEMMA ReaderStays ==
  ASSUME TypeOK, Growing, NEW u \in Users, ReaderPart(u), reader'[u] = reader[u],
         th'[u] = "read" <=> th[u] = "read",
         th[u] = "read" /\ ~ mixed' => buffer'[reader[u].req.cmd] = buffer[reader[u].req.cmd]
  PROVE  ReaderPart(u)'
<1>1. CASE th[u] # "read"
  BY <1>1 DEF ReaderPart
<1>2. CASE th[u] = "read"
  <2>1. PICK r : r = reader[u]
    OBVIOUS
  <2>2. /\ r.req \in Commands /\ r.req.cmd \in {"list", "get"} /\ r.req.box \in Boxes
        /\ r.pos \in Nat /\ r.opened \in Nat /\ reader'[u] = r
    <3>1. r.req \in Commands /\ r.req.cmd \in {"list", "get"} /\ r.pos \in Nat /\ r.opened \in Nat
      BY <1>2, <2>1 DEF ReaderPart, TypeOK
    <3> QED BY <2>1, <3>1, RequestKinds, SomeRequests
  <2>3. PICK file, new : file = mailbox[r.req.box] /\ new = mailbox'[r.req.box]
    OBVIOUS
  <2>4. Grows(file, new)
    BY <2>2, <2>3 DEF Growing
  <2>5. /\ r.pos <= Len(file) /\ r.opened <= Len(file)
        /\ r.id = Cardinality(Starts(file, r.pos))
        /\ r.req.cmd = "list" => ~ r.inside /\ (~ mixed => Listed(r, file, buffer["list"]))
        /\ r.req.cmd = "get" /\ ~ r.inside => r.id < r.req.n /\ (~ mixed => buffer["get"] = <<>>)
        /\ r.req.cmd = "get" /\ r.inside => (~ mixed => Found(r, file, buffer["get"]))
    BY <1>2, <2>1, <2>3 DEF ReaderPart
  <2>6. ~ mixed' => ~ mixed /\ buffer'[r.req.cmd] = buffer[r.req.cmd]
    BY <1>2, <2>1 DEF Growing
  <2>7. /\ r.pos <= Len(new) /\ r.opened <= Len(new)
        /\ r.id = Cardinality(Starts(new, r.pos))
    BY <2>2, <2>4, <2>5, StartsStay DEF Grows
  <2>8. r.req.cmd = "list" => ~ r.inside /\ (~ mixed' => Listed(r, new, buffer'["list"]))
    BY <2>2, <2>4, <2>5, <2>6, ListedStays
  <2>9. r.req.cmd = "get" /\ ~ r.inside => r.id < r.req.n /\ (~ mixed' => buffer'["get"] = <<>>)
    BY <2>5, <2>6
  <2>10. ASSUME r.req.cmd = "get", r.inside, ~ mixed'
         PROVE  Found(r, new, buffer["get"])'
    <3>1. PICK parts : parts = buffer["get"]
      OBVIOUS
    <3>2. Found(r, file, parts) /\ buffer'["get"] = parts
      BY <2>5, <2>6, <2>10, <3>1
    <3>3. Found(r, new, parts)'
      BY <2>2, <2>4, <2>5, <3>2, FoundStays DEF Growing
    <3> QED BY <3>2, <3>3 DEF Found
  <2>11. reader'[u] = r /\ th'[u] = "read"
    BY <1>2, <2>2
  <2>12. mailbox'[r.req.box] = new
    BY <2>3
  <2> QED BY <2>2, <2>7, <2>8, <2>9, <2>10, <2>11, <2>12 DEF ReaderPart
<1> QED BY <1>1, <1>2

-----------------------------------------------------------------------------
(* Readers, their buffers and the answers.                                 *)

(* Only a reader's own buffer is changed, unless two readers share one.    *)
LEMMA BufferStays ==
  ASSUME IInv, ReadersAgree, NEW u \in Users, Step(u), NEW v \in Users \ {u}, th[v] = "read",
         ~ mixed'
  PROVE  buffer'[reader[v].req.cmd] = buffer[reader[v].req.cmd]
<1>0. TypeOK /\ ReaderPart(u) /\ ReaderPart(v) /\ MixedPart
  BY DEF IInv, ReadersAgree
<1>1. reader[v].req.cmd \in {"list", "get"} /\ buffer \in [{"list", "get"} -> Items]
  BY <1>0 DEF ReaderPart, TypeOK
<1>2. CASE RecvQuery(u)
  <2> DEFINE req == Head(up[u])
  <2>1. \/ buffer' = buffer
        \/ /\ buffer' = [buffer EXCEPT ![req.cmd] = <<>>]
           /\ mixed' = (mixed \/ \E w \in Users : reader[w].req.cmd = req.cmd)
    BY <1>2 DEF RecvQuery, readVars, Fresh
  <2> HIDE DEF req
  <2> QED BY <1>1, <2>1
<1>3. CASE ReadPart(u)
  <2>1. th[u] = "read" /\ mixed' = mixed
    BY <1>3 DEF ReadPart, Thread
  <2>2. reader[u].req.cmd # reader[v].req.cmd
    BY <1>0, <2>1 DEF MixedPart
  <2>3. reader[u].req.cmd = "list" => ~ reader[u].inside
    BY <1>0, <2>1 DEF ReaderPart
  <2>4. \/ buffer' = buffer
        \/ reader[u].req.cmd = "list" /\ \E x : buffer' = [buffer EXCEPT !.list = x]
        \/ reader[u].req.cmd # "list" /\ \E x : buffer' = [buffer EXCEPT !.get = x]
    BY <1>3, <2>3 DEF ReadPart
  <2>5. reader[u].req.cmd \in {"list", "get"}
    BY <1>0, <2>1 DEF ReaderPart
  <2> QED BY <1>1, <2>2, <2>4, <2>5
<1>4. CASE ReadDone(u)
  <2>1. th[u] = "read" /\ mixed' = mixed
    BY <1>4 DEF ReadDone, Thread
  <2>2. reader[u].req.cmd # reader[v].req.cmd
    BY <1>0, <2>1 DEF MixedPart
  <2>3. buffer' = buffer \/ buffer' = [buffer EXCEPT ![reader[u].req.cmd] = <<>>]
    BY <1>4 DEF ReadDone, Fresh
  <2> QED BY <1>1, <2>2, <2>3
<1>5. CASE ~ (RecvQuery(u) \/ ReadPart(u) \/ ReadDone(u))
  <2>1. buffer' = buffer
    BY <1>5 DEF Step, Client, Connect, Give, TypeLine, EndText, Receive, ReceiveSome, Leave, Hungup,
       Close, ByClient, Accept, HandleClient, RecvSimple, RecvUnknown, RecvData, RecvLines,
       RecvTail, RecvEnd, RecvClosed, Write, StoreFails, RemoveClient, readVars
  <2> QED BY <2>1
<1> QED BY <1>2, <1>3, <1>4, <1>5

LEMMA OthersRead ==
  ASSUME IInv, ReadersAgree, Growing, NEW u \in Users, Step(u), Aside(u), NEW v \in Users \ {u}
  PROVE  ReaderPart(v)' /\ AnswerPart(v)'
<1>0. TypeOK /\ ReaderPart(v) /\ AnswerPart(v)
  BY DEF IInv, ReadersAgree
<1>1. reader'[v] = reader[v] /\ th'[v] = th[v] /\ down'[v] = down[v]
  BY DEF Aside, Frame
<1>2. th[v] = "read" /\ ~ mixed' => buffer'[reader[v].req.cmd] = buffer[reader[v].req.cmd]
  BY BufferStays
<1>3. ReaderPart(v)'
  BY <1>0, <1>1, <1>2, ReaderStays
<1>4. AnswerPart(v)'
  BY <1>0, <1>1, AnswersStay
<1> QED BY <1>3, <1>4

LEMMA ReadBegins ==
  ASSUME TypeOK, NEW u \in Users, Step(u), th[u] # "read", th'[u] = "read"
  PROVE  RecvQuery(u)
<1>1. th \in [Users -> Places]
  BY DEF TypeOK
<1>2. CASE Client(u)
  BY <1>2 DEF Client, Connect, Give, TypeLine, EndText, Receive, ReceiveSome, Leave, Hungup,
     Close, ByClient, threadVars
<1>3. CASE Accept(u)
  BY <1>1, <1>3 DEF Accept
<1>4. CASE HandleClient(u)
  <2>1. ~ ReadPart(u) /\ ~ ReadDone(u)
    BY DEF ReadPart, ReadDone, Thread
  <2>2. ~ Write(u)
    <3> SUFFICES ASSUME Write(u) PROVE FALSE
      OBVIOUS
    <3>1. th[u] = "store" /\ (th' = th \/ th' = [th EXCEPT ![u] = "command"])
      BY DEF Write, Thread, Goto
    <3> QED BY <1>1, <3>1
  <2>3. ~ RecvSimple(u)
    <3> SUFFICES ASSUME RecvSimple(u) PROVE FALSE
      OBVIOUS
    <3>1. th' = [th EXCEPT ![u] = "closing"] \/ th' = [th EXCEPT ![u] = "command"]
      BY DEF RecvSimple, Goto
    <3> QED BY <1>1, <3>1
  <2>4. ~ (RecvUnknown(u) \/ RecvData(u) \/ RecvLines(u) \/ RecvTail(u) \/ RecvEnd(u)
           \/ RecvClosed(u) \/ StoreFails(u) \/ RemoveClient(u))
    <3>1. ~ (RecvUnknown(u) \/ RecvData(u))
      BY <1>1 DEF RecvUnknown, RecvData, Goto, threadVars
    <3>2. ~ (RecvLines(u) \/ RecvTail(u) \/ RecvEnd(u))
      BY <1>1 DEF RecvLines, RecvTail, RecvEnd, Store, Goto
    <3>3. ~ (RecvClosed(u) \/ StoreFails(u) \/ RemoveClient(u))
      BY <1>1 DEF RecvClosed, StoreFails, RemoveClient, Goto
    <3> QED BY <3>1, <3>2, <3>3
  <2> QED BY <1>4, <2>1, <2>2, <2>3, <2>4 DEF HandleClient
<1> QED BY <1>2, <1>3, <1>4 DEF Step

LEMMA MixedStays ==
  ASSUME IInv, ReadersAgree, Growing, NEW u \in Users, Step(u), Aside(u)
  PROVE  MixedPart'
<1>0. TypeOK /\ MixedPart
  BY DEF IInv, ReadersAgree
<1>1. reader \in [Users -> [req : Requests \cup {Quiet}, pos : Nat, id : Nat,
                            inside : BOOLEAN, opened : Nat]]
  BY <1>0 DEF TypeOK
<1>2. \A v \in Users \ {u} : reader'[v] = reader[v] /\ th'[v] = th[v]
  BY DEF Aside, Frame
<1> SUFFICES ASSUME ~ mixed', NEW v \in Users, NEW w \in Users, v # w, th'[v] = "read",
                    th'[w] = "read"
             PROVE  reader'[v].req.cmd # reader'[w].req.cmd
  BY DEF MixedPart
<1>3. CASE th[u] = "read" /\ th'[u] = "read"
  <2>1. th \in [Users -> Places]
    BY <1>0 DEF TypeOK
  <2>2. ~ ReadDone(u)
    BY <1>3, <2>1 DEF ReadDone, Goto
  <2>3. CASE ReadPart(u)
    <3>1. reader'[u].req = reader[u].req
      BY <1>1, <2>3 DEF ReadPart
    <3> QED BY <1>0, <1>2, <1>3, <3>1 DEF MixedPart, Growing
  <2>4. CASE ~ ReadPart(u)
    <3>1. reader' = reader
      BY <1>3, <2>2, <2>4 DEF Step, Client, Connect, Give, TypeLine, EndText, Receive, ReceiveSome,
         Leave, Hungup, Close, ByClient, Accept, HandleClient, RecvSimple, RecvUnknown, RecvData,
         RecvLines, RecvTail, RecvEnd, RecvClosed, Write, StoreFails, RemoveClient, RecvQuery, readVars,
         Thread
    <3> QED BY <1>0, <1>2, <1>3, <3>1 DEF MixedPart, Growing
  <2> QED BY <2>3, <2>4
<1>4. CASE th[u] # "read" /\ th'[u] = "read"
  <2>1. RecvQuery(u)
    BY <1>0, <1>4, ReadBegins
  <2>2. ~ (mailbox[Head(up[u]).box] = <<>>)
    BY <1>4, <2>1 DEF RecvQuery
  <2>3. mixed' = (mixed \/ \E x \in Users : reader[x].req.cmd = Head(up[u]).cmd)
    BY <2>1, <2>2 DEF RecvQuery
  <2>4. reader'[u].req = Head(up[u])
    BY <1>1, <2>1, <2>2 DEF RecvQuery, Idle
  <2>5. \A x \in Users : ~ mixed' => reader[x].req.cmd # reader'[u].req.cmd
    BY <2>3, <2>4
  <2>6. CASE v # u /\ w # u
    BY <1>0, <1>2, <2>6 DEF MixedPart, Growing
  <2>7. CASE v = u \/ w = u
    BY <1>2, <2>5, <2>7
  <2> QED BY <2>6, <2>7
<1>5. CASE th'[u] # "read"
  BY <1>0, <1>2, <1>5 DEF MixedPart, Growing
<1> QED BY <1>3, <1>4, <1>5

(* An answer that is none to a query is true.                              *)
LEMMA OtherAnswers ==
  ASSUME NEW to, to.cmd \notin {"list", "get"}, NEW kind, NEW items, NEW opened
  PROVE  IsTrue([to |-> to, kind |-> kind, items |-> items, opened |-> opened])'
BY DEF IsTrue

LEMMA Received ==
  ASSUME TypeOK, NEW u \in Users, Receive(u)
  PROVE  Range(down'[u]) \subseteq Range(down[u])
<1> DEFINE A == [to : Requests, kind : Answers, items : Items, opened : Nat]
<1>1. down \in [Users -> Seq(A)]
  BY DEF TypeOK
<1> HIDE DEF A
<1>2. PICK k \in 1 .. Len(down[u]) : down' = [down EXCEPT ![u] = SubSeq(@, k + 1, Len(@))]
  BY DEF Receive
<1> DEFINE d == down[u]
           e == SubSeq(d, k + 1, Len(d))
<1>3. d \in Seq(A) /\ k \in 1 .. Len(d) /\ down'[u] = e
  BY <1>1, <1>2
<1>4. Len(e) = Len(d) - k /\ (\A i \in 1 .. Len(d) - k : e[i] = d[i + k]) /\ e \in Seq(A)
  BY <1>3, Taken
<1> HIDE DEF d, e
<1>5. \A i \in 1 .. Len(e) : i + k \in 1 .. Len(d) /\ e[i] = d[i + k]
  BY <1>3, <1>4
<1>6. DOMAIN e = 1 .. Len(e) /\ DOMAIN d = 1 .. Len(d)
  BY <1>3, <1>4, LenProperties
<1> QED BY <1>3, <1>5, <1>6 DEF Range, d

(* Of what is left of an answer nothing is said but what was there.        *)
LEMMA RestTrue ==
  ASSUME IInv, NEW u \in Users, ReceiveSome(u), AnswerPart(u)
  PROVE  AnswerPart(u)'
<1> SUFFICES ASSUME NEW r \in Range(down'[u]) PROVE IsTrue(r)'
  BY DEF AnswerPart
<1>1. PICK x \in Range(down[u]) : r.to = x.to /\ r.opened = x.opened
  BY RestAlone
<1>2. r.kind = "rest" /\ mailbox' = mailbox
  BY RestAlone DEF ReceiveSome, fileVars
<1>3. IsTrue(x)
  BY DEF AnswerPart
<1> QED BY <1>1, <1>2, <1>3 DEF IsTrue

(* Steps that are no part of a query.                                      *)
LEMMA OtherStep ==
  ASSUME IInv, ReadersAgree, Growing, NEW u \in Users, Step(u),
         ~ (RecvQuery(u) \/ ReadPart(u) \/ ReadDone(u))
  PROVE  ReaderPart(u)' /\ AnswerPart(u)'
<1>0. TypeOK /\ ReaderPart(u) /\ AnswerPart(u)
  BY DEF IInv, ReadersAgree
<1>1. reader' = reader /\ buffer' = buffer
  BY DEF Step, Client, Connect, Give, TypeLine, EndText, Receive, ReceiveSome, Leave, Hungup,
     Close, ByClient, Accept, HandleClient, RecvSimple, RecvUnknown, RecvData, RecvLines,
     RecvTail, RecvEnd, RecvClosed, Write, StoreFails, RemoveClient, readVars
<1>2. th[u] = "read" => th'[u] = "read"
  BY DEF Step, Client, Connect, Give, TypeLine, EndText, Receive, ReceiveSome, Leave, Hungup,
     Close, ByClient, Accept, HandleClient, RecvSimple, RecvUnknown, RecvData, RecvLines,
     RecvTail, RecvEnd, RecvClosed, Write, StoreFails, RemoveClient, Thread, threadVars
<1>3. th'[u] = "read" => th[u] = "read"
  BY <1>0, ReadBegins
<1>4. ReaderPart(u)'
  BY <1>0, <1>1, <1>2, <1>3, ReaderStays
<1>5. CASE \E to, kind, items, opened :
             to.cmd \notin {"list", "get"} /\ Reply(u, to, kind, items, opened)
  <2>1. PICK to, kind, items, opened :
          to.cmd \notin {"list", "get"} /\ Reply(u, to, kind, items, opened)
    BY <1>5
  <2>2. IsTrue([to |-> to, kind |-> kind, items |-> items, opened |-> opened])'
    BY <2>1, OtherAnswers
  <2> QED BY <1>0, <1>4, <2>1, <2>2, AnswerAdded
<1>6. CASE down' = down
  BY <1>0, <1>4, <1>6, AnswersStay
<1>7. CASE Client(u)
  <2>1. CASE Receive(u)
    BY <1>0, <1>4, <2>1, Received, AnswersStay
  <2>2. CASE Leave(u) \/ Hungup(u)
    <3>1. down' = [down EXCEPT ![u] = <<>>] /\ DOMAIN down = Users
      BY <1>0, <2>2 DEF Leave, Hungup, Close, TypeOK
    <3>2. Range(down'[u]) = {}
      BY <3>1 DEF Range
    <3> QED BY <1>0, <1>4, <3>2, AnswersStay
  <2>3. CASE Connect(u) \/ Give(u) \/ TypeLine(u) \/ EndText(u)
    BY <1>6, <2>3 DEF Connect, Give, TypeLine, EndText
  <2>4. CASE ReceiveSome(u)
    BY <1>0, <1>4, <2>4, RestTrue
  <2> QED BY <1>7, <2>1, <2>2, <2>3, <2>4 DEF Client
<1>8. CASE \/ Accept(u) \/ RemoveClient(u) \/ RecvLines(u) \/ RecvTail(u) \/ RecvEnd(u)
           \/ RecvClosed(u)
  BY <1>6, <1>8 DEF Accept, RemoveClient, RecvLines, RecvTail, RecvEnd, RecvClosed
<1>9. CASE RecvSimple(u)
  BY <1>5, <1>9 DEF RecvSimple
<1>10. CASE RecvUnknown(u)
  <2>1. PICK k \in 1 .. Len(up[u]) : \A i \in 1 .. k : up[u][i].cmd \in {"text", "dot"}
    BY <1>10 DEF RecvUnknown
  <2>2. Len(up[u]) \in Nat /\ Head(up[u]) = up[u][1]
    <3> DEFINE R == Requests
    <3>1. up[u] \in Seq(R)
      BY <1>0 DEF TypeOK
    <3> HIDE DEF R
    <3>2. Len(up[u]) \in Nat
      BY <3>1
    <3>3. Head(up[u]) = up[u][1]
      BY <2>1, <3>1, <3>2
    <3> QED BY <3>2, <3>3
  <2>3. Head(up[u]).cmd \notin {"list", "get"}
    BY <2>1, <2>2
  <2>4. Reply(u, Head(up[u]), "err", <<>>, 0)
    BY <1>10 DEF RecvUnknown
  <2> QED BY <1>5, <2>3, <2>4
<1>11. CASE RecvData(u)
  BY <1>5, <1>11 DEF RecvData
<1>12. CASE Write(u) \/ StoreFails(u)
  <2>1. Dot.cmd \notin {"list", "get"}
    BY SomeRequests
  <2>2. down' = down \/ Reply(u, Dot, "stored", <<>>, 0) \/ Reply(u, Dot, Failed, <<>>, 0)
    BY <1>12 DEF Write, StoreFails
  <2> QED BY <1>5, <1>6, <2>1, <2>2
<1> QED BY <1>7, <1>8, <1>9, <1>10, <1>11, <1>12 DEF Step, HandleClient

(* The thread begins to read for its client.                               *)
LEMMA QueryAgrees ==
  ASSUME IInv, ReadersAgree, Growing, TypeOK', NEW u \in Users, RecvQuery(u)
  PROVE  ReaderPart(u)' /\ AnswerPart(u)'
<1>0. TypeOK /\ ReaderPart(u) /\ AnswerPart(u)
  BY DEF IInv, ReadersAgree
<1>1. PICK req : req = Head(up[u])
  OBVIOUS
<1>2. req.cmd \in {"list", "get"} /\ th[u] = "command" /\ Takes(u, 1) /\ mailbox' = mailbox
  BY <1>1 DEF RecvQuery, Thread, fileVars
<1>3. req \in Commands /\ req.box \in Boxes
  <2> DEFINE R == Requests
  <2>1. up[u] \in Seq(R)
    BY <1>0 DEF TypeOK
  <2> HIDE DEF R
  <2>2. 1 \in 1 .. Len(up[u])
    BY <1>2 DEF Takes
  <2>3. req \in R
    BY <1>1, <2>1, <2>2
  <2> QED BY <1>2, <2>3, RequestKinds DEF R
<1>4. mailbox[req.box] \in Items /\ Len(mailbox[req.box]) \in Nat
  <2>1. mailbox[req.box] \in Items
    BY <1>0, <1>3 DEF TypeOK
  <2>2. \A s \in Items : Len(s) \in Nat
    BY DEF Items
  <2> QED BY <2>1, <2>2
<1>5. CASE mailbox[req.box] = <<>>
  <2>1. Reply(u, req, "notfound", <<>>, 0) /\ UNCHANGED <<th, reader, buffer, mixed>>
    BY <1>1, <1>5 DEF RecvQuery, NotFound, readVars
  <2>2. IsTrue([to |-> req, kind |-> "notfound", items |-> <<>>, opened |-> 0])'
    <3>1. 0 <= Len(mailbox[req.box]) /\ Cardinality(Starts(mailbox[req.box], 0)) = 0
      BY <1>4, StartsFinite
    <3>2. req.cmd = "get" => 0 < req.n
      BY <1>3 DEF Commands, Req, Ids
    <3> QED BY <1>2, <3>1, <3>2 DEF IsTrue
  <2>3. AnswerPart(u)'
    BY <1>0, <2>1, <2>2, AnswerAdded
  <2>4. ReaderPart(u)'
    BY <1>0, <2>1, ReaderStays
  <2> QED BY <2>3, <2>4
<1>6. CASE mailbox[req.box] # <<>>
  <2>1. /\ reader' = [reader EXCEPT ![u] =
              [Idle EXCEPT !.req = req, !.opened = Len(mailbox[req.box])]]
        /\ buffer' = [buffer EXCEPT ![req.cmd] = <<>>] /\ down' = down
        /\ th' = [th EXCEPT ![u] = "read"]
    BY <1>1, <1>6 DEF RecvQuery, Fresh, Goto
  <2>2. AnswerPart(u)'
    BY <1>0, <2>1, AnswersStay
  <2>3. PICK r : r = [req |-> req, pos |-> 0, id |-> 0, inside |-> FALSE,
                      opened |-> Len(mailbox[req.box])]
    OBVIOUS
  <2>4. reader'[u] = r /\ th'[u] = "read" /\ buffer'[req.cmd] = <<>>
    BY <1>0, <1>2, <2>1, <2>3 DEF TypeOK, Idle
  <2>5. /\ r.req = req /\ r.pos = 0 /\ r.id = 0 /\ ~ r.inside /\ r.opened = Len(mailbox[req.box])
    BY <2>3
  <2>6. /\ Starts(mailbox[req.box], 0) = {} /\ Cardinality(Starts(mailbox[req.box], 0)) = 0
    BY StartsFinite
  <2>7. Listed(r, mailbox[req.box], <<>>)
    BY <2>5 DEF Listed
  <2>8. req.cmd = "get" => 0 < req.n
    BY <1>3 DEF Commands, Req, Ids
  <2>9. /\ r.pos <= Len(mailbox[req.box]) /\ r.opened <= Len(mailbox[req.box])
        /\ r.id = Cardinality(Starts(mailbox[req.box], r.pos))
    BY <1>4, <2>5, <2>6
  <2>10. req.cmd = "list" => Listed(r, mailbox[req.box], buffer'["list"])
    BY <2>4, <2>7
  <2>11. req.cmd = "get" => buffer'["get"] = <<>>
    BY <2>4
  <2>12. ReaderPart(u)'
    BY <1>2, <1>3, <2>4, <2>5, <2>8, <2>9, <2>10, <2>11 DEF ReaderPart
  <2> QED BY <2>2, <2>12
<1> QED BY <1>5, <1>6

(* The text of a mail in a file that is not torn ends with its end mark.   *)
LEMMA TextEnds ==
  ASSUME IInv, WritersAgree, NEW b \in Boxes, b \notin torn, NEW i \in Nat, NEW p \in Nat,
         i \in Starts(mailbox[b], p), p < Len(mailbox[b]),
         \A j \in i + 1 .. p : mailbox[b][j].kind = "text"
  PROVE  mailbox[b][p + 1].kind \in {"text", "end"}
<1>0. TypeOK
  BY DEF IInv
<1>1. PICK file : file = mailbox[b]
  OBVIOUS
<1>2. file \in Items /\ Len(file) \in Nat /\ DOMAIN file = 1 .. Len(file)
  <2>1. file \in Items
    BY <1>0, <1>1 DEF TypeOK
  <2>2. \A s \in Items : Len(s) \in Nat /\ DOMAIN s = 1 .. Len(s)
    BY DEF Items
  <2> QED BY <2>1, <2>2
<1>3. i \in 1 .. p /\ i \in Mails(b) /\ i \in Nat \ {0}
  BY <1>1, <1>2 DEF Starts, Mails
<1>4. PICK text \in Arrivals(composed[file[i].from][file[i].n].text) :
        Holds(file, i, Mail(file[i].from, file[i].n, text))
  BY <1>1, <1>3 DEF WritersAgree, ContentPart
<1>5. file[i].from \in Users /\ file[i].n \in Nat
  BY <1>0, <1>1, <1>3, MailsTyped
<1>6. text \in Seq(Nat)
  <2> DEFINE M == Messages
  <2>1. file[i].n \in 1 .. Len(composed[file[i].from])
    BY <1>1, <1>3 DEF WritersAgree, StampPart
  <2>2. composed[file[i].from] \in Seq(M)
    BY <1>0, <1>5 DEF TypeOK
  <2> HIDE DEF M
  <2>3. composed[file[i].from][file[i].n] \in M
    BY <2>1, <2>2
  <2>4. composed[file[i].from][file[i].n].text \in Seq(1 .. MaxLines)
    BY <2>3 DEF M, Messages
  <2> QED BY <1>4, <2>4, ArrivalsTyped
<1>7. PICK mail : mail = Mail(file[i].from, file[i].n, text)
  OBVIOUS
<1>8. PICK l \in Nat :
        /\ DOMAIN mail = 1 .. l + 2 /\ \A x \in 2 .. l + 1 : mail[x].kind = "text"
        /\ mail[l + 2].kind = "end"
  <2>1. /\ DOMAIN mail = 1 .. Len(text) + 2 /\ mail[Len(text) + 2].kind = "end"
        /\ \A x \in 2 .. Len(text) + 1 : mail[x].kind = "text"
        /\ Len(text) \in Nat
    BY <1>5, <1>6, <1>7, MailParts
  <2> QED BY <2>1
<1>9. \A x \in 1 .. l + 2 : i + x - 1 \in 1 .. Len(file) => file[i + x - 1] = mail[x]
  BY <1>2, <1>4, <1>7, <1>8 DEF Holds
<1>10. p - i + 2 <= l + 2
  <2> SUFFICES ASSUME p - i + 2 > l + 2 PROVE FALSE
    BY <1>3, <1>8
  <2>1. i + (l + 2) - 1 \in i + 1 .. p /\ i + (l + 2) - 1 \in 1 .. Len(file) /\ l + 2 \in 1 .. l + 2
    BY <1>1, <1>2, <1>3, <1>8
  <2>2. file[i + (l + 2) - 1] = mail[l + 2]
    BY <1>9, <2>1
  <2>3. file[i + (l + 2) - 1].kind = "text"
    BY <1>1, <2>1
  <2> QED BY <1>8, <2>2, <2>3
<1>11. PICK x \in 2 .. l + 2 : i + x - 1 = p + 1
  <2>1. p - i + 2 \in 2 .. l + 2 /\ i + (p - i + 2) - 1 = p + 1
    BY <1>3, <1>8, <1>10
  <2> QED BY <2>1
<1>12. file[p + 1] = mail[x]
  <2>1. x \in 1 .. l + 2 /\ p + 1 \in 1 .. Len(file)
    BY <1>1, <1>2, <1>8, <1>11
  <2> QED BY <1>9, <1>11, <2>1
<1>13. x \in 2 .. l + 1 \/ x = l + 2
  BY <1>8, <1>11
<1>14. mail[x].kind \in {"text", "end"}
  BY <1>8, <1>13
<1> QED BY <1>1, <1>12, <1>14

(* What ReadPart does, in terms of the part that it reads.                 *)
Reads(u, r, file, part, id, inside) ==
  /\ r = reader[u] /\ file = mailbox[r.req.box] /\ part = file[r.pos + 1]
  /\ id = IF part.kind = "start" THEN r.id + 1 ELSE r.id
  /\ inside = (r.inside \/ (r.req.cmd = "get" /\ id = r.req.n))
  /\ r.pos + 1 \in 1 .. Len(file) /\ r.pos \in Nat /\ Len(file) \in Nat /\ r.id \in Nat
  /\ file \in Items
  /\ r.inside => part.kind # "end"
  /\ r.req \in Commands /\ r.req.cmd \in {"list", "get"} /\ r.req.box \in Boxes
  /\ reader'[u].req = r.req /\ reader'[u].pos = r.pos + 1 /\ reader'[u].id = id
  /\ reader'[u].inside = inside /\ reader'[u].opened = r.opened
  /\ inside => buffer'["get"] = Append(buffer["get"], part)
  /\ ~ inside /\ r.req.cmd = "list" /\ part.kind = "start" =>
       buffer'["list"] = Append(buffer["list"], Part("start", part.from, id))
  /\ ~ inside /\ ~ (r.req.cmd = "list" /\ part.kind = "start") => buffer' = buffer
  /\ th[u] = "read" /\ th'[u] = "read"
  /\ UNCHANGED <<mailbox, torn, mixed, down>>

LEMMA ReadsPart ==
  ASSUME IInv, ReadersAgree, NEW u \in Users, ReadPart(u)
  PROVE  \E r, file, part, id, inside : Reads(u, r, file, part, id, inside)
<1>0. TypeOK /\ ReaderPart(u)
  BY DEF IInv, ReadersAgree
<1>1. PICK r : r = reader[u]
  OBVIOUS
<1>2. PICK file : file = mailbox[r.req.box]
  OBVIOUS
<1>3. PICK part : part = file[r.pos + 1]
  OBVIOUS
<1>4. PICK id : id = IF part.kind = "start" THEN r.id + 1 ELSE r.id
  OBVIOUS
<1>5. PICK inside : inside = (r.inside \/ (r.req.cmd = "get" /\ id = r.req.n))
  OBVIOUS
<1>6. /\ th[u] = "read" /\ ~ AtEnd(r)
      /\ reader' = [reader EXCEPT ![u].pos = @ + 1, ![u].id = id, ![u].inside = inside]
      /\ buffer' = IF inside THEN [buffer EXCEPT !.get = Append(@, part)]
                   ELSE IF r.req.cmd = "list" /\ part.kind = "start"
                   THEN [buffer EXCEPT !.list = Append(@, Part("start", part.from, id))]
                   ELSE buffer
      /\ UNCHANGED <<th, mailbox, torn, mixed, down>>
  BY <1>1, <1>2, <1>3, <1>4, <1>5 DEF ReadPart, Thread, threadVars, fileVars
<1>7. /\ r.pos \in Nat /\ r.id \in Nat /\ r.inside \in BOOLEAN
      /\ r.req \in Commands /\ r.req.cmd \in {"list", "get"} /\ r.req.box \in Boxes
      /\ r.pos <= Len(file)
  <2>1. r.pos \in Nat /\ r.id \in Nat /\ r.inside \in BOOLEAN
    BY <1>0, <1>1 DEF TypeOK
  <2>2. r.req \in Commands /\ r.req.cmd \in {"list", "get"} /\ r.pos <= Len(file)
    BY <1>0, <1>1, <1>2, <1>6 DEF ReaderPart
  <2> QED BY <2>1, <2>2, RequestKinds, SomeRequests
<1>8. file \in Items /\ Len(file) \in Nat /\ DOMAIN file = 1 .. Len(file)
  <2>1. file \in Items
    BY <1>0, <1>2, <1>7 DEF TypeOK
  <2>2. \A s \in Items : Len(s) \in Nat /\ DOMAIN s = 1 .. Len(s)
    BY DEF Items
  <2> QED BY <2>1, <2>2
<1>9. r.pos + 1 \in 1 .. Len(file) /\ (r.inside => part.kind # "end")
  BY <1>2, <1>3, <1>6, <1>8 DEF AtEnd
<1>10. /\ reader'[u].req = r.req /\ reader'[u].pos = r.pos + 1 /\ reader'[u].id = id
       /\ reader'[u].inside = inside /\ reader'[u].opened = r.opened
  BY <1>0, <1>1, <1>6 DEF TypeOK
<1>11. buffer \in [{"list", "get"} -> Items]
  BY <1>0 DEF TypeOK
<1>12. /\ inside => buffer'["get"] = Append(buffer["get"], part)
       /\ ~ inside /\ r.req.cmd = "list" /\ part.kind = "start" =>
            buffer'["list"] = Append(buffer["list"], Part("start", part.from, id))
       /\ ~ inside /\ ~ (r.req.cmd = "list" /\ part.kind = "start") => buffer' = buffer
  BY <1>6, <1>11
<1>13. Reads(u, r, file, part, id, inside)
  BY <1>1, <1>2, <1>3, <1>4, <1>5, <1>6, <1>7, <1>8, <1>9, <1>10, <1>12 DEF Reads
<1> QED BY <1>13

LEMMA ListedNext ==
  ASSUME NEW file, NEW r, NEW s, NEW list \in Items, r.pos \in Nat, r.id \in Nat,
         Listed(r, file, list), r.id = Cardinality(Starts(file, r.pos)),
         s.pos = r.pos + 1,
         s.id = IF file[r.pos + 1].kind = "start" THEN r.id + 1 ELSE r.id,
         NEW new, new = IF file[r.pos + 1].kind = "start"
                        THEN Append(list, Part("start", file[r.pos + 1].from, s.id)) ELSE list,
         new \in Items
  PROVE  Listed(s, file, new)
<1> DEFINE p == r.pos
<1>1. /\ Starts(file, p) \subseteq Starts(file, p + 1)
      /\ Cardinality(Starts(file, p + 1)) = s.id
      /\ file[p + 1].kind = "start" => p + 1 \in Starts(file, p + 1)
  BY StartsNext
<1>2. /\ Len(list) = r.id
      /\ \A k \in 1 .. Len(list) : \E i \in Starts(file, p) :
           k = Cardinality(Starts(file, i)) /\ list[k] = Part("start", file[i].from, k)
  BY DEF Listed
<1>3. CASE file[p + 1].kind = "start"
  <2>1. PICK e : e = Part("start", file[p + 1].from, s.id)
    OBVIOUS
  <2>2. Len(new) = r.id + 1 /\ new[r.id + 1] = e /\ \A k \in 1 .. r.id : new[k] = list[k]
    <3> DEFINE S == Parts \cup {e}
    <3>1. list \in Seq(S) /\ e \in S /\ new = Append(list, e)
      <4>1. list \in Seq(Parts)
        BY DEF Items
      <4> QED BY <1>3, <2>1, <4>1
    <3> HIDE DEF S
    <3> QED BY <1>2, <3>1
  <2>3. s.id = r.id + 1
    BY <1>3
  <2>4. ASSUME NEW k \in 1 .. Len(new)
        PROVE  \E i \in Starts(file, p + 1) :
                 k = Cardinality(Starts(file, i)) /\ new[k] = Part("start", file[i].from, k)
    <3>1. CASE k \in 1 .. r.id
      BY <1>1, <1>2, <2>2, <3>1
    <3>2. CASE k = r.id + 1
      BY <1>1, <1>3, <2>1, <2>2, <2>3, <3>2
    <3> QED BY <2>2, <3>1, <3>2
  <2> QED BY <2>2, <2>3, <2>4 DEF Listed
<1>4. CASE file[p + 1].kind # "start"
  BY <1>1, <1>2, <1>4 DEF Listed
<1> QED BY <1>3, <1>4

LEMMA FoundNext ==
  ASSUME IInv, WritersAgree, NEW u \in Users, NEW r, NEW file, NEW part, NEW id, NEW inside,
         Reads(u, r, file, part, id, inside), r.inside, NEW s, s.req = r.req, s.pos = r.pos + 1,
         NEW parts, Found(r, file, parts)
  PROVE  Found(s, file, Append(parts, part))
<1>1. /\ r.pos \in Nat /\ Len(file) \in Nat /\ r.pos + 1 \in 1 .. Len(file) /\ file \in Items
      /\ file = mailbox[r.req.box] /\ part = file[r.pos + 1] /\ r.req.box \in Boxes
      /\ part.kind # "end"
  BY DEF Reads
<1>2. PICK i \in Starts(file, r.pos) :
        /\ r.req.n = Cardinality(Starts(file, i)) /\ parts = SubSeq(file, i, r.pos)
        /\ r.req.box \notin torn => \A j \in i + 1 .. r.pos : file[j].kind = "text"
  BY DEF Found
<1>3. i \in 1 .. r.pos /\ i \in Nat
  BY <1>1, <1>2 DEF Starts
<1>4. i \in Starts(file, r.pos + 1)
  BY <1>1, <1>2, StartsNext
<1>5. Append(parts, part) = SubSeq(file, i, r.pos + 1)
  <2>1. i \in 1 .. Len(file) /\ r.pos \in i .. Len(file) /\ r.pos < Len(file)
    BY <1>1, <1>3
  <2> QED BY <1>1, <1>2, <2>1, Stretch
<1>6. ASSUME r.req.box \notin torn, NEW j \in i + 1 .. r.pos + 1
      PROVE  file[j].kind = "text"
  <2>1. CASE j \in i + 1 .. r.pos
    BY <1>2, <1>6, <2>1
  <2>2. CASE j = r.pos + 1
    <3>1. PICK b \in Boxes, p \in Nat : b = r.req.box /\ p = r.pos
      BY <1>1
    <3>2. b \notin torn /\ file = mailbox[b] /\ p < Len(file) /\ i \in Starts(file, p)
      BY <1>1, <1>2, <1>6, <3>1
    <3>3. \A x \in i + 1 .. p : mailbox[b][x].kind = "text"
      BY <1>2, <1>6, <3>1, <3>2
    <3>4. i \in Starts(mailbox[b], p) /\ p < Len(mailbox[b])
      BY <3>2
    <3>5. mailbox[b][p + 1].kind \in {"text", "end"}
      BY <1>3, <3>2, <3>3, <3>4, TextEnds
    <3>6. file[r.pos + 1].kind \in {"text", "end"}
      BY <3>1, <3>2, <3>5
    <3> QED BY <1>1, <2>2, <3>6
  <2> QED BY <1>1, <1>3, <2>1, <2>2
<1> QED BY <1>2, <1>4, <1>5, <1>6 DEF Found

LEMMA FoundFirst ==
  ASSUME NEW u \in Users, NEW r, NEW file, NEW part, NEW id, NEW inside,
         Reads(u, r, file, part, id, inside), part.kind = "start", id = r.req.n,
         r.id = Cardinality(Starts(file, r.pos)),
         NEW s, s.req = r.req, s.pos = r.pos + 1
  PROVE  Found(s, file, Append(<<>>, part))
<1>1. /\ r.pos \in Nat /\ Len(file) \in Nat /\ r.pos + 1 \in 1 .. Len(file) /\ file \in Items
      /\ part = file[r.pos + 1] /\ id = r.id + 1
  BY DEF Reads
<1>2. PICK i \in 1 .. Len(file) : i = r.pos + 1
  BY <1>1
<1>3. i \in Starts(file, i) /\ Cardinality(Starts(file, i)) = s.req.n
  BY <1>1, <1>2, StartsNext
<1>4. SubSeq(file, i, i) = <<file[i]>>
  BY <1>1, <1>2, Stretch
<1>5. Append(<<>>, part) = SubSeq(file, i, i)
  <2>1. \A x : Append(<<>>, x) = <<x>>
    OBVIOUS
  <2>2. part = file[i]
    BY <1>1, <1>2
  <2> QED BY <1>4, <2>1, <2>2
<1>6. \A j \in i + 1 .. s.pos : file[j].kind = "text"
  BY <1>1, <1>2
<1> QED BY <1>2, <1>3, <1>5, <1>6 DEF Found

LEMMA PartAgrees ==
  ASSUME IInv, WritersAgree, ReadersAgree, Growing, TypeOK', NEW u \in Users, ReadPart(u)
  PROVE  ReaderPart(u)' /\ AnswerPart(u)'
<1>0. TypeOK /\ ReaderPart(u) /\ AnswerPart(u)
  BY DEF IInv, ReadersAgree
<1>1. PICK r, file, part, id, inside : Reads(u, r, file, part, id, inside)
  BY ReadsPart
<1>2. /\ r = reader[u] /\ file = mailbox[r.req.box] /\ part = file[r.pos + 1]
      /\ id = IF part.kind = "start" THEN r.id + 1 ELSE r.id
      /\ inside = (r.inside \/ (r.req.cmd = "get" /\ id = r.req.n))
      /\ r.pos + 1 \in 1 .. Len(file) /\ r.pos \in Nat /\ Len(file) \in Nat /\ r.id \in Nat
      /\ r.req \in Commands /\ r.req.cmd \in {"list", "get"} /\ r.req.box \in Boxes
      /\ inside => buffer'["get"] = Append(buffer["get"], part)
      /\ ~ inside /\ r.req.cmd = "list" /\ part.kind = "start" =>
           buffer'["list"] = Append(buffer["list"], Part("start", part.from, id))
      /\ ~ inside /\ ~ (r.req.cmd = "list" /\ part.kind = "start") => buffer' = buffer
      /\ th[u] = "read" /\ th'[u] = "read"
      /\ UNCHANGED <<mailbox, torn, mixed, down>>
  BY <1>1 DEF Reads
<1>3. AnswerPart(u)'
  BY <1>0, <1>2, AnswersStay
<1>4. PICK s : s = reader'[u]
  OBVIOUS
<1>5. /\ s.req = r.req /\ s.pos = r.pos + 1 /\ s.id = id /\ s.inside = inside
      /\ s.opened = r.opened
  BY <1>1, <1>4 DEF Reads
<1>6. /\ r.pos <= Len(file) /\ r.opened <= Len(file)
      /\ r.id = Cardinality(Starts(file, r.pos))
      /\ r.req.cmd = "list" => ~ r.inside /\ (~ mixed => Listed(r, file, buffer["list"]))
      /\ r.req.cmd = "get" /\ ~ r.inside => r.id < r.req.n /\ (~ mixed => buffer["get"] = <<>>)
      /\ r.req.cmd = "get" /\ r.inside => (~ mixed => Found(r, file, buffer["get"]))
  BY <1>0, <1>2 DEF ReaderPart
<1>7. /\ s.pos <= Len(file) /\ s.opened <= Len(file) /\ s.id = Cardinality(Starts(file, s.pos))
  <2>1. s.pos <= Len(file) /\ s.opened <= Len(file)
    <3>1. r.pos + 1 \in 1 .. Len(file) /\ r.pos \in Nat /\ Len(file) \in Nat
      BY <1>2
    <3>2. r.pos + 1 <= Len(file)
      BY <3>1
    <3>3. r.opened <= Len(file)
      BY <1>6
    <3> QED BY <1>5, <3>2, <3>3
  <2>2. Cardinality(Starts(file, r.pos + 1)) =
          IF file[r.pos + 1].kind = "start" THEN Cardinality(Starts(file, r.pos)) + 1
          ELSE Cardinality(Starts(file, r.pos))
    BY <1>2, StartsNext
  <2>3. Cardinality(Starts(file, r.pos + 1)) = id
    BY <1>2, <1>6, <2>2
  <2> QED BY <1>5, <2>1, <2>3
<1>8. s.req.cmd = "list" => ~ s.inside
  BY <1>2, <1>5, <1>6
<1>9. ASSUME s.req.cmd = "list", ~ mixed
      PROVE  Listed(s, file, buffer'["list"])
  <2>1. PICK list, new : list = buffer["list"] /\ new = buffer'["list"]
    OBVIOUS
  <2>2. list \in Items /\ new \in Items
    BY <1>0, <2>1 DEF TypeOK
  <2>3. Listed(r, file, list)
    BY <1>5, <1>6, <1>9, <2>1
  <2>4. new = IF file[r.pos + 1].kind = "start"
              THEN Append(list, Part("start", file[r.pos + 1].from, s.id)) ELSE list
    <3>1. ~ inside /\ r.req.cmd = "list"
      BY <1>5, <1>8, <1>9
    <3>2. /\ part.kind = "start" => new = Append(list, Part("start", part.from, id))
          /\ part.kind # "start" => new = list
      BY <1>2, <2>1, <3>1
    <3>3. part = file[r.pos + 1] /\ s.id = id
      BY <1>2, <1>5
    <3> QED BY <3>2, <3>3
  <2>5. s.id = IF file[r.pos + 1].kind = "start" THEN r.id + 1 ELSE r.id
    BY <1>2, <1>5
  <2>6. Listed(s, file, new)
    BY <1>2, <1>5, <1>6, <2>2, <2>3, <2>4, <2>5, ListedNext
  <2> QED BY <2>1, <2>6
<1>10. ASSUME s.req.cmd = "get", ~ s.inside
       PROVE  s.id < s.req.n /\ (~ mixed => buffer'["get"] = <<>>)
  <2>1. id # r.req.n /\ ~ r.inside /\ buffer' = buffer
    BY <1>2, <1>5, <1>10
  <2>2. r.id < r.req.n
    BY <1>5, <1>6, <1>10, <2>1
  <2>3. r.req.n \in Nat
    <3>1. r.req \in Commands /\ r.req.cmd = "get"
      BY <1>2, <1>5, <1>10
    <3> QED BY <3>1 DEF Commands, Req, Ids
  <2>4. id < r.req.n
    <3>1. r.id \in Nat /\ (id = r.id \/ id = r.id + 1)
      BY <1>2
    <3> QED BY <2>1, <2>2, <2>3, <3>1
  <2> QED BY <1>5, <1>6, <1>10, <2>1, <2>4
<1>11. ASSUME s.req.cmd = "get", s.inside, ~ mixed
       PROVE  Found(s, file, buffer'["get"])
  <2>1. PICK parts : parts = buffer["get"]
    OBVIOUS
  <2>2. buffer'["get"] = Append(parts, part)
    BY <1>2, <1>5, <1>11, <2>1
  <2>3. CASE r.inside
    <3>1. Found(r, file, parts)
      BY <1>5, <1>6, <1>11, <2>1, <2>3
    <3>2. Found(s, file, Append(parts, part))
      BY <1>1, <1>5, <2>3, <3>1, FoundNext
    <3> QED BY <2>2, <3>2
  <2>4. CASE ~ r.inside
    <3>1. id = r.req.n /\ r.id < r.req.n /\ parts = <<>>
      BY <1>2, <1>5, <1>6, <1>11, <2>1, <2>4
    <3>2. part.kind = "start"
      <4>1. r.id \in Nat /\ (part.kind # "start" => id = r.id)
        BY <1>2
      <4> QED BY <3>1, <4>1
    <3>3. Found(s, file, Append(<<>>, part))
      <4>1. s.req = r.req /\ s.pos = r.pos + 1
        BY <1>5
      <4>2. r.id = Cardinality(Starts(file, r.pos)) /\ id = r.req.n
        BY <1>6, <3>1
      <4> QED BY <1>1, <3>2, <4>1, <4>2, FoundFirst
    <3> QED BY <2>2, <3>1, <3>3
  <2> QED BY <2>3, <2>4
<1>12. PICK list, get : list = buffer'["list"] /\ get = buffer'["get"]
  OBVIOUS
<1>13. /\ s.req.cmd = "list" => ~ s.inside /\ (~ mixed' => Listed(s, file, list))
       /\ s.req.cmd = "get" /\ ~ s.inside => s.id < s.req.n /\ (~ mixed' => get = <<>>)
  BY <1>2, <1>8, <1>9, <1>10, <1>12
<1>14. s.req.cmd = "get" /\ s.inside /\ ~ mixed' => Found(s, file, get)'
  <2>1. s.req.cmd = "get" /\ s.inside /\ ~ mixed' => Found(s, file, get)
    BY <1>2, <1>11, <1>12
  <2> QED BY <1>2, <2>1 DEF Found
<1>15. /\ mailbox'[s.req.box] = file /\ s.req \in Commands /\ s.req.cmd \in {"list", "get"}
  BY <1>2, <1>5
<1>16. ReaderPart(u)'
  <2>1. s.req.cmd = "get" /\ s.inside /\ ~ mixed' => Found(s, file, buffer["get"])'
    BY <1>12, <1>14 DEF Found
  <2> QED BY <1>2, <1>4, <1>7, <1>12, <1>13, <2>1, <1>15 DEF ReaderPart
<1> QED BY <1>3, <1>16

(* The answers of a reader that is done.                                   *)
LEMMA ListDone ==
  ASSUME NEW r, NEW file, NEW list, Listed(r, file, list), r.pos \in Nat, r.opened \in Nat,
         r.id = Cardinality(Starts(file, r.pos)), r.pos = Len(file), r.opened <= r.pos,
         NEW ans, ans.items = list, ans.opened = r.opened
  PROVE  TrueList(ans, file)
<1>1. Cardinality(Starts(file, r.opened)) <= Len(list)
  BY StartsFewer DEF Listed
<1>2. \A k \in 1 .. Len(list) : \E i \in Starts(file, r.pos) :
        k = Cardinality(Starts(file, i)) /\ list[k] = Part("start", file[i].from, k)
  BY DEF Listed
<1> QED BY <1>1, <1>2 DEF TrueList

LEMMA MailDone ==
  ASSUME NEW r, NEW file \in Items, NEW parts, Found(r, file, parts),
         r.pos \in Nat, r.opened \in Nat, Len(file) \in Nat, r.pos <= Len(file),
         r.opened <= Len(file),
         r.pos + 1 <= Len(file) => file[r.pos + 1].kind = "end",
         NEW ans, ans.items = parts, ans.opened = r.opened, ans.to = r.req,
         r.req.box \notin torn
  PROVE  TrueMail(ans, file)
<1>1. PICK p \in Nat : p = r.pos
  OBVIOUS
<1>2. PICK i \in Starts(file, p) :
        /\ r.req.n = Cardinality(Starts(file, i)) /\ parts = SubSeq(file, i, p)
        /\ \A j \in i + 1 .. p : file[j].kind = "text"
  BY <1>1 DEF Found
<1>3. i \in 1 .. p /\ i \in 1 .. Len(file) /\ p \in i .. Len(file)
  BY <1>1, <1>2 DEF Starts
<1>4. Len(parts) = p - i + 1
  BY <1>2, <1>3, Stretch
<1>5. i + Len(ans.items) - 1 = p
  BY <1>3, <1>4
<1>6. i \in Starts(file, Len(file))
  BY <1>1, <1>2, StartsFewer
<1>7. p < ans.opened => file[p + 1].kind = "end"
  BY <1>1
<1> QED BY <1>2, <1>3, <1>5, <1>6, <1>7 DEF TrueMail

LEMMA DoneAgrees ==
  ASSUME IInv, ReadersAgree, Growing, TypeOK', NEW u \in Users, ReadDone(u)
  PROVE  ReaderPart(u)' /\ AnswerPart(u)'
<1>0. TypeOK /\ ReaderPart(u) /\ AnswerPart(u)
  BY DEF IInv, ReadersAgree
<1>1. PICK r : r = reader[u]
  OBVIOUS
<1>2. /\ th[u] = "read" /\ AtEnd(r)
      /\ reader' = [reader EXCEPT ![u] = Idle] /\ th' = [th EXCEPT ![u] = "command"]
      /\ IF r.req.cmd = "get" /\ ~ r.inside
         THEN Reply(u, r.req, "notfound", <<>>, r.opened)
         ELSE Reply(u, r.req, "ok", buffer[r.req.cmd], r.opened)
      /\ mixed' = mixed /\ mailbox' = mailbox /\ torn' = torn
  BY <1>1 DEF ReadDone, Thread, Goto, fileVars
<1>3. ReaderPart(u)'
  BY <1>0, <1>2 DEF ReaderPart, TypeOK
<1>4. PICK file : file = mailbox[r.req.box]
  OBVIOUS
<1>5. /\ r.pos \in Nat /\ r.id \in Nat /\ r.opened \in Nat
      /\ r.req \in Commands /\ r.req.cmd \in {"list", "get"} /\ r.req.box \in Boxes
      /\ r.pos <= Len(file) /\ r.opened <= Len(file)
      /\ r.id = Cardinality(Starts(file, r.pos))
      /\ r.req.cmd = "list" => ~ r.inside /\ (~ mixed => Listed(r, file, buffer["list"]))
      /\ r.req.cmd = "get" /\ ~ r.inside => r.id < r.req.n
      /\ r.req.cmd = "get" /\ r.inside => (~ mixed => Found(r, file, buffer["get"]))
  <2>1. r.pos \in Nat /\ r.id \in Nat /\ r.opened \in Nat
    BY <1>0, <1>1 DEF TypeOK
  <2>2. /\ r.req \in Commands /\ r.req.cmd \in {"list", "get"} /\ r.pos <= Len(file)
        /\ r.opened <= Len(file) /\ r.id = Cardinality(Starts(file, r.pos))
        /\ r.req.cmd = "list" => ~ r.inside /\ (~ mixed => Listed(r, file, buffer["list"]))
        /\ r.req.cmd = "get" /\ ~ r.inside => r.id < r.req.n
        /\ r.req.cmd = "get" /\ r.inside => (~ mixed => Found(r, file, buffer["get"]))
    BY <1>0, <1>1, <1>2, <1>4 DEF ReaderPart
  <2>3. r.req.box \in Boxes
    BY <2>2, RequestKinds, SomeRequests
  <2> QED BY <2>1, <2>2, <2>3
<1>6. file \in Items /\ Len(file) \in Nat /\ DOMAIN file = 1 .. Len(file)
  <2>1. file \in Items
    BY <1>0, <1>4, <1>5 DEF TypeOK
  <2>2. \A s \in Items : Len(s) \in Nat /\ DOMAIN s = 1 .. Len(s)
    BY DEF Items
  <2> QED BY <2>1, <2>2
<1>7. r.pos + 1 <= Len(file) => r.inside /\ file[r.pos + 1].kind = "end"
  <2> SUFFICES ASSUME r.pos + 1 <= Len(file) PROVE r.inside /\ file[r.pos + 1].kind = "end"
    OBVIOUS
  <2>1. r.pos + 1 \in DOMAIN file \cap {r.pos + 1}
    BY <1>5, <1>6
  <2> QED BY <1>2, <1>4, <2>1 DEF AtEnd
<1>8. ~ r.inside => r.pos = Len(file) /\ r.opened <= r.pos
  BY <1>5, <1>6, <1>7
<1>9. CASE r.req.cmd = "get" /\ ~ r.inside
  <2> DEFINE ans == [to |-> r.req, kind |-> "notfound", items |-> <<>>, opened |-> r.opened]
  <2>1. Cardinality(Starts(file, r.opened)) < r.req.n
    <3>1. Cardinality(Starts(file, r.opened)) <= Cardinality(Starts(file, r.pos))
      BY <1>5, <1>8, <1>9, StartsFewer
    <3>2. Cardinality(Starts(file, r.opened)) \in Nat
      BY <1>5, StartsFinite
    <3>3. r.req.n \in Nat
      <4>1. r.req \in Commands /\ r.req.cmd = "get"
        BY <1>5, <1>9
      <4> QED BY <4>1 DEF Commands, Req, Ids
    <3>4. r.id \in Nat /\ r.id < r.req.n /\ r.id = Cardinality(Starts(file, r.pos))
      BY <1>5, <1>9
    <3> QED BY <3>1, <3>2, <3>3, <3>4
  <2>2. /\ ans.to = r.req /\ ans.kind = "notfound" /\ ans.opened = r.opened
        /\ mailbox'[r.req.box] = file
    BY <1>2, <1>4
  <2>3. IsTrue(ans)'
    <3> HIDE DEF ans
    <3> QED BY <1>5, <2>1, <2>2 DEF IsTrue
  <2>4. Reply(u, r.req, "notfound", <<>>, r.opened)
    BY <1>2, <1>9
  <2> QED BY <1>0, <1>3, <2>3, <2>4, AnswerAdded
<1>10. CASE ~ (r.req.cmd = "get" /\ ~ r.inside)
  <2>1. PICK items : items = buffer[r.req.cmd]
    OBVIOUS
  <2> DEFINE ans == [to |-> r.req, kind |-> "ok", items |-> items, opened |-> r.opened]
  <2>2. /\ ans.to = r.req /\ ans.kind = "ok" /\ ans.opened = r.opened /\ ans.items = items
        /\ mailbox'[r.req.box] = file /\ torn' = torn /\ mixed' = mixed
    BY <1>2, <1>4
  <2> HIDE DEF ans
  <2>3. ASSUME ~ mixed, r.req.cmd = "list"
        PROVE  TrueList(ans, file)
    <3>1. Listed(r, file, items) /\ ~ r.inside
      BY <1>5, <2>1, <2>3
    <3> QED BY <1>5, <1>8, <2>2, <3>1, ListDone
  <2>4. ASSUME ~ mixed, r.req.cmd = "get", r.req.box \notin torn
        PROVE  TrueMail(ans, file)
    <3>1. Found(r, file, items)
      BY <1>5, <1>10, <2>1, <2>4
    <3>2. r.pos + 1 <= Len(file) => file[r.pos + 1].kind = "end"
      BY <1>7
    <3> QED BY <1>5, <1>6, <2>2, <2>4, <3>1, <3>2, MailDone
  <2>5. IsTrue(ans)'
    BY <1>5, <2>2, <2>3, <2>4 DEF IsTrue
  <2>6. Reply(u, r.req, "ok", items, r.opened)
    BY <1>2, <1>10, <2>1
  <2> QED BY <1>0, <1>3, <2>5, <2>6, AnswerAdded DEF ans
<1> QED BY <1>9, <1>10

LEMMA InitReaders ==
  ASSUME Init
  PROVE  ReadersAgree
<1>1. \A u \in Users : th[u] = "none" /\ reader[u] = Idle /\ Range(down[u]) = {}
  BY DEF Init, Range
<1> QED BY <1>1 DEF ReadersAgree, MixedPart, ReaderPart, AnswerPart

LEMMA NextReaders ==
  ASSUME TypeOK, MailAgrees, [Next]_vars
  PROVE  ReadersAgree'
<1>0. /\ IInv /\ WriterPart /\ WritersAgree /\ ReadersAgree /\ TypeOK'
  BY NextIInv DEF IInv, SessionsAgree, MailAgrees
<1>1. CASE Next
  <2>1. PICK u \in Users : Client(u) \/ Accept(u) \/ HandleClient(u)
    BY <1>1 DEF Next
  <2>2. Step(u)
    BY <2>1 DEF Step
  <2>3. Aside(u) /\ Growing
    BY <1>0, <2>2, StepAside, StepGrows
  <2>4. \A v \in Users \ {u} : ReaderPart(v)' /\ AnswerPart(v)'
    BY <1>0, <2>2, <2>3, OthersRead
  <2>5. ReaderPart(u)' /\ AnswerPart(u)'
    BY <1>0, <2>2, <2>3, OtherStep, QueryAgrees, PartAgrees, DoneAgrees
  <2>6. MixedPart'
    BY <1>0, <2>2, <2>3, MixedStays
  <2> QED BY <2>4, <2>5, <2>6 DEF ReadersAgree
<1>2. CASE UNCHANGED vars
  <2>1. UNCHANGED <<th, reader, buffer, mixed, mailbox, torn, down>>
    BY <1>2 DEF vars, threadVars, readVars, fileVars
  <2>2. MixedPart'
    BY <1>0, <2>1 DEF ReadersAgree, MixedPart
  <2>3. ASSUME NEW u \in Users
        PROVE  ReaderPart(u)' /\ AnswerPart(u)'
    <3>1. ReaderPart(u) /\ AnswerPart(u)
      BY <1>0 DEF ReadersAgree
    <3>2. ReaderPart(u)'
      BY <2>1, <3>1 DEF ReaderPart, Found
    <3>3. AnswerPart(u)'
      BY <2>1, <3>1 DEF AnswerPart, IsTrue
    <3> QED BY <3>2, <3>3
  <2> QED BY <2>2, <2>3 DEF ReadersAgree
<1> QED BY <1>1, <1>2

-----------------------------------------------------------------------------
(* What each user typed, the mailbox files, the static buffers and the     *)
(* answers agree in every state: the invariant of SMTPInv.                 *)
THEOREM MailStaysInStep == Spec => []MailAgrees
<1>1. Init => TypeOK /\ MailAgrees
  BY InitIInv, InitWriters, InitReaders DEF MailAgrees
<1>2. TypeOK /\ MailAgrees /\ [Next]_vars => TypeOK' /\ MailAgrees'
  BY NextIInv, NextWriters, NextReaders DEF MailAgrees
<1> QED BY <1>1, <1>2, PTL DEF Spec

(* What is in a mailbox was typed by the user it is from, for that         *)
(* recipient, with all its lines in their order, however they were joined  *)
(* on the way and whenever the user left; and no message is there twice.   *)
(* Excepted are the lines behind one from which recv cut off a dot: that   *)
(* line is the last of its message.                                        *)
THEOREM StoredIsTyped == Spec => []StoredAsTyped
<1>1. MailAgrees => StoredAsTyped
  <2> SUFFICES ASSUME MailAgrees PROVE StoredAsTyped
    OBVIOUS
  <2>1. StampPart /\ ContentPart
    BY DEF MailAgrees, WritersAgree
  <2>2. ASSUME NEW b \in Boxes \ torn, NEW i \in Mails(b)
        PROVE  LET start == mailbox[b][i]
                   m     == composed[start.from][start.n]
               IN  /\ m.box = b
                   /\ \E text \in Arrivals(m.text) :
                        Holds(mailbox[b], i, Mail(start.from, start.n, text))
    BY <2>1 DEF ContentPart
  <2>3. \A b, c \in Boxes : \A i \in Mails(b), j \in Mails(c) :
          mailbox[b][i] = mailbox[c][j] => b = c /\ i = j
    BY <2>1 DEF StampPart
  <2> QED BY <2>2, <2>3 DEF StoredAsTyped
<1> QED BY <1>1, MailStaysInStep, PTL

(* "200 Message stored successfully" is only sent when the message is in   *)
(* the recipient's file with every line its user typed, or every line up   *)
(* to the one from which recv cut off a dot.                               *)
THEOREM AnsweredMailIsStored == Spec => []AnsweredIsStored
<1>1. MailAgrees => AnsweredIsStored
  BY DEF MailAgrees, WritersAgree, SaidPart, AnsweredIsStored
<1> QED BY <1>1, MailStaysInStep, PTL

(* LIST and GET_MAIL answer with what is in the file, from when they were  *)
(* asked on, while no two threads share a static buffer.                   *)
THEOREM AnswersStayTrue == Spec => []AnswersAreTrue
<1>1. MailAgrees => AnswersAreTrue
  BY DEF MailAgrees, ReadersAgree, AnswerPart, IsTrue, AnswersAreTrue
<1> QED BY <1>1, MailStaysInStep, PTL
=============================================================================
