---------------------------- MODULE SMTP_proofs ----------------------------
(***************************************************************************)
(* For any number of users, recipients and entries of clients[]: the types *)
(* of the mail server, and the invariant of SMTPInv with what follows from *)
(* it: answers come in step, no command is forgotten, and a thread's entry *)
(* of clients[] is its own.                                                *)
(***************************************************************************)
EXTENDS SMTPInv, SequenceTheorems, FiniteSetTheorems, WellFoundedInduction, TLAPS

(* What a request can be.                                                  *)
LEMMA RequestKinds ==
  ASSUME NEW r \in Requests
  PROVE  /\ r.cmd \in {"mail", "data", "quit", "rcpt", "list", "get", "text", "dot"}
         /\ r.cmd \in {"text", "dot"} => r.n \in 0 .. MaxLines /\ r \notin Commands
         /\ r.cmd \notin {"text", "dot"} => r \in Commands
         /\ r.cmd = "dot" <=> r = Dot
         /\ r.cmd \in {"rcpt", "list", "get"} => r.box \in Boxes
         /\ r # Quiet
<1>1. CASE r \in Commands
  BY <1>1 DEF Commands, Req, Dot, Quiet
<1>2. CASE r \in Texts
  BY <1>2, MailAssumption DEF Texts, Commands, Req, Dot, Quiet
<1>3. CASE r = Dot
  <2>1. r.cmd = "dot" /\ r.n = 0 /\ r # Quiet
    BY <1>3 DEF Dot, Quiet, Req
  <2>2. \A q \in Commands : q.cmd # "dot"
    BY DEF Commands, Req
  <2>3. 0 \in 0 .. MaxLines
    BY MailAssumption
  <2> QED BY <1>3, <2>1, <2>2, <2>3
<1> QED BY <1>1, <1>2, <1>3 DEF Requests

LEMMA SomeRequests ==
  /\ Dot \in Requests /\ Quiet.cmd = "none" /\ Dot.cmd = "dot" /\ Commands \subseteq Requests
  /\ \A n \in 1 .. MaxLines : Req("text", None, n) \in Texts
  /\ Texts \subseteq Requests
BY DEF Requests, Dot, Quiet, Req, Texts

(* A stream after its first k elements were taken.                         *)
LEMMA Taken ==
  ASSUME NEW S, NEW s \in Seq(S), NEW k \in 1 .. Len(s)
  PROVE  /\ SubSeq(s, k + 1, Len(s)) \in Seq(S)
         /\ Len(SubSeq(s, k + 1, Len(s))) = Len(s) - k
         /\ \A i \in 1 .. Len(s) - k : SubSeq(s, k + 1, Len(s))[i] = s[i + k]
OBVIOUS

-----------------------------------------------------------------------------
(* Steps of one user's client or thread leave the other sessions alone.    *)
Frame(u) ==
  /\ \A v \in Users \ {u} :
       /\ cl'[v] = cl[v] /\ asked'[v] = asked[v] /\ up'[v] = up[v] /\ down'[v] = down[v]
       /\ net'[v] = net[v] /\ th'[v] = th[v] /\ reader'[v] = reader[v]
       /\ v \in astray' <=> v \in astray
       /\ v \in cut' <=> v \in cut
  /\ srv' = "up" => srv = "up"

LEMMA OthersStay ==
  ASSUME NEW u \in Users, Frame(u), NEW v \in Users \ {u}, Session(v)
  PROVE  Session(v)'
<1>1. Reachable(v)' => Reachable(v)
  BY DEF Frame, Reachable
<1>2. OnlyText(up'[v]) <=> OnlyText(up[v])
  BY DEF Frame
<1>3. StreamPart(v)'
  BY <1>2 DEF Session, StreamPart, Frame, OnlyText
<1>4. ConnectionPart(v)'
  BY DEF Session, ConnectionPart, Frame
<1>5. v \in astray' => AstrayPart(v)'
  BY DEF Session, AstrayPart, Frame
<1>6. Awaited(v) => Awaited(v)'
  BY <1>1 DEF Awaited, Frame, Unread
<1>7. v \notin astray' => TurnPart(v)'
  BY <1>6 DEF Session, TurnPart, Frame, Unread
<1> QED BY <1>3, <1>4, <1>5, <1>7 DEF Session

(* send, with its effects on one connection.                               *)
LEMMA ReplySent ==
  ASSUME TypeOK, NEW u \in Users, NEW to \in Requests, NEW kind \in Answers,
         NEW items \in Items, NEW opened \in Nat, srv = "up",
         Reply(u, to, kind, items, opened)
  PROVE  /\ srv' \in {"up", "down"}
         /\ net' \in [Users -> {"none", "open", "fin", "rst", "hup"}]
         /\ down' \in [Users -> Seq([to : Requests, kind : Answers, items : Items,
                                     opened : Nat])]
         /\ \A v \in Users \ {u} : net'[v] = net[v] /\ down'[v] = down[v]
         /\ \/ /\ net[u] = "open" /\ net'[u] = "open" /\ srv' = srv
               /\ down[u] = <<>> => Len(down'[u]) = 1 /\ down'[u][1].to = to
               /\ down'[u] # <<>>
            \/ net[u] \in {"fin", "rst"} /\ net'[u] = "rst" /\ down'[u] = down[u]
<1> DEFINE A == [to : Requests, kind : Answers, items : Items, opened : Nat]
           rec == [to |-> to, kind |-> kind, items |-> items, opened |-> opened]
<1>0. /\ net \in [Users -> {"none", "open", "fin", "rst", "hup"}]
      /\ down \in [Users -> Seq(A)]
  BY DEF TypeOK
<1>1. rec \in A /\ rec.to = to
  OBVIOUS
<1>2. CASE net[u] = "open"
  <2>1. /\ down' = [down EXCEPT ![u] = Append(@, rec)]
        /\ UNCHANGED <<net, srv>>
    BY <1>2 DEF Reply
  <2> HIDE DEF rec, A
  <2>2. /\ Append(down[u], rec) \in Seq(A) /\ Append(down[u], rec) # <<>>
        /\ down[u] = <<>> => Len(Append(down[u], rec)) = 1 /\ Append(down[u], rec)[1] = rec
    BY <1>0, <1>1
  <2>3. down'[u] = Append(down[u], rec) /\ down' \in [Users -> Seq(A)]
    BY <1>0, <2>1, <2>2
  <2> QED BY <1>0, <1>1, <1>2, <2>1, <2>2, <2>3 DEF A
<1>3. CASE net[u] = "fin"
  BY <1>0, <1>3 DEF Reply
<1>4. CASE net[u] = "rst"
  BY <1>0, <1>4 DEF Reply
<1> QED BY <1>2, <1>3, <1>4 DEF Reply

-----------------------------------------------------------------------------
(* The client program.                                                     *)
IInv == TypeOK /\ InStep

LEMMA ConnectIInv ==
  ASSUME IInv, NEW u \in Users, Connect(u)
  PROVE  TypeOK' /\ Frame(u) /\ Session(u)'
<1>0. cl \in [Users -> {"out", "prompt", "await", "typing", "leaving", "closed"}]
  BY DEF IInv, TypeOK
<1>1. /\ cl[u] = "out" /\ cl' = [cl EXCEPT ![u] = "prompt"]
      /\ net' = [net EXCEPT ![u] = "open"]
      /\ ByClient /\ UNCHANGED <<up, down, asked, composed, typed>>
  BY DEF Connect
<1>2. TypeOK' /\ Frame(u)
  BY <1>1 DEF IInv, TypeOK, Frame, ByClient, tableVars, threadVars, readVars, fileVars
<1>3. /\ cl'[u] = "prompt" /\ net'[u] = "open" /\ th'[u] = th[u] /\ up'[u] = up[u]
      /\ down'[u] = down[u] /\ asked'[u] = asked[u] /\ astray' = astray
  BY <1>1 DEF IInv, TypeOK, ByClient, threadVars
<1>4. /\ th[u] = "none" /\ up[u] = <<>> /\ down[u] = <<>> /\ u \notin astray
      /\ asked[u] = Quiet
  BY <1>1 DEF IInv, InStep, Session, ConnectionPart, AstrayPart
<1> QED BY <1>2, <1>3, <1>4 DEF Session, StreamPart, ConnectionPart, TurnPart, Unread, OnlyText

(* send of the client program, to a connection that is there or lost.      *)
LEMMA Sent ==
  ASSUME TypeOK, NEW u \in Users, NEW req \in Requests, Send(u, req)
  PROVE  /\ up' \in [Users -> Seq(Requests)]
         /\ \A v \in Users \ {u} : up'[v] = up[v]
         /\ up'[u] = IF Reachable(u) THEN Append(up[u], req) ELSE up[u]
BY DEF Send, TypeOK

LEMMA GiveIInv ==
  ASSUME IInv, NEW u \in Users, Give(u)
  PROVE  TypeOK' /\ Frame(u) /\ Session(u)'
<1>0. /\ cl \in [Users -> {"out", "prompt", "await", "typing", "leaving", "closed"}]
      /\ asked \in [Users -> Requests \cup {Quiet}] /\ up \in [Users -> Seq(Requests)]
      /\ composed \in [Users -> Seq(Messages)] /\ recipient \in [Users -> Boxes \cup {None}]
      /\ TypeOK
  BY DEF IInv, TypeOK
<1>1. /\ cl[u] = "prompt" /\ u \notin astray
      /\ ByClient /\ UNCHANGED <<net, down, typed>>
  BY DEF Give
<1>2. PICK req \in May[u] :
         /\ Waits(u, req) /\ Send(u, req)
         /\ \/ composed' = [composed EXCEPT ![u] =
                              Append(@, [box |-> recipient[u], text |-> <<>>])]
            \/ composed' = composed
  BY DEF Give
<1>3. req \in Commands /\ req \in Requests
  BY MayAssumption, SomeRequests
<1>4. /\ cl' = [cl EXCEPT ![u] = "await"] /\ asked' = [asked EXCEPT ![u] = req]
  BY <1>2 DEF Waits
<1>5. /\ up' \in [Users -> Seq(Requests)]
      /\ \A v \in Users \ {u} : up'[v] = up[v]
      /\ up'[u] = IF Reachable(u) THEN Append(up[u], req) ELSE up[u]
  BY <1>0, <1>2, <1>3, Sent
<1>6. TypeOK'
  <2>1. [box |-> recipient[u], text |-> <<>>] \in Messages
    <3>1. <<>> \in Seq(1 .. MaxLines)
      OBVIOUS
    <3> QED BY <1>0, <3>1 DEF Messages
  <2>2. ASSUME NEW m \in Messages, composed' = [composed EXCEPT ![u] = Append(@, m)]
        PROVE  composed' \in [Users -> Seq(Messages)]
    BY <1>0, <2>2
  <2>3. composed' \in [Users -> Seq(Messages)]
    BY <1>0, <1>2, <2>1, <2>2
  <2> QED BY <1>0, <1>1, <1>3, <1>4, <1>5, <2>3
          DEF TypeOK, ByClient, tableVars, threadVars, readVars, fileVars
<1>7. Frame(u)
  BY <1>0, <1>1, <1>4, <1>5 DEF Frame, ByClient, threadVars, readVars, fileVars
<1>8. /\ cl'[u] = "await" /\ net'[u] = net[u] /\ th'[u] = th[u]
      /\ down'[u] = down[u] /\ asked'[u] = req /\ astray' = astray /\ srv' = srv
  BY <1>0, <1>1, <1>4 DEF ByClient, threadVars
<1>9. /\ up[u] = <<>> /\ down[u] = <<>> /\ Unread(u)
      /\ net[u] = "none" => cl[u] = "out"
      /\ net[u] = "hup" => th[u] = "gone"
      /\ net[u] \in {"fin", "rst"} => cl[u] = "closed"
  BY <1>1 DEF IInv, InStep, Session, ConnectionPart, TurnPart
<1>10. /\ Len(up'[u]) <= 1
       /\ Reachable(u) => up'[u] = <<req>>
       /\ ~ Reachable(u) => up'[u] = <<>>
  BY <1>3, <1>5, <1>9
<1>11. /\ th[u] \notin {"data", "store", "read"} \/ up'[u] = <<>>
       /\ th[u] \notin {"data", "store", "read"}
  BY <1>9 DEF Unread
<1>12. StreamPart(u)'
  BY <1>1, <1>8, <1>10, <1>11 DEF StreamPart
<1>13. ConnectionPart(u)'
  BY <1>1, <1>8, <1>9, <1>11 DEF ConnectionPart
<1>14. TurnPart(u)'
  BY <1>3, <1>8, <1>9, <1>10 DEF TurnPart, Awaited, Unread, Reachable
<1> QED BY <1>1, <1>6, <1>7, <1>8, <1>12, <1>13, <1>14 DEF Session

(* The lines of a message, and no dot before the last.                     *)
LEMMA TextOnly ==
  ASSUME IInv, NEW u \in Users, cl[u] = "typing"
  PROVE  /\ \A i \in 1 .. Len(up[u]) : up[u][i].cmd = "text"
         /\ th[u] \in {"data", "command", "store"} /\ (u \notin astray => th[u] = "data")
<1>1. \A i \in 1 .. Len(up[u]) : up[u][i].cmd # "dot"
  BY DEF IInv, InStep, Session, StreamPart
<1>2. th[u] \in {"data", "command", "store"} /\ (u \notin astray => th[u] = "data")
  BY DEF IInv, InStep, Session, AstrayPart, TurnPart
<1>3. OnlyText(up[u])
  BY <1>2 DEF IInv, InStep, Session, StreamPart
<1> QED BY <1>1, <1>2, <1>3 DEF OnlyText

(* A line more of the message.                                             *)
LEMMA LineTyped ==
  ASSUME TypeOK, NEW u \in Users, NEW n \in 1 .. MaxLines,
         composed' = [composed EXCEPT ![u][Len(composed[u])].text = Append(@, n)]
  PROVE  /\ composed' \in [Users -> Seq(Messages)]
         /\ \A v \in Users \ {u} : composed'[v] = composed[v]
         /\ Len(composed'[u]) = Len(composed[u])
         /\ \A k \in 1 .. Len(composed[u]) :
              composed'[u][k] = IF k # Len(composed[u]) THEN composed[u][k]
                                ELSE [box  |-> composed[u][k].box,
                                      text |-> Append(composed[u][k].text, n)]
<1> DEFINE L == 1 .. MaxLines
           s == composed[u]
           x == [s[Len(s)] EXCEPT !.text = Append(s[Len(s)].text, n)]
<1>0. composed \in [Users -> Seq(Messages)] /\ s \in Seq(Messages)
  BY DEF TypeOK
<1>1. composed' = [composed EXCEPT ![u] = [s EXCEPT ![Len(s)] = x]]
  OBVIOUS
<1> HIDE DEF L
<1>2. ASSUME s # <<>>
      PROVE  x = [box |-> s[Len(s)].box, text |-> Append(s[Len(s)].text, n)] /\ x \in Messages
  <2>1. Len(s) \in 1 .. Len(s)
    BY <1>0, <1>2
  <2>2. s[Len(s)] \in Messages
    BY <1>0, <2>1, ElementOfSeq
  <2> DEFINE B == Boxes \cup {None}
             e == s[Len(s)]
  <2>3. /\ Messages = [box : B, text : Seq(L)] /\ n \in L
        /\ e \in [box : B, text : Seq(L)]
    BY <2>2 DEF Messages, L
  <2> HIDE DEF B, e
  <2>4. e.text \in Seq(L) /\ e.box \in B /\ Append(e.text, n) \in Seq(L)
    BY <2>3
  <2>5. [e EXCEPT !.text = Append(e.text, n)] = [box |-> e.box, text |-> Append(e.text, n)]
    <3>1. \A y : [e EXCEPT !.text = y] = [box |-> e.box, text |-> y]
      BY <2>3
    <3> QED BY <3>1
  <2>6. [box |-> e.box, text |-> Append(e.text, n)] \in [box : B, text : Seq(L)]
    BY <2>4
  <2> QED BY <2>3, <2>5, <2>6 DEF B, e, x
<1> HIDE DEF x
<1>3. /\ composed'[u] = [s EXCEPT ![Len(s)] = x]
      /\ \A v \in Users \ {u} : composed'[v] = composed[v]
  BY <1>0, <1>1
<1>4. CASE s = <<>>
  <2>1. Len(s) = 0 /\ 1 .. 0 = {} /\ DOMAIN s = {} /\ s = [i \in DOMAIN s |-> s[i]]
    BY <1>4
  <2>2. composed'[u] = s
    BY <1>3, <2>1
  <2>3. composed' = composed
    BY <1>0, <1>1, <1>3, <2>2
  <2> QED BY <1>0, <1>3, <2>1, <2>2, <2>3
<1>5. CASE s # <<>>
  <2>1. Len(s) \in 1 .. Len(s)
    BY <1>0, <1>5
  <2>2. /\ [s EXCEPT ![Len(s)] = x] \in Seq(Messages)
        /\ Len([s EXCEPT ![Len(s)] = x]) = Len(s)
        /\ \A k \in 1 .. Len(s) :
             [s EXCEPT ![Len(s)] = x][k] = IF k = Len(s) THEN x ELSE s[k]
    BY <1>0, <1>2, <1>5, <2>1, ExceptSeq
  <2>3. composed' \in [Users -> Seq(Messages)]
    BY <1>0, <1>1, <2>2
  <2> QED BY <1>2, <1>3, <1>5, <2>2, <2>3
<1> QED BY <1>4, <1>5

LEMMA TypeLineIInv ==
  ASSUME IInv, NEW u \in Users, TypeLine(u)
  PROVE  TypeOK' /\ Frame(u) /\ Session(u)'
<1>0. /\ typed \in [Users -> 0 .. MaxLines] /\ up \in [Users -> Seq(Requests)]
      /\ TypeOK /\ MaxLines \in Nat
  BY MailAssumption DEF IInv, TypeOK
<1>1. /\ cl[u] = "typing" /\ typed[u] < MaxLines /\ typed' = [typed EXCEPT ![u] = @ + 1]
      /\ Send(u, Req("text", None, typed'[u]))
      /\ \/ composed' = composed
         \/ composed' = [composed EXCEPT ![u][Len(composed[u])].text = Append(@, typed'[u])]
      /\ ByClient /\ UNCHANGED <<net, down, cl, asked>>
  BY DEF TypeLine
<1> DEFINE req == Req("text", None, typed'[u])
<1>2. /\ typed' \in [Users -> 0 .. MaxLines] /\ typed'[u] \in 1 .. MaxLines
  BY <1>0, <1>1
<1>3. req \in Requests /\ req.cmd = "text"
  BY <1>2, SomeRequests DEF Req
<1> HIDE DEF req
<1>4. /\ up' \in [Users -> Seq(Requests)]
      /\ \A v \in Users \ {u} : up'[v] = up[v]
      /\ up'[u] = IF Reachable(u) THEN Append(up[u], req) ELSE up[u]
  BY <1>0, <1>1, <1>3, Sent DEF req
<1>5. TypeOK'
  <2>1. composed' \in [Users -> Seq(Messages)]
    BY <1>0, <1>1, <1>2, LineTyped DEF TypeOK
  <2> QED BY <1>0, <1>1, <1>2, <1>4, <2>1
          DEF TypeOK, ByClient, tableVars, threadVars, readVars, fileVars
<1>6. Frame(u)
  BY <1>1, <1>4 DEF Frame, ByClient, threadVars, readVars, fileVars
<1>7. \A i \in 1 .. Len(up'[u]) : up'[u][i].cmd = "text"
  <2>1. up[u] \in Seq(Requests) /\ \A i \in 1 .. Len(up[u]) : up[u][i].cmd = "text"
    BY <1>0, <1>1, TextOnly
  <2> QED BY <1>3, <1>4, <2>1
<1>8. /\ UNCHANGED <<cl, net, th, down, asked, astray, cut, srv, reader>>
      /\ th[u] \in {"data", "command", "store"} /\ (u \notin astray => th[u] = "data")
  BY <1>1, TextOnly DEF ByClient, threadVars, readVars, fileVars
<1>9. StreamPart(u)'
  <2>1. OnlyText(up'[u]) /\ \A i \in 1 .. Len(up'[u]) : up'[u][i].cmd # "dot"
    BY <1>7 DEF OnlyText
  <2> QED BY <1>8, <2>1 DEF StreamPart
<1>10. ConnectionPart(u)'
  BY <1>1, <1>8 DEF IInv, InStep, Session, ConnectionPart
<1>11. u \in astray => AstrayPart(u)'
  BY <1>1, <1>8, SomeRequests DEF IInv, InStep, Session, AstrayPart, ConnectionPart
<1>12. u \notin astray => TurnPart(u)'
  BY <1>1, <1>8 DEF IInv, InStep, Session, TurnPart
<1> QED BY <1>5, <1>6, <1>8, <1>9, <1>10, <1>11, <1>12 DEF Session

LEMMA EndTextIInv ==
  ASSUME IInv, NEW u \in Users, EndText(u)
  PROVE  TypeOK' /\ Frame(u) /\ Session(u)'
<1>0. /\ cl \in [Users -> {"out", "prompt", "await", "typing", "leaving", "closed"}]
      /\ asked \in [Users -> Requests \cup {Quiet}] /\ up \in [Users -> Seq(Requests)]
      /\ TypeOK
  BY DEF IInv, TypeOK
<1>1. /\ cl[u] = "typing" /\ ByClient /\ UNCHANGED <<net, down, composed, typed>>
      /\ cl' = [cl EXCEPT ![u] = "await"] /\ asked' = [asked EXCEPT ![u] = Dot]
      /\ Send(u, Dot) \/ UNCHANGED up
  BY DEF EndText, Waits
<1>2. /\ up' \in [Users -> Seq(Requests)]
      /\ \A v \in Users \ {u} : up'[v] = up[v]
      /\ up'[u] \in {Append(up[u], Dot), up[u]}
  BY <1>0, <1>1, Sent, SomeRequests
<1>3. TypeOK'
  BY <1>0, <1>1, <1>2, SomeRequests
     DEF TypeOK, ByClient, tableVars, threadVars, readVars, fileVars
<1>4. Frame(u)
  BY <1>0, <1>1, <1>2 DEF Frame, ByClient, threadVars, readVars, fileVars
<1>5. /\ cl'[u] = "await" /\ asked'[u] = Dot
      /\ UNCHANGED <<net, th, down, astray, cut, srv, reader>>
      /\ th[u] \in {"data", "command", "store"} /\ (u \notin astray => th[u] = "data")
  BY <1>0, <1>1, TextOnly DEF ByClient, threadVars, readVars, fileVars
<1>6. \A i \in 1 .. Len(up'[u]) : up'[u][i].cmd = "text" \/ (up'[u][i].cmd = "dot" /\ i = Len(up'[u]))
  <2>1. \A i \in 1 .. Len(up[u]) : up[u][i].cmd = "text"
    BY <1>1, TextOnly
  <2>2. up[u] \in Seq(Requests) /\ Dot \in Requests /\ Dot.cmd = "dot"
    BY <1>0, SomeRequests
  <2>3. CASE up'[u] = Append(up[u], Dot)
    BY <2>1, <2>2, <2>3
  <2>4. CASE up'[u] = up[u]
    BY <2>1, <2>4
  <2> QED BY <1>2, <2>3, <2>4
<1>7. StreamPart(u)'
  BY <1>5, <1>6 DEF StreamPart, OnlyText
<1>8. ConnectionPart(u)'
  BY <1>1, <1>5 DEF IInv, InStep, Session, ConnectionPart
<1>9. u \in astray => AstrayPart(u)'
  BY <1>1, <1>5 DEF IInv, InStep, Session, AstrayPart, Dot, Quiet, Req
<1>10. u \notin astray => TurnPart(u)'
  BY <1>1, <1>5 DEF IInv, InStep, Session, TurnPart, Awaited
<1> QED BY <1>3, <1>4, <1>5, <1>7, <1>8, <1>9, <1>10 DEF Session

LEMMA ReceiveIInv ==
  ASSUME IInv, NEW u \in Users, Receive(u)
  PROVE  TypeOK' /\ Frame(u) /\ Session(u)'
<1> DEFINE A == [to : Requests, kind : Answers, items : Items, opened : Nat]
<1>0. /\ cl \in [Users -> {"out", "prompt", "await", "typing", "leaving", "closed"}]
      /\ asked \in [Users -> Requests \cup {Quiet}] /\ down \in [Users -> Seq(A)]
      /\ TypeOK
  BY DEF IInv, TypeOK
<1> HIDE DEF A
<1>1. /\ cl[u] = "await" /\ ByClient /\ UNCHANGED <<net, up, composed, typed>>
      /\ cl' = [cl EXCEPT ![u] = IF asked[u].cmd = "data" THEN "typing" ELSE
                                 IF asked[u].cmd = "quit" THEN "leaving" ELSE "prompt"]
      /\ asked' = [asked EXCEPT ![u] = Quiet]
  BY DEF Receive
<1>2. PICK k \in 1 .. Len(down[u]) :
         down' = [down EXCEPT ![u] = SubSeq(@, k + 1, Len(@))]
  BY DEF Receive
<1>3. /\ down[u] \in Seq(A) /\ down'[u] = SubSeq(down[u], k + 1, Len(down[u]))
  BY <1>0, <1>2
<1>4. /\ down'[u] \in Seq(A) /\ Len(down'[u]) = Len(down[u]) - k /\ Len(down[u]) \in Nat
  BY <1>3, Taken
<1>5. down' \in [Users -> Seq(A)]
  BY <1>0, <1>2, <1>3, <1>4
<1>6. TypeOK'
  BY <1>0, <1>1, <1>5 DEF A, TypeOK, ByClient, tableVars, threadVars, readVars, fileVars
<1>7. Frame(u)
  BY <1>0, <1>1, <1>2 DEF Frame, ByClient, threadVars, readVars, fileVars
<1>8. /\ cl'[u] = (IF asked[u].cmd = "data" THEN "typing" ELSE
                     IF asked[u].cmd = "quit" THEN "leaving" ELSE "prompt")
      /\ asked'[u] = Quiet
      /\ UNCHANGED <<net, th, up, astray, cut, srv, reader>>
  BY <1>0, <1>1 DEF ByClient, threadVars, readVars, fileVars
<1>9. down[u] # <<>>
  BY <1>4
<1>10. ConnectionPart(u)'
  BY <1>1, <1>8 DEF IInv, InStep, Session, ConnectionPart
<1>11. CASE u \notin astray
  <2>1. Len(down[u]) = 1 /\ up[u] = <<>> /\ th[u] \in After(asked[u])
    <3>1. Awaited(u)
      BY <1>1, <1>11 DEF IInv, InStep, Session, TurnPart
    <3> QED BY <1>9, <3>1 DEF Awaited
  <2>2. down'[u] = <<>>
    BY <1>4, <2>1
  <2>3. StreamPart(u)'
    BY <1>8, <1>11, <2>1 DEF StreamPart, OnlyText
  <2>4. TurnPart(u)'
    BY <1>8, <2>1, <2>2 DEF TurnPart, After, Unread
  <2> QED BY <1>6, <1>7, <1>8, <1>10, <1>11, <2>3, <2>4 DEF Session
<1>12. CASE u \in astray
  <2>1. AstrayPart(u) /\ StreamPart(u)
    BY <1>12 DEF IInv, InStep, Session
  <2>2. asked[u].cmd # "quit" /\ (asked[u].cmd = "data" => up[u] = <<>>)
    BY <2>1, SomeRequests DEF AstrayPart
  <2>3. StreamPart(u)'
    BY <1>8, <2>1, <2>2 DEF StreamPart
  <2>4. AstrayPart(u)'
    BY <1>1, <1>8, <2>1, <2>2 DEF AstrayPart
  <2> QED BY <1>6, <1>7, <1>8, <1>10, <1>12, <2>3, <2>4 DEF Session
<1> QED BY <1>11, <1>12

(* A part of an answer is taken, and the rest waits.                       *)
LEMMA ReceiveSomeIInv ==
  ASSUME IInv, NEW u \in Users, ReceiveSome(u)
  PROVE  TypeOK' /\ Frame(u) /\ Session(u)'
<1> DEFINE A == [to : Requests, kind : Answers, items : Items, opened : Nat]
           x == [Head(down[u]) EXCEPT !.kind = "rest"]
<1>0. /\ cl \in [Users -> {"out", "prompt", "await", "typing", "leaving", "closed"}]
      /\ asked \in [Users -> Requests \cup {Quiet}] /\ down \in [Users -> Seq(A)]
      /\ astray \subseteq Users /\ TypeOK /\ Session(u)
  BY DEF IInv, TypeOK, InStep
<1>1. /\ cl[u] = "await" /\ asked[u].cmd \in {"list", "get"} /\ down[u] # <<>>
      /\ down' = [down EXCEPT ![u][1].kind = "rest"]
      /\ cl' = [cl EXCEPT ![u] = "prompt"] /\ asked' = [asked EXCEPT ![u] = Quiet]
      /\ astray' = astray \cup {u}
      /\ UNCHANGED <<srv, tableVars, threadVars, readVars, fileVars, net, up,
                     composed, typed>>
  BY DEF ReceiveSome
<1>2. Head(down[u]) = down[u][1] /\ down[u][1] \in A /\ 1 \in 1 .. Len(down[u])
  <2> HIDE DEF A
  <2> QED BY <1>0, <1>1
<1>3. x \in A
  BY <1>2 DEF Answers
<1>4. down' = [down EXCEPT ![u] = [@ EXCEPT ![1] = x]]
  BY <1>1, <1>2
<1> HIDE DEF A, x
<1>5. [down[u] EXCEPT ![1] = x] \in Seq(A)
  BY <1>0, <1>2, <1>3
<1>6. down' \in [Users -> Seq(A)] /\ \A v \in Users \ {u} : down'[v] = down[v]
  BY <1>0, <1>4, <1>5
<1>7. TypeOK'
  BY <1>0, <1>1, <1>6 DEF A, TypeOK, tableVars, threadVars, readVars, fileVars
<1>8. Frame(u)
  BY <1>0, <1>1, <1>6 DEF Frame, threadVars, readVars, fileVars
<1>9. /\ cl'[u] = "prompt" /\ asked'[u] = Quiet /\ u \in astray'
      /\ UNCHANGED <<net, th, up, srv, reader, cut>>
  BY <1>0, <1>1 DEF threadVars, readVars, fileVars
<1>10. /\ asked[u] # Dot /\ asked[u] # Quiet /\ "data" # asked[u].cmd
  BY <1>1, SomeRequests
<1>11. CASE u \in astray
  <2>1. FALSE
    BY <1>0, <1>10, <1>11 DEF Session, AstrayPart
  <2> QED BY <2>1
<1>12. CASE u \notin astray
  <2>1. up[u] = <<>> /\ th[u] = "command"
    <3>1. Awaited(u)
      BY <1>0, <1>1, <1>12 DEF Session, TurnPart
    <3> QED BY <1>1, <3>1 DEF Awaited, After
  <2>2. StreamPart(u)'
    BY <1>9, <2>1 DEF StreamPart, OnlyText
  <2>3. ConnectionPart(u)'
    BY <1>0, <1>1, <1>9 DEF Session, ConnectionPart
  <2>4. AstrayPart(u)'
    BY <1>9, <2>1 DEF AstrayPart
  <2> QED BY <1>7, <1>8, <1>9, <2>2, <2>3, <2>4 DEF Session
<1> QED BY <1>11, <1>12

LEMMA CloseIInv ==
  ASSUME IInv, NEW u \in Users, cl[u] \notin {"out", "closed"}, Close(u)
  PROVE  TypeOK' /\ Frame(u) /\ Session(u)'
<1>0. /\ cl \in [Users -> {"out", "prompt", "await", "typing", "leaving", "closed"}]
      /\ asked \in [Users -> Requests \cup {Quiet}]
      /\ net \in [Users -> {"none", "open", "fin", "rst", "hup"}]
      /\ down \in [Users -> Seq([to : Requests, kind : Answers, items : Items, opened : Nat])]
      /\ TypeOK
  BY DEF IInv, TypeOK
<1>1. /\ cl' = [cl EXCEPT ![u] = "closed"] /\ asked' = [asked EXCEPT ![u] = Quiet]
      /\ net' = [net EXCEPT ![u] = IF @ = "hup" THEN @ ELSE
                                   IF down[u] = <<>> THEN "fin" ELSE "rst"]
      /\ down' = [down EXCEPT ![u] = <<>>]
      /\ ByClient /\ UNCHANGED <<up, composed, typed>>
  BY DEF Close
<1>2. /\ net' \in [Users -> {"none", "open", "fin", "rst", "hup"}]
      /\ down' \in [Users -> Seq([to : Requests, kind : Answers, items : Items, opened : Nat])]
  <2> DEFINE S == [to : Requests, kind : Answers, items : Items, opened : Nat]
  <2>1. down \in [Users -> Seq(S)]
    BY <1>0
  <2> HIDE DEF S
  <2>2. <<>> \in Seq(S)
    OBVIOUS
  <2>3. down' \in [Users -> Seq(S)]
    BY <1>1, <2>1, <2>2
  <2> QED BY <1>0, <1>1, <2>3 DEF S
<1>3. TypeOK'
  BY <1>0, <1>1, <1>2 DEF TypeOK, ByClient, tableVars, threadVars, readVars, fileVars
<1>4. Frame(u)
  BY <1>0, <1>1 DEF Frame, ByClient, threadVars, readVars, fileVars
<1>5. /\ cl'[u] = "closed" /\ asked'[u] = Quiet /\ down'[u] = <<>>
      /\ net'[u] \in {"fin", "rst", "hup"} /\ (net'[u] = "hup" => net[u] = "hup")
      /\ UNCHANGED <<th, up, astray, cut, srv, reader>>
  BY <1>0, <1>1 DEF ByClient, threadVars, readVars, fileVars
<1>6. StreamPart(u)'
  BY <1>5 DEF IInv, InStep, Session, StreamPart
<1>7. ConnectionPart(u)'
  BY <1>5 DEF IInv, InStep, Session, ConnectionPart
<1>8. u \in astray => AstrayPart(u)'
  BY <1>5 DEF IInv, InStep, Session, AstrayPart
<1>9. TurnPart(u)'
  BY <1>5 DEF TurnPart
<1> QED BY <1>3, <1>4, <1>5, <1>6, <1>7, <1>8, <1>9 DEF Session

LEMMA ClientIInv ==
  ASSUME IInv, NEW u \in Users, Client(u)
  PROVE  IInv'
<1>1. TypeOK' /\ Frame(u) /\ Session(u)'
  BY ConnectIInv, GiveIInv, TypeLineIInv, EndTextIInv, ReceiveIInv, ReceiveSomeIInv, CloseIInv
     DEF Client, Leave, Hungup
<1>2. UNCHANGED <<srv, tableVars, threadVars>>
  BY DEF Client, Connect, Give, TypeLine, EndText, Receive, ReceiveSome, Leave, Hungup, Close,
     ByClient
<1>3. TablePart'
  BY <1>2 DEF IInv, InStep, TablePart, tableVars, threadVars
<1>4. \A v \in Users \ {u} : Session(v)'
  BY <1>1, OthersStay DEF IInv, InStep
<1> QED BY <1>1, <1>3, <1>4 DEF IInv, InStep

-----------------------------------------------------------------------------
(* main and the table of clients.                                          *)
LEMMA FirstIsFree ==
  ASSUME FreeEntries # {}
  PROVE  FirstEntry \in FreeEntries
<1> DEFINE R == {ss \in Nat \X Nat : ss[1] < ss[2]}
<1>1. FreeEntries \in SUBSET Nat
  BY MailAssumption DEF FreeEntries, Slots
<1>2. IsWellFoundedOn(R, Nat)
  BY NatLessThanWellFounded DEF OpToRel
<1> HIDE DEF R
<1>3. \E x \in FreeEntries : \A y \in FreeEntries : ~ (<<y, x>> \in R)
  BY <1>1, <1>2, WFMin
<1>4. \A x, y \in FreeEntries : ~ (<<y, x>> \in R) => x <= y
  BY <1>1 DEF R
<1>5. \E x \in FreeEntries : \A y \in FreeEntries : x <= y
  BY <1>3, <1>4
<1> QED BY <1>5 DEF FirstEntry, Min

LEMMA AcceptIInv ==
  ASSUME IInv, NEW u \in Users, Accept(u)
  PROVE  IInv'
<1>0. /\ th \in [Users -> Places] /\ index \in [Users -> {0} \cup Slots]
      /\ clients \in [Slots -> Users \cup {None}]
      /\ net \in [Users -> {"none", "open", "fin", "rst", "hup"}]
      /\ None \notin Users /\ 0 \notin Slots
  BY MailAssumption DEF IInv, TypeOK, Slots
<1>1. /\ srv = "up" /\ cl[u] # "out" /\ th[u] = "none" /\ AddClient(u)
      /\ \/ th' = [th EXCEPT ![u] = "command"] /\ UNCHANGED net
         \/ th' = [th EXCEPT ![u] = "gone"] /\ net' = [net EXCEPT ![u] = "hup"]
      /\ UNCHANGED <<srv, recipient, hasSender, message, pending, readVars,
                     fileVars, up, down, userVars, astray>>
  BY DEF Accept
<1>2. \/ FreeEntries = {} /\ UNCHANGED <<clients, index>>
      \/ \E i \in Slots : /\ clients[i] = None
                          /\ clients' = [clients EXCEPT ![i] = u]
                          /\ index' = [index EXCEPT ![u] = i]
  BY <1>1, FirstIsFree DEF AddClient, tableVars, FreeEntries
<1>3. TypeOK'
  <2>1. /\ clients' \in [Slots -> Users \cup {None}] /\ index' \in [Users -> {0} \cup Slots]
    BY <1>0, <1>2
  <2>2. /\ th' \in [Users -> Places]
        /\ net' \in [Users -> {"none", "open", "fin", "rst", "hup"}]
    BY <1>0, <1>1 DEF Places
  <2> QED BY <1>1, <2>1, <2>2 DEF IInv, TypeOK, readVars, fileVars, userVars
<1>4. Frame(u)
  BY <1>0, <1>1 DEF Frame, userVars, readVars, fileVars
<1>5. /\ \/ th'[u] = "command" /\ net'[u] = net[u]
         \/ th'[u] = "gone" /\ net'[u] = "hup"
      /\ UNCHANGED <<srv, cl, asked, up, down, reader, astray>>
  BY <1>0, <1>1 DEF userVars, readVars
<1>6. Session(u)'
  <2>0. Session(u) /\ u \notin astray
    BY <1>1 DEF IInv, InStep, Session, AstrayPart
  <2>1. StreamPart(u)'
    BY <1>5, <2>0 DEF Session, StreamPart
  <2>2. ConnectionPart(u)'
    BY <1>1, <1>5, <2>0 DEF Session, ConnectionPart
  <2>3. cl[u] = "await" => Awaited(u)'
    <3>1. cl[u] = "await" => down[u] = <<>> /\ up[u] = <<asked[u]>> /\ asked[u] \in Commands
      BY <1>1, <2>0 DEF Session, TurnPart, ConnectionPart, Awaited, After, Reachable
    <3> QED BY <1>5, <3>1 DEF Awaited, Unread
  <2>4. TurnPart(u)'
    BY <1>1, <1>5, <2>0, <2>3 DEF Session, TurnPart, Unread
  <2> QED BY <1>5, <2>0, <2>1, <2>2, <2>4 DEF Session
<1>7. TablePart'
  <2>1. th'[u] # "none" /\ \A v \in Users \ {u} : th'[v] = th[v]
    BY <1>0, <1>1
  <2>2. TablePart
    BY DEF IInv, InStep
  <2>3. index[u] = 0 /\ \A k \in Slots : clients[k] # u
    BY <1>0, <1>1, <2>2 DEF TablePart
  <2>4. CASE UNCHANGED <<clients, index>>
    BY <1>0, <2>1, <2>2, <2>3, <2>4 DEF TablePart
  <2>5. ASSUME NEW i \in Slots, clients[i] = None, clients' = [clients EXCEPT ![i] = u],
               index' = [index EXCEPT ![u] = i]
        PROVE  TablePart'
    <3>1. /\ clients'[i] = u /\ index'[u] = i
          /\ \A k \in Slots \ {i} : clients'[k] = clients[k]
          /\ \A v \in Users \ {u} : index'[v] = index[v]
      BY <1>0, <2>5
    <3>2. ASSUME NEW k \in Slots, clients'[k] # None
          PROVE  th'[clients'[k]] # "none" /\ index'[clients'[k]] = k
      <4>1. CASE k = i
        BY <2>1, <3>1, <4>1
      <4>2. CASE k # i
        <5>1. clients'[k] = clients[k] /\ clients[k] \in Users \ {u}
          BY <1>0, <2>3, <3>1, <3>2, <4>2
        <5> QED BY <2>1, <2>2, <3>1, <3>2, <5>1 DEF TablePart
      <4> QED BY <4>1, <4>2
    <3>3. ASSUME NEW v \in Users, th'[v] = "none" PROVE index'[v] = 0
      BY <2>1, <2>2, <3>1, <3>3 DEF TablePart
    <3>4. ASSUME NEW v \in Users, th'[v] \notin {"none", "gone"}, index'[v] # 0
          PROVE  clients'[index'[v]] = v
      <4>1. CASE v = u
        BY <3>1, <4>1
      <4>2. CASE v # u
        <5>1. index'[v] = index[v] /\ clients[index[v]] = v /\ index[v] \in Slots
          BY <1>0, <2>1, <2>2, <3>1, <3>4, <4>2 DEF TablePart
        <5>2. index[v] # i
          BY <1>0, <2>5, <5>1
        <5> QED BY <3>1, <5>1, <5>2
      <4> QED BY <4>1, <4>2
    <3> QED BY <3>2, <3>3, <3>4 DEF TablePart
  <2> QED BY <1>2, <2>4, <2>5
<1> QED BY <1>3, <1>4, <1>6, <1>7, OthersStay DEF IInv, InStep

(* A thread removes its own entry; one that has none spoils nothing but    *)
(* the server as a whole.                                                  *)
LEMMA RemoveClientIInv ==
  ASSUME IInv, NEW u \in Users, RemoveClient(u)
  PROVE  IInv'
<1>0. /\ th \in [Users -> Places] /\ index \in [Users -> {0} \cup Slots]
      /\ clients \in [Slots -> Users \cup {None}]
      /\ net \in [Users -> {"none", "open", "fin", "rst", "hup"}]
      /\ recipient \in [Users -> Boxes \cup {None}] /\ hasSender \in [Users -> BOOLEAN]
      /\ None \notin Users /\ 0 \notin Slots
  BY MailAssumption DEF IInv, TypeOK, Slots
<1>1. /\ srv = "up" /\ th[u] = "closing" /\ th' = [th EXCEPT ![u] = "gone"]
      /\ recipient' = [recipient EXCEPT ![u] = None]
      /\ hasSender' = [hasSender EXCEPT ![u] = FALSE]
      /\ UNCHANGED <<index, message, pending, readVars, fileVars, up, down,
                     userVars, astray>>
  BY DEF RemoveClient
<1>2. /\ \/ \E i \in Slots : /\ clients[i] = u /\ clients' = [clients EXCEPT ![i] = None]
         \/ clients' = clients
      /\ net' = [net EXCEPT ![u] = "hup"] \/ net' = net
      /\ srv' \in {"up", "undefined"}
  BY <1>0, <1>1 DEF RemoveClient
<1>3. TypeOK'
  <2>1. /\ clients' \in [Slots -> Users \cup {None}] /\ th' \in [Users -> Places]
        /\ net' \in [Users -> {"none", "open", "fin", "rst", "hup"}]
        /\ recipient' \in [Users -> Boxes \cup {None}] /\ hasSender' \in [Users -> BOOLEAN]
    BY <1>0, <1>1, <1>2 DEF Places
  <2> QED BY <1>1, <1>2, <2>1 DEF IInv, TypeOK, readVars, fileVars, userVars
<1>4. Frame(u)
  BY <1>0, <1>1, <1>2 DEF Frame, userVars, readVars, fileVars
<1>5. /\ th'[u] = "gone" /\ net'[u] \in {net[u], "hup"}
      /\ UNCHANGED <<cl, asked, up, down, reader, astray>>
  BY <1>0, <1>1, <1>2 DEF userVars, readVars
<1>6. Session(u)'
  <2>0. Session(u) /\ net[u] # "hup"
    BY <1>1 DEF IInv, InStep, Session, ConnectionPart
  <2>1. StreamPart(u)'
    BY <1>1, <1>5, <2>0 DEF Session, StreamPart, OnlyText
  <2>2. ConnectionPart(u)'
    BY <1>1, <1>5, <2>0 DEF Session, ConnectionPart
  <2>3. u \in astray => AstrayPart(u)'
    BY <1>1, <1>5, <2>0 DEF Session, AstrayPart
  <2>4. u \notin astray /\ cl[u] = "await" => Awaited(u)'
    <3>1. u \notin astray /\ cl[u] = "await" =>
            /\ Len(down[u]) = 1 /\ down[u][1].to = asked[u] /\ up[u] = <<>>
            /\ "closing" \in After(asked[u])
      BY <1>1, <2>0 DEF Session, TurnPart, ConnectionPart, Awaited, Unread, Reachable
    <3> QED BY <1>5, <3>1 DEF Awaited, After
  <2>5. u \notin astray => TurnPart(u)'
    BY <1>1, <1>5, <2>0, <2>4 DEF Session, TurnPart, Unread
  <2> QED BY <1>5, <2>1, <2>2, <2>3, <2>5 DEF Session
<1>7. TablePart'
  <2>1. TablePart /\ index' = index /\ \A v \in Users \ {u} : th'[v] = th[v]
    BY <1>0, <1>1 DEF IInv, InStep
  <2>2. ASSUME NEW k \in Slots, clients'[k] # None
        PROVE  th'[clients'[k]] # "none" /\ index'[clients'[k]] = k
    <3>1. clients'[k] = clients[k] /\ clients[k] \in Users
      BY <1>0, <1>2, <2>2
    <3> QED BY <1>5, <2>1, <2>2, <3>1 DEF TablePart
  <2>3. ASSUME NEW v \in Users, th'[v] = "none" PROVE index'[v] = 0
    BY <1>5, <2>1, <2>3 DEF TablePart
  <2>4. ASSUME NEW v \in Users, th'[v] \notin {"none", "gone"}, index'[v] # 0
        PROVE  clients'[index'[v]] = v
    <3>1. v # u /\ index[v] \in Slots /\ clients[index[v]] = v
      BY <1>0, <1>5, <2>1, <2>4 DEF TablePart
    <3> QED BY <1>0, <1>2, <2>1, <3>1
  <2> QED BY <2>2, <2>3, <2>4 DEF TablePart
<1> QED BY <1>3, <1>4, <1>6, <1>7, OthersStay DEF IInv, InStep

-----------------------------------------------------------------------------
(* handle_client.  A thread at the command loop that finds a command: its  *)
(* user waits for the answer to it, or has gone.                           *)
LEMMA CommandAsked ==
  ASSUME IInv, NEW u \in Users, th[u] = "command", up[u] # <<>>,
         Head(up[u]).cmd \notin {"text", "dot"}
  PROVE  /\ u \notin astray /\ Len(up[u]) = 1 /\ Head(up[u]) \in Commands
         /\ \/ cl[u] = "closed" /\ net[u] \in {"fin", "rst"}
            \/ /\ cl[u] = "await" /\ asked[u] = Head(up[u]) /\ down[u] = <<>>
               /\ net[u] = "open"
<1>0. /\ up[u] \in Seq(Requests) /\ Session(u)
      /\ cl[u] \in {"out", "prompt", "await", "typing", "leaving", "closed"}
      /\ net[u] \in {"none", "open", "fin", "rst", "hup"}
  BY DEF IInv, TypeOK, InStep
<1>1. Head(up[u]) = up[u][1] /\ Head(up[u]) \in Requests /\ Len(up[u]) \in Nat \ {0}
  BY <1>0
<1>2. ~ OnlyText(up[u])
  BY <1>1 DEF OnlyText
<1>3. u \notin astray /\ Len(up[u]) = 1
  <2>1. u \notin astray /\ Len(up[u]) <= 1
    BY <1>0, <1>2 DEF Session, StreamPart
  <2>2. \A n \in Nat \ {0} : n <= 1 => n = 1
    OBVIOUS
  <2>3. Len(up[u]) \in Nat \ {0}
    BY <1>1
  <2> QED BY <2>1, <2>2, <2>3
<1>4. Head(up[u]) \in Commands
  BY <1>1, RequestKinds
<1>5. net[u] \notin {"none", "hup"}
  BY <1>0 DEF Session, ConnectionPart
<1>6. CASE cl[u] = "closed"
  BY <1>0, <1>3, <1>4, <1>5, <1>6 DEF Session, ConnectionPart
<1>7. CASE cl[u] = "await"
  <2>1. Awaited(u)
    BY <1>0, <1>3, <1>7 DEF Session, TurnPart
  <2>2. down[u] = <<>> /\ up[u] = <<asked[u]>>
    BY <2>1 DEF Awaited
  <2>3. net[u] \notin {"fin", "rst"}
    BY <1>0, <1>7 DEF Session, ConnectionPart
  <2> QED BY <1>0, <1>1, <1>3, <1>4, <1>5, <1>7, <2>2, <2>3
<1> QED BY <1>0, <1>3, <1>6, <1>7 DEF Session, TurnPart, ConnectionPart

(* The answer to a command.                                                *)
LEMMA AnswerCommand ==
  ASSUME IInv, NEW u \in Users, th[u] = "command", up[u] # <<>>,
         Head(up[u]).cmd \notin {"text", "dot"}, up'[u] = <<>>,
         th'[u] \in After(Head(up[u])), UNCHANGED <<cl, asked>>, u \notin astray',
         \/ /\ net[u] = "open" /\ net'[u] = "open"
            /\ down[u] = <<>> => Len(down'[u]) = 1 /\ down'[u][1].to = Head(up[u])
         \/ net[u] \in {"fin", "rst"} /\ net'[u] = "rst" /\ down'[u] = down[u]
  PROVE  Session(u)'
<1>0. Session(u)
  BY DEF IInv, InStep
<1>1. th'[u] \in {"data", "closing", "gone", "command"}
  BY DEF After
<1>2. \/ cl[u] = "closed" /\ net[u] \in {"fin", "rst"}
      \/ cl[u] = "await" /\ asked[u] = Head(up[u]) /\ down[u] = <<>> /\ net[u] = "open"
  BY CommandAsked
<1>3. StreamPart(u)'
  BY <1>1 DEF StreamPart, OnlyText
<1>4. ConnectionPart(u)'
  BY <1>0, <1>1, <1>2 DEF Session, ConnectionPart
<1>5. TurnPart(u)'
  BY <1>0, <1>2 DEF Session, ConnectionPart, TurnPart, Awaited
<1> QED BY <1>3, <1>4, <1>5 DEF Session

(* recv.                                                                   *)
LEMMA TakenUp ==
  ASSUME TypeOK, NEW u \in Users, NEW k, Takes(u, k)
  PROVE  /\ up[u] # <<>> /\ k \in 1 .. Len(up[u]) /\ Len(up[u]) \in Nat \ {0}
         /\ Head(up[u]) = up[u][1] /\ Head(up[u]) \in Requests
         /\ up' \in [Users -> Seq(Requests)]
         /\ \A v \in Users \ {u} : up'[v] = up[v]
         /\ Len(up'[u]) = Len(up[u]) - k
         /\ \A i \in 1 .. Len(up'[u]) : up'[u][i] = up[u][i + k]
         /\ Len(up[u]) = k => up'[u] = <<>>
<1>0. up \in [Users -> Seq(Requests)] /\ up[u] \in Seq(Requests)
  BY DEF TypeOK
<1>1. k \in 1 .. Len(up[u]) /\ up' = [up EXCEPT ![u] = SubSeq(@, k + 1, Len(@))]
  BY DEF Takes
<1>2. /\ SubSeq(up[u], k + 1, Len(up[u])) \in Seq(Requests)
      /\ Len(SubSeq(up[u], k + 1, Len(up[u]))) = Len(up[u]) - k
      /\ \A i \in 1 .. Len(up[u]) - k : SubSeq(up[u], k + 1, Len(up[u]))[i] = up[u][i + k]
  BY <1>0, <1>1, Taken
<1>3. up'[u] = SubSeq(up[u], k + 1, Len(up[u]))
  BY <1>0, <1>1
<1>4. up' \in [Users -> Seq(Requests)] /\ \A v \in Users \ {u} : up'[v] = up[v]
  BY <1>0, <1>1, <1>2
<1>5. /\ up[u] # <<>> /\ Len(up[u]) \in Nat \ {0}
      /\ Head(up[u]) = up[u][1] /\ Head(up[u]) \in Requests
  BY <1>0, <1>1
<1>6. Len(up[u]) = k => up'[u] = <<>>
  BY <1>0, <1>2, <1>3
<1> QED BY <1>1, <1>2, <1>3, <1>4, <1>5, <1>6

LEMMA RecvSimpleIInv ==
  ASSUME IInv, NEW u \in Users, RecvSimple(u)
  PROVE  TypeOK' /\ Frame(u) /\ Session(u)'
<1>0. /\ th \in [Users -> Places] /\ hasSender \in [Users -> BOOLEAN]
      /\ recipient \in [Users -> Boxes \cup {None}] /\ TypeOK
  BY DEF IInv, TypeOK
<1> DEFINE req == Head(up[u])
<1>1. /\ srv = "up" /\ th[u] = "command" /\ Takes(u, 1) /\ req.cmd \in {"mail", "rcpt", "quit"}
      /\ hasSender' = [hasSender EXCEPT ![u] = @ \/ req.cmd = "mail"]
      /\ recipient' = [recipient EXCEPT ![u] = IF req.cmd = "rcpt" THEN req.box ELSE @]
      /\ th' = [th EXCEPT ![u] = IF req.cmd = "quit" THEN "closing" ELSE "command"]
      /\ Reply(u, req, IF req.cmd = "quit" THEN "goodbye" ELSE "ok", <<>>, 0)
      /\ ByThread /\ UNCHANGED <<message, pending, readVars, fileVars, astray>>
  BY DEF RecvSimple, Thread, Goto
<1>2. /\ up[u] # <<>> /\ req \in Requests /\ up' \in [Users -> Seq(Requests)]
      /\ \A v \in Users \ {u} : up'[v] = up[v]
      /\ Len(up[u]) = 1 => up'[u] = <<>>
  BY <1>0, <1>1, TakenUp
<1>3. /\ u \notin astray /\ Len(up[u]) = 1
  BY <1>1, <1>2, CommandAsked
<1> HIDE DEF req
<1>4. <<>> \in Items /\ 0 \in Nat /\ {"goodbye", "ok"} \subseteq Answers
  BY DEF Items, Answers
<1>5. /\ srv' \in {"up", "down"}
      /\ net' \in [Users -> {"none", "open", "fin", "rst", "hup"}]
      /\ down' \in [Users -> Seq([to : Requests, kind : Answers, items : Items,
                                  opened : Nat])]
      /\ \A v \in Users \ {u} : net'[v] = net[v] /\ down'[v] = down[v]
      /\ \/ /\ net[u] = "open" /\ net'[u] = "open"
            /\ down[u] = <<>> => Len(down'[u]) = 1 /\ down'[u][1].to = req
         \/ net[u] \in {"fin", "rst"} /\ net'[u] = "rst" /\ down'[u] = down[u]
  BY <1>0, <1>1, <1>2, <1>4, ReplySent
<1>6. TypeOK'
  <2>1. /\ hasSender' \in [Users -> BOOLEAN] /\ th' \in [Users -> Places]
    BY <1>0, <1>1 DEF Places
  <2>2. recipient' \in [Users -> Boxes \cup {None}]
    BY <1>0, <1>1, <1>2, RequestKinds
  <2> QED BY <1>0, <1>1, <1>2, <1>5, <2>1, <2>2
          DEF TypeOK, ByThread, tableVars, userVars, readVars, fileVars
<1>7. Frame(u)
  BY <1>0, <1>1, <1>2, <1>5 DEF Frame, ByThread, userVars, readVars, fileVars
<1>8. /\ th'[u] \in After(req) /\ up'[u] = <<>> /\ UNCHANGED <<cl, asked, astray>>
  BY <1>0, <1>1, <1>2, <1>3 DEF After, ByThread, userVars
<1>9. Session(u)'
  BY <1>1, <1>2, <1>3, <1>5, <1>8, AnswerCommand DEF req
<1> QED BY <1>6, <1>7, <1>9

(* DATA is followed by the message, or was refused: the client is astray.  *)
LEMMA RecvDataIInv ==
  ASSUME IInv, NEW u \in Users, RecvData(u)
  PROVE  TypeOK' /\ Frame(u) /\ Session(u)'
<1>0. th \in [Users -> Places] /\ astray \subseteq Users /\ TypeOK
  BY DEF IInv, TypeOK
<1> DEFINE req == Head(up[u])
<1>1. /\ srv = "up" /\ th[u] = "command" /\ Takes(u, 1) /\ req.cmd = "data"
      /\ \E kind \in {"prompt", "badseq"} : Reply(u, req, kind, <<>>, 0)
      /\ \/ th' = [th EXCEPT ![u] = "data"] /\ astray' = astray
         \/ th' = th /\ astray' = astray \cup {u}
      /\ ByThread /\ UNCHANGED <<recipient, hasSender, message, pending, readVars, fileVars>>
  BY DEF RecvData, Thread, Goto
<1>2. /\ up[u] # <<>> /\ req \in Requests /\ up' \in [Users -> Seq(Requests)]
      /\ \A v \in Users \ {u} : up'[v] = up[v]
      /\ Len(up[u]) = 1 => up'[u] = <<>>
  BY <1>0, <1>1, TakenUp
<1>3. /\ u \notin astray /\ Len(up[u]) = 1
      /\ \/ cl[u] = "closed" /\ net[u] \in {"fin", "rst"}
         \/ cl[u] = "await" /\ asked[u] = req /\ down[u] = <<>> /\ net[u] = "open"
  BY <1>1, <1>2, CommandAsked
<1> HIDE DEF req
<1>4. <<>> \in Items /\ 0 \in Nat /\ {"prompt", "badseq"} \subseteq Answers
  BY DEF Items, Answers
<1>5. /\ srv' \in {"up", "down"}
      /\ net' \in [Users -> {"none", "open", "fin", "rst", "hup"}]
      /\ down' \in [Users -> Seq([to : Requests, kind : Answers, items : Items,
                                  opened : Nat])]
      /\ \A v \in Users \ {u} : net'[v] = net[v] /\ down'[v] = down[v]
      /\ \/ /\ net[u] = "open" /\ net'[u] = "open" /\ down'[u] # <<>>
            /\ down[u] = <<>> => Len(down'[u]) = 1 /\ down'[u][1].to = req
         \/ net[u] \in {"fin", "rst"} /\ net'[u] = "rst" /\ down'[u] = down[u]
  BY <1>0, <1>1, <1>2, <1>4, ReplySent
<1>6. TypeOK'
  <2>1. th' \in [Users -> Places] /\ astray' \subseteq Users
    BY <1>0, <1>1 DEF Places
  <2> QED BY <1>0, <1>1, <1>2, <1>5, <2>1
          DEF TypeOK, ByThread, tableVars, userVars, readVars, fileVars
<1>7. Frame(u)
  BY <1>0, <1>1, <1>2, <1>5 DEF Frame, ByThread, userVars, readVars, fileVars
<1>8. up'[u] = <<>> /\ UNCHANGED <<cl, asked>>
  BY <1>1, <1>2, <1>3 DEF ByThread, userVars
<1>9. CASE th' = [th EXCEPT ![u] = "data"] /\ astray' = astray
  <2>1. th'[u] \in After(req)
    BY <1>0, <1>1, <1>9 DEF After
  <2>2. Session(u)'
    BY <1>1, <1>2, <1>3, <1>5, <1>8, <1>9, <2>1, AnswerCommand DEF req
  <2> QED BY <1>6, <1>7, <2>2
<1>10. CASE th' = th /\ astray' = astray \cup {u}
  <2>0. Session(u)
    BY DEF IInv, InStep
  <2>1. StreamPart(u)'
    BY <1>1, <1>8, <1>10 DEF StreamPart, OnlyText
  <2>2. ConnectionPart(u)'
    BY <1>1, <1>3, <1>5, <1>8, <1>10, <2>0 DEF Session, ConnectionPart
  <2>3. AstrayPart(u)'
    BY <1>1, <1>2, <1>3, <1>5, <1>8, <1>10, <2>0, RequestKinds DEF Session, ConnectionPart, AstrayPart
  <2> QED BY <1>6, <1>7, <1>10, <2>1, <2>2, <2>3 DEF Session
<1> QED BY <1>1, <1>9, <1>10

(* Text where a command was expected comes from a client that is astray.   *)
LEMMA RecvUnknownIInv ==
  ASSUME IInv, NEW u \in Users, RecvUnknown(u)
  PROVE  TypeOK' /\ Frame(u) /\ Session(u)'
<1>0. TypeOK /\ Session(u)
  BY DEF IInv, InStep
<1>1. /\ srv = "up" /\ th[u] = "command" /\ Reply(u, Head(up[u]), "err", <<>>, 0)
      /\ ByThread /\ UNCHANGED <<threadVars, readVars, fileVars, astray>>
  BY DEF RecvUnknown, Thread
<1>2. PICK k \in 1 .. Len(up[u]) :
         Takes(u, k) /\ \A i \in 1 .. k : up[u][i].cmd \in {"text", "dot"}
  BY DEF RecvUnknown
<1>3. /\ up[u] # <<>> /\ Head(up[u]) = up[u][1] /\ Head(up[u]) \in Requests
      /\ up' \in [Users -> Seq(Requests)] /\ Len(up[u]) \in Nat \ {0}
      /\ \A v \in Users \ {u} : up'[v] = up[v]
      /\ Len(up'[u]) = Len(up[u]) - k
      /\ \A i \in 1 .. Len(up'[u]) : up'[u][i] = up[u][i + k]
  <2>1. Takes(u, k)
    BY <1>2
  <2> QED BY <1>0, <2>1, TakenUp
<1>4. <<>> \in Items /\ 0 \in Nat /\ "err" \in Answers
  BY DEF Items, Answers
<1>5. /\ srv' \in {"up", "down"}
      /\ net' \in [Users -> {"none", "open", "fin", "rst", "hup"}]
      /\ down' \in [Users -> Seq([to : Requests, kind : Answers, items : Items,
                                  opened : Nat])]
      /\ \A v \in Users \ {u} : net'[v] = net[v] /\ down'[v] = down[v]
      /\ \/ net[u] = "open" /\ net'[u] = "open" /\ down'[u] # <<>>
         \/ net[u] \in {"fin", "rst"} /\ net'[u] = "rst" /\ down'[u] = down[u]
  BY <1>0, <1>1, <1>3, <1>4, ReplySent
<1>6. TypeOK'
  BY <1>0, <1>1, <1>3, <1>5
     DEF TypeOK, ByThread, tableVars, userVars, threadVars, readVars, fileVars
<1>7. Frame(u)
  BY <1>1, <1>3, <1>5 DEF Frame, ByThread, userVars, threadVars, readVars, fileVars
<1>8. OnlyText(up[u])
  <2>1. 1 \in 1 .. k /\ 1 \in 1 .. Len(up[u])
    BY <1>2
  <2>2. up[u][1].cmd \in {"text", "dot"}
    BY <1>2, <2>1
  <2>3. Len(up[u]) <= 1 => \A i \in 1 .. Len(up[u]) : i = 1
    BY <1>3
  <2> QED BY <1>0, <2>2, <2>3 DEF Session, StreamPart, OnlyText
<1>9. /\ \A i \in 1 .. Len(up'[u]) : i + k \in 1 .. Len(up[u])
      /\ Len(up'[u]) + k = Len(up[u])
  BY <1>2, <1>3
<1>10. UNCHANGED <<cl, asked, th, astray, cut, reader>>
  BY <1>1 DEF ByThread, userVars, threadVars, readVars, fileVars
<1>11. StreamPart(u)'
  <2>1. OnlyText(up'[u])
    BY <1>3, <1>8, <1>9 DEF OnlyText
  <2>2. ASSUME NEW i \in 1 .. Len(up'[u]), up'[u][i].cmd = "dot"
        PROVE  i = Len(up'[u]) /\ cl[u] # "typing"
    <3>1. up[u][i + k].cmd = "dot" /\ i + k \in 1 .. Len(up[u])
      BY <1>3, <1>9, <2>2
    <3>2. i + k = Len(up[u]) /\ cl[u] # "typing"
      BY <1>0, <3>1 DEF Session, StreamPart
    <3>3. Len(up'[u]) \in Nat
      BY <1>3, <1>2
    <3> QED BY <1>2, <1>9, <3>2, <3>3
  <2> QED BY <1>1, <1>10, <2>1, <2>2 DEF StreamPart
<1>12. ConnectionPart(u)'
  BY <1>0, <1>5, <1>10, <1>1 DEF Session, ConnectionPart
<1>13. CASE u \in astray
  BY <1>0, <1>3, <1>5, <1>6, <1>7, <1>10, <1>11, <1>12, <1>13 DEF Session, AstrayPart
<1>14. CASE u \notin astray
  <2>1. ~ up[u] = <<asked[u]>> \/ asked[u] \notin Commands
    <3>1. 1 \in 1 .. Len(up[u]) /\ Len(up[u]) \in Nat
      BY <1>3
    <3>2. up[u][1].cmd \in {"text", "dot"}
      BY <1>8, <3>1 DEF OnlyText
    <3>3. up[u][1] \notin Commands
      BY <1>3, <3>2, RequestKinds
    <3> QED BY <3>3
  <2>2. cl[u] = "closed"
    <3>1. cl[u] \in {"out", "prompt", "await", "typing", "leaving", "closed"}
      BY <1>0 DEF TypeOK
    <3> QED BY <3>1, <1>0, <1>1, <1>3, <1>14, <2>1, <1>5
       DEF Session, TurnPart, Awaited, ConnectionPart, Reachable
  <2> QED BY <1>6, <1>7, <1>10, <1>11, <1>12, <1>14, <2>2 DEF Session, TurnPart
<1> QED BY <1>13, <1>14

-----------------------------------------------------------------------------
(* The message and store_email.                                            *)
LEMMA MailTyped ==
  ASSUME NEW u \in Users, NEW k \in Nat, NEW text \in Seq(0 .. MaxLines)
  PROVE  Mail(u, k, text) \in Items
<1>1. Part("start", u, k) \in Parts /\ Part("end", u, 0) \in Parts
  BY DEF Part, Parts
<1>2. \A i \in 1 .. Len(text) : Part("text", u, text[i]) \in Parts
  <2> SUFFICES ASSUME NEW i \in 1 .. Len(text) PROVE Part("text", u, text[i]) \in Parts
    OBVIOUS
  <2> DEFINE S == 0 .. MaxLines
  <2>0. text \in Seq(S)
    OBVIOUS
  <2> HIDE DEF S
  <2>1. text[i] \in S
    BY <2>0
  <2>2. text[i] \in Nat
    BY <2>1, MailAssumption DEF S
  <2> QED BY <2>2 DEF Part, Parts
<1>3. [i \in 1 .. Len(text) |-> Part("text", u, text[i])] \in Seq(Parts)
  <2>1. Len(text) \in Nat
    OBVIOUS
  <2> QED BY <1>2, <2>1
<1> QED BY <1>1, <1>3 DEF Mail, Items

LEMMA StoreTyped ==
  ASSUME TypeOK, NEW u \in Users, NEW text \in Seq(0 .. MaxLines), Store(u, text)
  PROVE  /\ th' \in [Users -> Places] /\ th'[u] = "store"
         /\ \A v \in Users \ {u} : th'[v] = th[v]
         /\ pending' \in [Users -> Items]
         /\ message' \in [Users -> Seq(0 .. MaxLines)]
<1>0. /\ th \in [Users -> Places] /\ pending \in [Users -> Items]
      /\ message \in [Users -> Seq(0 .. MaxLines)] /\ Len(composed[u]) \in Nat
  BY DEF TypeOK
<1>1. /\ th' = [th EXCEPT ![u] = "store"]
      /\ pending' = [pending EXCEPT ![u] = Mail(u, Len(composed[u]), text)]
      /\ message' = [message EXCEPT ![u] = <<>>]
  BY DEF Store, Goto
<1>2. Mail(u, Len(composed[u]), text) \in Items
  BY <1>0, MailTyped
<1>3. <<>> \in Seq(0 .. MaxLines)
  OBVIOUS
<1> QED BY <1>0, <1>1, <1>2, <1>3 DEF Places

LEMMA JoinTyped ==
  ASSUME TypeOK, NEW u \in Users, OnlyText(up[u]), NEW k \in 1 .. Len(up[u])
  PROVE  Join(message[u], [i \in 1 .. k |-> up[u][i].n]) \in Seq(0 .. MaxLines)
<1> DEFINE lines == [i \in 1 .. k |-> up[u][i].n]
<1>0. up[u] \in Seq(Requests) /\ message[u] \in Seq(0 .. MaxLines)
  BY DEF TypeOK
<1>1. \A i \in 1 .. k : up[u][i].n \in 0 .. MaxLines
  <2> SUFFICES ASSUME NEW i \in 1 .. k PROVE up[u][i].n \in 0 .. MaxLines
    OBVIOUS
  <2>1. i \in 1 .. Len(up[u])
    OBVIOUS
  <2>2. up[u][i] \in Requests /\ up[u][i].cmd \in {"text", "dot"}
    BY <1>0, <2>1 DEF OnlyText
  <2> QED BY <2>2, RequestKinds
<1>2. lines \in Seq(0 .. MaxLines)
  BY <1>1
<1> HIDE DEF lines
<1>3. message[u] \o lines \in Seq(0 .. MaxLines)
  BY <1>0, <1>2
<1> QED BY <1>3 DEF Join, lines

(* Every line that waits is a line of the message, for the thread that     *)
(* takes it, and the dot alone ends it.                                    *)
LEMMA RecvLinesIInv ==
  ASSUME IInv, NEW u \in Users, RecvLines(u)
  PROVE  TypeOK' /\ Frame(u) /\ Session(u)'
<1>0. /\ TypeOK /\ Session(u) /\ up[u] \in Seq(Requests)
      /\ message \in [Users -> Seq(0 .. MaxLines)]
  BY DEF IInv, InStep, TypeOK
<1>1. /\ srv = "up" /\ th[u] = "data"
      /\ ByThread /\ UNCHANGED <<srv, recipient, hasSender, readVars, fileVars,
                                 net, down, astray>>
  BY DEF RecvLines, Thread
<1>2. PICK k \in 1 .. Len(up[u]) :
        /\ Takes(u, k)
        /\ IF k = 1 /\ Head(up[u]) = Dot THEN Store(u, message[u])
           ELSE /\ message' = [message EXCEPT ![u] = Join(@, [i \in 1 .. k |-> up[u][i].n])]
                /\ UNCHANGED <<th, pending>>
  BY DEF RecvLines
<1>3. /\ up[u] # <<>> /\ Head(up[u]) = up[u][1]
      /\ up' \in [Users -> Seq(Requests)] /\ Len(up[u]) \in Nat \ {0}
      /\ \A v \in Users \ {u} : up'[v] = up[v]
      /\ Len(up'[u]) = Len(up[u]) - k
      /\ \A i \in 1 .. Len(up'[u]) : up'[u][i] = up[u][i + k]
      /\ Len(up[u]) = k => up'[u] = <<>>
  <2>1. TypeOK /\ Takes(u, k)
    BY <1>0, <1>2
  <2> QED BY <2>1, TakenUp
<1>4. OnlyText(up[u]) /\ u \notin astray
  BY <1>0, <1>1 DEF Session, StreamPart, AstrayPart
<1>5. /\ th' \in [Users -> Places] /\ \A v \in Users \ {u} : th'[v] = th[v]
      /\ pending' \in [Users -> Items] /\ message' \in [Users -> Seq(0 .. MaxLines)]
      /\ \/ th'[u] = "data"
         \/ th'[u] = "store" /\ k = 1 /\ up[u][1].cmd = "dot"
  <2>1. CASE k = 1 /\ Head(up[u]) = Dot
    <3>1. message[u] \in Seq(0 .. MaxLines) /\ Store(u, message[u])
      BY <1>0, <1>2, <2>1
    <3> QED BY <1>0, <1>3, <2>1, <3>1, StoreTyped, SomeRequests
  <2>2. CASE ~ (k = 1 /\ Head(up[u]) = Dot)
    <3> DEFINE lines == [i \in 1 .. k |-> up[u][i].n]
    <3>4. Join(message[u], lines) \in Seq(0 .. MaxLines)
      BY <1>0, <1>4, JoinTyped
    <3> HIDE DEF lines
    <3>5. message' = [message EXCEPT ![u] = Join(@, lines)] /\ UNCHANGED <<th, pending>>
      BY <1>2, <2>2 DEF lines
    <3>6. message' \in [Users -> Seq(0 .. MaxLines)]
      BY <1>0, <3>4, <3>5
    <3> QED BY <1>0, <1>1, <3>5, <3>6 DEF TypeOK
  <2> QED BY <2>1, <2>2
<1>6. TypeOK'
  BY <1>0, <1>1, <1>3, <1>5 DEF TypeOK, ByThread, tableVars, userVars, readVars, fileVars
<1>7. Frame(u)
  BY <1>1, <1>3, <1>5 DEF Frame, ByThread, userVars, readVars, fileVars
<1>8. UNCHANGED <<cl, asked, net, down, astray, reader, srv>>
  BY <1>1 DEF ByThread, userVars, readVars
<1>9. /\ \A i \in 1 .. Len(up'[u]) : i + k \in 1 .. Len(up[u])
      /\ Len(up'[u]) + k = Len(up[u])
      /\ \A i \in Nat : i + k = Len(up[u]) => i = Len(up'[u])
  BY <1>2, <1>3
<1>10. th'[u] = "store" => up'[u] = <<>> /\ cl[u] # "typing"
  <2> SUFFICES ASSUME th'[u] = "store" PROVE up'[u] = <<>> /\ cl[u] # "typing"
    OBVIOUS
  <2>1. k = 1 /\ up[u][1].cmd = "dot" /\ 1 \in 1 .. Len(up[u])
    BY <1>3, <1>5
  <2>2. 1 = Len(up[u]) /\ cl[u] # "typing"
    BY <1>0, <2>1 DEF Session, StreamPart
  <2> QED BY <1>3, <2>1, <2>2
<1>11. StreamPart(u)'
  <2>1. OnlyText(up'[u])
    BY <1>3, <1>4, <1>9 DEF OnlyText
  <2>2. ASSUME NEW i \in 1 .. Len(up'[u]), up'[u][i].cmd = "dot"
        PROVE  i = Len(up'[u]) /\ cl[u] # "typing"
    <3>1. up[u][i + k].cmd = "dot" /\ i + k \in 1 .. Len(up[u])
      BY <1>3, <1>9, <2>2
    <3>2. i + k = Len(up[u]) /\ cl[u] # "typing"
      BY <1>0, <3>1 DEF Session, StreamPart
    <3> QED BY <1>9, <3>2
  <2> QED BY <1>8, <1>10, <2>1, <2>2 DEF StreamPart
<1>12. ConnectionPart(u)'
  BY <1>0, <1>1, <1>5, <1>8 DEF Session, ConnectionPart
<1>13. TurnPart(u)'
  <2>1. cl[u] = "await" => down[u] = <<>> /\ asked[u] = Dot
    <3>1. 1 \in 1 .. Len(up[u]) /\ Len(up[u]) \in Nat
      BY <1>3
    <3>2. up[u][1].cmd \in {"text", "dot"}
      BY <1>4, <3>1 DEF OnlyText
    <3>3. up[u][1] \in Requests
      BY <1>0, <3>1
    <3>4. up[u][1] \notin Commands
      BY <3>2, <3>3, RequestKinds
    <3>5. up[u] # <<asked[u]>> \/ asked[u] \notin Commands
      BY <3>4
    <3> QED BY <1>0, <1>1, <1>3, <1>4, <3>5 DEF Session, TurnPart, Awaited
  <2> QED BY <1>0, <1>1, <1>3, <1>4, <1>5, <1>8, <1>10, <2>1
          DEF Session, TurnPart, Awaited, Unread, ConnectionPart
<1> QED BY <1>4, <1>6, <1>7, <1>8, <1>11, <1>12, <1>13 DEF Session

(* A dot that recv cuts off from the last line ends the message too early: *)
(* client and thread have lost step.                                       *)
LEMMA RecvTailIInv ==
  ASSUME IInv, NEW u \in Users, RecvTail(u)
  PROVE  TypeOK' /\ Frame(u) /\ Session(u)'
<1> DEFINE text == Join(message[u], [i \in 1 .. Len(up[u]) |-> up[u][i].n])
<1>0. TypeOK /\ Session(u) /\ astray \subseteq Users /\ cut \subseteq Users /\ u \in Users
  BY DEF IInv, InStep, TypeOK
<1>1. /\ srv = "up" /\ th[u] = "data" /\ Takes(u, Len(up[u])) /\ Store(u, text)
      /\ astray' = astray \cup {u} /\ cut' = cut \cup {u}
      /\ ByThread /\ UNCHANGED <<srv, recipient, hasSender, readVars, mailbox,
                                 torn, net, down>>
  BY DEF RecvTail, Thread
<1>2. /\ up[u] # <<>> /\ Head(up[u]) = up[u][1] /\ Len(up[u]) \in 1 .. Len(up[u])
      /\ up' \in [Users -> Seq(Requests)] /\ up'[u] = <<>>
      /\ \A v \in Users \ {u} : up'[v] = up[v]
  BY <1>0, <1>1, TakenUp
<1>3. OnlyText(up[u]) /\ u \notin astray
  BY <1>0, <1>1 DEF Session, StreamPart, AstrayPart
<1>4. text \in Seq(0 .. MaxLines)
  BY <1>0, <1>2, <1>3, JoinTyped
<1> HIDE DEF text
<1>5. /\ th' \in [Users -> Places] /\ th'[u] = "store"
      /\ \A v \in Users \ {u} : th'[v] = th[v]
      /\ pending' \in [Users -> Items] /\ message' \in [Users -> Seq(0 .. MaxLines)]
  BY <1>0, <1>1, <1>4, StoreTyped
<1>6. TypeOK'
  BY <1>0, <1>1, <1>2, <1>5 DEF TypeOK, ByThread, tableVars, userVars, readVars
<1>7. Frame(u)
  BY <1>1, <1>2, <1>5 DEF Frame, ByThread, userVars, readVars
<1>8. UNCHANGED <<cl, asked, net, down, reader, srv>> /\ u \in astray' /\ u \in cut'
  BY <1>1 DEF ByThread, userVars, readVars
<1>9. cl[u] \in {"typing", "closed"} \/ (cl[u] = "await" /\ asked[u] = Dot)
  <2>1. cl[u] \in {"out", "prompt", "await", "typing", "leaving", "closed"}
    BY <1>0 DEF TypeOK
  <2>2. up[u] # <<asked[u]>> \/ asked[u] \notin Commands
    <3>1. 1 \in 1 .. Len(up[u]) /\ up[u] \in Seq(Requests)
      BY <1>0, <1>2 DEF TypeOK
    <3>2. up[u][1].cmd \in {"text", "dot"} /\ up[u][1] \in Requests
      BY <1>3, <3>1 DEF OnlyText
    <3>3. up[u][1] \notin Commands
      BY <3>2, RequestKinds
    <3> QED BY <3>3
  <2> QED BY <1>0, <1>1, <1>2, <1>3, <2>1, <2>2
          DEF Session, TurnPart, Awaited, ConnectionPart, Unread
<1>10. StreamPart(u)'
  BY <1>2 DEF StreamPart, OnlyText
<1>11. ConnectionPart(u)'
  BY <1>0, <1>1, <1>2, <1>5, <1>8 DEF Session, ConnectionPart
<1>12. AstrayPart(u)'
  BY <1>0, <1>5, <1>8, <1>9, SomeRequests DEF Session, AstrayPart, ConnectionPart, Dot, Quiet, Req
<1> QED BY <1>6, <1>7, <1>8, <1>10, <1>11, <1>12 DEF Session

(* A thread that finds that its client is gone.                            *)
LEMMA RecvGoneIInv ==
  ASSUME IInv, NEW u \in Users, RecvEnd(u) \/ RecvClosed(u)
  PROVE  TypeOK' /\ Frame(u) /\ Session(u)'
<1>0. TypeOK /\ Session(u) /\ th \in [Users -> Places]
  BY DEF IInv, InStep, TypeOK
<1>1. /\ th[u] \in {"data", "command"} /\ Ended(u)
      /\ ByThread /\ UNCHANGED <<srv, recipient, hasSender, readVars, fileVars,
                                 net, up, down, astray>>
  BY DEF RecvEnd, RecvClosed, Thread
<1>2. /\ th' \in [Users -> Places] /\ \A v \in Users \ {u} : th'[v] = th[v]
      /\ pending' \in [Users -> Items] /\ message' \in [Users -> Seq(0 .. MaxLines)]
      /\ \/ th'[u] = "store" /\ th[u] = "data"
         \/ th'[u] = "closing" /\ th[u] = "command"
  <2>1. CASE RecvEnd(u)
    <3>1. message[u] \in Seq(0 .. MaxLines) /\ Store(u, message[u]) /\ th[u] = "data"
      BY <1>0, <2>1 DEF RecvEnd, Thread, TypeOK
    <3> QED BY <1>0, <3>1, StoreTyped
  <2>2. CASE RecvClosed(u)
    <3>1. /\ th' = [th EXCEPT ![u] = "closing"] /\ th[u] = "command"
          /\ UNCHANGED <<pending, message>>
      BY <2>2 DEF RecvClosed, Goto, Thread
    <3> QED BY <1>0, <3>1 DEF TypeOK, Places
  <2> QED BY <2>1, <2>2
<1>3. TypeOK'
  BY <1>0, <1>1, <1>2 DEF TypeOK, ByThread, tableVars, userVars, readVars, fileVars
<1>4. Frame(u)
  BY <1>1, <1>2 DEF Frame, ByThread, userVars, readVars, fileVars
<1>5. UNCHANGED <<cl, asked, up, net, down, astray, reader, srv>>
  BY <1>1 DEF ByThread, userVars, readVars
<1>6. cl[u] = "closed" /\ up[u] = <<>> /\ net[u] \in {"fin", "rst"}
  BY <1>0, <1>1 DEF Ended, Session, ConnectionPart
<1>7. StreamPart(u)'
  BY <1>5, <1>6 DEF StreamPart, OnlyText
<1>8. ConnectionPart(u)'
  BY <1>0, <1>2, <1>5, <1>6 DEF Session, ConnectionPart
<1>9. u \in astray => AstrayPart(u)'
  BY <1>0, <1>2, <1>5, <1>6 DEF Session, AstrayPart
<1>10. TurnPart(u)'
  BY <1>5, <1>6 DEF TurnPart
<1> QED BY <1>3, <1>4, <1>5, <1>7, <1>8, <1>9, <1>10 DEF Session

(* The answer to the dot.                                                  *)
LEMMA AnswerDot ==
  ASSUME IInv, NEW u \in Users, srv = "up", th[u] = "store", th'[u] = "command",
         UNCHANGED <<cl, asked, up, astray>>,
         \/ /\ net[u] = "open" /\ net'[u] = "open" /\ down'[u] # <<>>
            /\ down[u] = <<>> => Len(down'[u]) = 1 /\ down'[u][1].to = Dot
         \/ net[u] \in {"fin", "rst"} /\ net'[u] = "rst" /\ down'[u] = down[u]
  PROVE  Session(u)'
<1>0. Session(u)
  BY DEF IInv, InStep
<1>1. StreamPart(u)'
  BY <1>0 DEF Session, StreamPart, OnlyText
<1>2. ConnectionPart(u)'
  BY <1>0 DEF Session, ConnectionPart
<1>3. CASE u \in astray
  BY <1>0, <1>1, <1>2, <1>3 DEF Session, AstrayPart
<1>4. CASE u \notin astray
  <2>1. up[u] = <<>>
    BY <1>0, <1>4 DEF Session, StreamPart
  <2>2. cl[u] = "await" => down[u] = <<>> /\ asked[u] = Dot /\ net[u] = "open"
    BY <1>0, <1>4 DEF Session, TurnPart, Awaited, Unread, ConnectionPart, After, Reachable
  <2>3. TurnPart(u)'
    BY <1>0, <1>4, <2>1, <2>2, SomeRequests
       DEF Session, TurnPart, Awaited, Unread, ConnectionPart, After
  <2> QED BY <1>1, <1>2, <1>4, <2>3 DEF Session
<1> QED BY <1>3, <1>4

LEMMA PartsTaken ==
  ASSUME NEW s \in Items, NEW n \in 0 .. Len(s)
  PROVE  SubSeq(s, 1, n) \in Items /\ SubSeq(s, n + 1, Len(s)) \in Items
BY DEF Items

LEMMA WriteIInv ==
  ASSUME IInv, WriterPart, NEW u \in Users, Write(u)
  PROVE  TypeOK' /\ Frame(u) /\ Session(u)'
<1> DEFINE b == recipient[u]
           n == Min({WriteLen, Len(pending[u])})
<1>0. /\ TypeOK /\ th \in [Users -> Places] /\ pending \in [Users -> Items]
      /\ mailbox \in [Boxes -> Items] /\ pending[u] \in Items
      /\ net \in [Users -> {"none", "open", "fin", "rst", "hup"}]
  BY DEF IInv, TypeOK
<1>1. /\ srv = "up" /\ th[u] = "store"
      /\ mailbox' = [mailbox EXCEPT ![b] = @ \o SubSeq(pending[u], 1, n)]
      /\ pending' = [pending EXCEPT ![u] = SubSeq(@, n + 1, Len(@))]
      /\ torn' = torn \/ torn' = torn \cup {b}
      /\ \/ th' = [th EXCEPT ![u] = "command"] /\ Reply(u, Dot, "stored", <<>>, 0)
         \/ UNCHANGED <<th, net, down, srv>>
      /\ ByThread /\ UNCHANGED <<recipient, hasSender, message, readVars, cut, up, astray>>
  BY DEF Write, Thread, Goto
<1>2. n \in 0 .. Len(pending[u])
  <2>1. Len(pending[u]) \in Nat /\ WriteLen \in Nat
    BY <1>0, MailAssumption DEF Items
  <2>2. \A l, m \in Nat : Min({l, m}) \in 0 .. m
    BY DEF Min
  <2> QED BY <2>1, <2>2
<1> HIDE DEF n
<1>3. pending' \in [Users -> Items] /\ mailbox' \in [Boxes -> Items]
  <2>1. SubSeq(pending[u], 1, n) \in Items /\ SubSeq(pending[u], n + 1, Len(pending[u])) \in Items
    BY <1>0, <1>2, PartsTaken
  <2>2. \A s, t \in Items : s \o t \in Items
    BY DEF Items
  <2> QED BY <1>0, <1>1, <2>1, <2>2
<1>4. torn' \subseteq Boxes
  <2>1. recipient[u] \in Boxes /\ torn \subseteq Boxes
    BY <1>0, <1>1 DEF WriterPart, TypeOK
  <2> QED BY <1>1, <2>1
<1>5. CASE UNCHANGED <<th, net, down, srv>>
  <2>1. TypeOK'
    BY <1>0, <1>1, <1>3, <1>4, <1>5 DEF TypeOK, ByThread, tableVars, userVars, readVars
  <2>2. Frame(u)
    BY <1>1, <1>5 DEF Frame, ByThread, userVars, readVars, fileVars
  <2>3. Session(u)'
    BY <1>1, <1>5 DEF IInv, InStep, Session, StreamPart, OnlyText, ConnectionPart,
       AstrayPart, TurnPart, Awaited, Unread, Reachable, ByThread, userVars, readVars
  <2> QED BY <2>1, <2>2, <2>3
<1>6. CASE th' = [th EXCEPT ![u] = "command"] /\ Reply(u, Dot, "stored", <<>>, 0)
  <2>1. <<>> \in Items /\ 0 \in Nat /\ "stored" \in Answers /\ Dot \in Requests
    BY SomeRequests DEF Items, Answers
  <2>2. /\ srv' \in {"up", "down"}
        /\ net' \in [Users -> {"none", "open", "fin", "rst", "hup"}]
        /\ down' \in [Users -> Seq([to : Requests, kind : Answers, items : Items,
                                    opened : Nat])]
        /\ \A v \in Users \ {u} : net'[v] = net[v] /\ down'[v] = down[v]
        /\ \/ /\ net[u] = "open" /\ net'[u] = "open" /\ down'[u] # <<>>
              /\ down[u] = <<>> => Len(down'[u]) = 1 /\ down'[u][1].to = Dot
           \/ net[u] \in {"fin", "rst"} /\ net'[u] = "rst" /\ down'[u] = down[u]
    BY <1>0, <1>1, <1>6, <2>1, ReplySent
  <2>3. /\ th' \in [Users -> Places] /\ th'[u] = "command"
        /\ \A v \in Users \ {u} : th'[v] = th[v]
    BY <1>0, <1>6 DEF Places
  <2>4. TypeOK'
    BY <1>0, <1>1, <1>3, <1>4, <2>2, <2>3 DEF TypeOK, ByThread, tableVars, userVars, readVars
  <2>5. Frame(u)
    BY <1>1, <2>2, <2>3 DEF Frame, ByThread, userVars, readVars, fileVars
  <2>6. UNCHANGED <<cl, asked, up, astray>>
    BY <1>1 DEF ByThread, userVars
  <2>7. Session(u)'
    BY <1>1, <2>2, <2>3, <2>6, AnswerDot
  <2> QED BY <2>4, <2>5, <2>7
<1> QED BY <1>1, <1>5, <1>6

LEMMA StoreFailsIInv ==
  ASSUME IInv, NEW u \in Users, StoreFails(u)
  PROVE  TypeOK' /\ Frame(u) /\ Session(u)'
<1>0. TypeOK /\ th \in [Users -> Places] /\ pending \in [Users -> Items]
  BY DEF IInv, TypeOK
<1>1. /\ srv = "up" /\ th[u] = "store" /\ pending' = [pending EXCEPT ![u] = <<>>]
      /\ th' = [th EXCEPT ![u] = "command"] /\ Reply(u, Dot, "failed", <<>>, 0)
      /\ ByThread /\ UNCHANGED <<recipient, hasSender, message, readVars, fileVars, up, astray>>
  BY DEF StoreFails, Thread, Goto, Failed
<1>2. <<>> \in Items /\ 0 \in Nat /\ "failed" \in Answers /\ Dot \in Requests
  BY SomeRequests DEF Items, Answers
<1>3. /\ srv' \in {"up", "down"}
      /\ net' \in [Users -> {"none", "open", "fin", "rst", "hup"}]
      /\ down' \in [Users -> Seq([to : Requests, kind : Answers, items : Items,
                                  opened : Nat])]
      /\ \A v \in Users \ {u} : net'[v] = net[v] /\ down'[v] = down[v]
      /\ \/ /\ net[u] = "open" /\ net'[u] = "open" /\ down'[u] # <<>>
            /\ down[u] = <<>> => Len(down'[u]) = 1 /\ down'[u][1].to = Dot
         \/ net[u] \in {"fin", "rst"} /\ net'[u] = "rst" /\ down'[u] = down[u]
  BY <1>0, <1>1, <1>2, ReplySent
<1>4. /\ th' \in [Users -> Places] /\ th'[u] = "command" /\ pending' \in [Users -> Items]
      /\ \A v \in Users \ {u} : th'[v] = th[v]
  BY <1>0, <1>1, <1>2 DEF Places
<1>5. TypeOK'
  BY <1>0, <1>1, <1>3, <1>4 DEF TypeOK, ByThread, tableVars, userVars, readVars, fileVars
<1>6. Frame(u)
  BY <1>1, <1>3, <1>4 DEF Frame, ByThread, userVars, readVars, fileVars
<1>7. UNCHANGED <<cl, asked, up, astray>>
  BY <1>1 DEF ByThread, userVars
<1>8. Session(u)'
  BY <1>1, <1>3, <1>4, <1>7, AnswerDot
<1> QED BY <1>5, <1>6, <1>8

-----------------------------------------------------------------------------
(* list_emails and get_email.                                              *)
LEMMA RecvQueryIInv ==
  ASSUME IInv, NEW u \in Users, RecvQuery(u)
  PROVE  TypeOK' /\ Frame(u) /\ Session(u)'
<1> DEFINE req == Head(up[u])
<1>0. /\ TypeOK /\ Session(u) /\ th \in [Users -> Places] /\ mailbox \in [Boxes -> Items]
      /\ buffer \in [{"list", "get"} -> Items] /\ mixed \in BOOLEAN
      /\ reader \in [Users -> [req : Requests \cup {Quiet}, pos : Nat, id : Nat,
                               inside : BOOLEAN, opened : Nat]]
  BY DEF IInv, TypeOK, InStep
<1>1. /\ srv = "up" /\ th[u] = "command" /\ Takes(u, 1) /\ req.cmd \in {"list", "get"}
      /\ \/ Reply(u, req, "notfound", <<>>, 0) /\ UNCHANGED <<th, readVars>>
         \/ /\ th' = [th EXCEPT ![u] = "read"]
            /\ buffer' = [buffer EXCEPT ![req.cmd] = <<>>]
            /\ reader' = [reader EXCEPT ![u] =
                            [Idle EXCEPT !.req = req, !.opened = Len(mailbox[req.box])]]
            /\ mixed' = (mixed \/ \E v \in Users : reader[v].req.cmd = req.cmd)
            /\ UNCHANGED <<net, down, srv>>
      /\ ByThread /\ UNCHANGED <<recipient, hasSender, message, pending, fileVars, astray>>
  BY DEF RecvQuery, Thread, Goto, NotFound, Fresh
<1>2. /\ up[u] # <<>> /\ req \in Requests /\ up' \in [Users -> Seq(Requests)]
      /\ \A v \in Users \ {u} : up'[v] = up[v]
      /\ Len(up[u]) = 1 => up'[u] = <<>>
  BY <1>0, <1>1, TakenUp
<1>3. /\ u \notin astray /\ Len(up[u]) = 1 /\ req \in Commands
      /\ \/ cl[u] = "closed" /\ net[u] \in {"fin", "rst"}
         \/ cl[u] = "await" /\ asked[u] = req /\ down[u] = <<>> /\ net[u] = "open"
  BY <1>1, <1>2, CommandAsked
<1>4. req.box \in Boxes
  BY <1>1, <1>2, RequestKinds
<1> HIDE DEF req
<1>5. <<>> \in Items /\ 0 \in Nat /\ "notfound" \in Answers
  BY DEF Items, Answers
<1>6. up'[u] = <<>> /\ UNCHANGED <<cl, asked, astray>>
  BY <1>1, <1>2, <1>3 DEF ByThread, userVars
<1>7. CASE Reply(u, req, "notfound", <<>>, 0) /\ UNCHANGED <<th, readVars>>
  <2>1. /\ srv' \in {"up", "down"}
        /\ net' \in [Users -> {"none", "open", "fin", "rst", "hup"}]
        /\ down' \in [Users -> Seq([to : Requests, kind : Answers, items : Items,
                                    opened : Nat])]
        /\ \A v \in Users \ {u} : net'[v] = net[v] /\ down'[v] = down[v]
        /\ \/ /\ net[u] = "open" /\ net'[u] = "open"
              /\ down[u] = <<>> => Len(down'[u]) = 1 /\ down'[u][1].to = req
           \/ net[u] \in {"fin", "rst"} /\ net'[u] = "rst" /\ down'[u] = down[u]
    BY <1>0, <1>1, <1>2, <1>5, <1>7, ReplySent
  <2>2. TypeOK'
    BY <1>0, <1>1, <1>2, <1>7, <2>1 DEF TypeOK, ByThread, tableVars, userVars, readVars, fileVars
  <2>3. Frame(u)
    BY <1>1, <1>2, <1>7, <2>1 DEF Frame, ByThread, userVars, readVars, fileVars
  <2>4. th'[u] \in After(req)
    BY <1>1, <1>7 DEF After
  <2>5. Session(u)'
    BY <1>1, <1>2, <1>3, <1>6, <2>1, <2>4, AnswerCommand DEF req
  <2> QED BY <2>2, <2>3, <2>5
<1>8. CASE /\ th' = [th EXCEPT ![u] = "read"]
           /\ buffer' = [buffer EXCEPT ![req.cmd] = <<>>]
           /\ reader' = [reader EXCEPT ![u] =
                           [Idle EXCEPT !.req = req, !.opened = Len(mailbox[req.box])]]
           /\ mixed' = (mixed \/ \E v \in Users : reader[v].req.cmd = req.cmd)
           /\ UNCHANGED <<net, down, srv>>
  <2>1. Len(mailbox[req.box]) \in Nat
    BY <1>0, <1>4 DEF Items
  <2>2. /\ th' \in [Users -> Places] /\ th'[u] = "read"
        /\ \A v \in Users \ {u} : th'[v] = th[v]
        /\ buffer' \in [{"list", "get"} -> Items] /\ mixed' \in BOOLEAN
    BY <1>0, <1>1, <1>5, <1>8 DEF Places
  <2>3. /\ reader' \in [Users -> [req : Requests \cup {Quiet}, pos : Nat, id : Nat,
                                  inside : BOOLEAN, opened : Nat]]
        /\ reader'[u].req = req /\ \A v \in Users \ {u} : reader'[v] = reader[v]
    BY <1>0, <1>2, <1>8, <2>1 DEF Idle
  <2>4. TypeOK'
    BY <1>0, <1>1, <1>2, <1>8, <2>2, <2>3 DEF TypeOK, ByThread, tableVars, userVars, fileVars
  <2>5. Frame(u)
    BY <1>1, <1>2, <1>8, <2>2, <2>3 DEF Frame, ByThread, userVars, fileVars
  <2>6. StreamPart(u)'
    BY <1>3, <1>6, <2>2 DEF StreamPart, OnlyText
  <2>7. ConnectionPart(u)'
    BY <1>0, <1>1, <1>3, <1>6, <1>8, <2>2, <2>3 DEF Session, ConnectionPart
  <2>8. TurnPart(u)'
    BY <1>3, <1>6, <1>8, <2>2, <2>3 DEF TurnPart, Awaited
  <2> QED BY <1>3, <1>6, <2>4, <2>5, <2>6, <2>7, <2>8 DEF Session
<1> QED BY <1>1, <1>7, <1>8

LEMMA ReadPartIInv ==
  ASSUME IInv, NEW u \in Users, ReadPart(u)
  PROVE  TypeOK' /\ Frame(u) /\ Session(u)'
<1> DEFINE r      == reader[u]
           file   == mailbox[r.req.box]
           part   == mailbox[r.req.box][r.pos + 1]
           id     == IF part.kind = "start" THEN r.id + 1 ELSE r.id
           inside == r.inside \/ (r.req.cmd = "get" /\ id = r.req.n)
           entry  == Part("start", part.from, id)
<1>0. /\ TypeOK /\ Session(u) /\ mailbox \in [Boxes -> Items]
      /\ buffer \in [{"list", "get"} -> Items]
      /\ reader \in [Users -> [req : Requests \cup {Quiet}, pos : Nat, id : Nat,
                               inside : BOOLEAN, opened : Nat]]
  BY DEF IInv, TypeOK, InStep
<1>1. /\ srv = "up" /\ th[u] = "read" /\ ~ AtEnd(r)
      /\ reader' = [reader EXCEPT ![u].pos = @ + 1, ![u].id = id, ![u].inside = inside]
      /\ \/ buffer' = [buffer EXCEPT !.get = Append(@, part)]
         \/ buffer' = [buffer EXCEPT !.list = Append(@, entry)]
         \/ buffer' = buffer
      /\ ByThread /\ UNCHANGED <<srv, threadVars, mixed, fileVars, net, up, down, astray>>
  BY DEF ReadPart, Thread
<1>2. file \in Items
  <2>1. r.req.cmd \in {"list", "get"}
    BY <1>0, <1>1 DEF Session, ConnectionPart
  <2>2. r.req \in Requests
    BY <1>0, <2>1, SomeRequests
  <2> QED BY <1>0, <2>1, <2>2, RequestKinds
<1>3. part \in Parts
  <2>1. r.pos + 1 \in DOMAIN file
    BY <1>1 DEF AtEnd
  <2> QED BY <1>2, <2>1 DEF Items
<1>4. id \in Nat /\ inside \in BOOLEAN /\ r.pos + 1 \in Nat
  <2>1. r.pos \in Nat /\ r.id \in Nat /\ r.inside \in BOOLEAN
    BY <1>0
  <2> QED BY <2>1
<1>5. entry \in Parts
  BY <1>3, <1>4 DEF Part, Parts
<1> HIDE DEF part, entry, inside, id, r
<1>6. buffer' \in [{"list", "get"} -> Items]
  <2>1. \A s \in Items : Append(s, part) \in Items /\ Append(s, entry) \in Items
    BY <1>3, <1>5 DEF Items
  <2> QED BY <1>0, <1>1, <2>1
<1>7. /\ reader' \in [Users -> [req : Requests \cup {Quiet}, pos : Nat, id : Nat,
                                inside : BOOLEAN, opened : Nat]]
      /\ reader'[u].req = reader[u].req
      /\ \A v \in Users \ {u} : reader'[v] = reader[v]
  <2>1. /\ r \in [req : Requests \cup {Quiet}, pos : Nat, id : Nat, inside : BOOLEAN, opened : Nat]
        /\ r = reader[u]
    BY <1>0 DEF r
  <2>2. reader' = [reader EXCEPT ![u] =
                     [r EXCEPT !.pos = r.pos + 1, !.id = id, !.inside = inside]]
    BY <1>0, <1>1, <2>1
  <2>3. [r EXCEPT !.pos = r.pos + 1, !.id = id, !.inside = inside] \in
           [req : {r.req}, pos : Nat, id : Nat, inside : BOOLEAN, opened : Nat]
    BY <1>4, <2>1
  <2> QED BY <1>0, <2>1, <2>2, <2>3
<1>8. TypeOK'
  BY <1>0, <1>1, <1>6, <1>7 DEF TypeOK, ByThread, tableVars, userVars, threadVars, fileVars
<1>9. Frame(u)
  BY <1>1, <1>7 DEF Frame, ByThread, userVars, threadVars, fileVars
<1>10. UNCHANGED <<srv, cl, asked, th, net, up, down, astray, cut>>
  BY <1>1 DEF ByThread, userVars, threadVars, fileVars
<1>11. Session(u)'
  BY <1>0, <1>7, <1>10 DEF Session, StreamPart, OnlyText, ConnectionPart, AstrayPart, TurnPart,
     Awaited, Unread, Reachable
<1> QED BY <1>8, <1>9, <1>11

LEMMA ReadDoneIInv ==
  ASSUME IInv, NEW u \in Users, ReadDone(u)
  PROVE  TypeOK' /\ Frame(u) /\ Session(u)'
<1> DEFINE r == reader[u]
<1>0. /\ TypeOK /\ Session(u) /\ th \in [Users -> Places]
      /\ buffer \in [{"list", "get"} -> Items]
      /\ reader \in [Users -> [req : Requests \cup {Quiet}, pos : Nat, id : Nat,
                               inside : BOOLEAN, opened : Nat]]
  BY DEF IInv, TypeOK, InStep
<1>1. r.req.cmd \in {"list", "get"} /\ r.req \in Requests /\ r.opened \in Nat
  <2>1. r.req.cmd \in {"list", "get"}
    BY <1>0 DEF Session, ConnectionPart, ReadDone, Thread
  <2> QED BY <1>0, <2>1, SomeRequests
<1>2. /\ srv = "up" /\ th[u] = "read"
      /\ reader' = [reader EXCEPT ![u] = Idle] /\ th' = [th EXCEPT ![u] = "command"]
      /\ \/ Reply(u, r.req, "notfound", <<>>, r.opened)
         \/ Reply(u, r.req, "ok", buffer[r.req.cmd], r.opened)
      /\ buffer' \in {buffer, [buffer EXCEPT ![r.req.cmd] = <<>>]}
      /\ ByThread /\ UNCHANGED <<recipient, hasSender, message, pending, mixed,
                                 fileVars, up, astray>>
  BY DEF ReadDone, Thread, Goto, Fresh
<1>3. <<>> \in Items /\ {"notfound", "ok"} \subseteq Answers /\ buffer[r.req.cmd] \in Items
  BY <1>0, <1>1 DEF Items, Answers
<1>4. /\ srv' \in {"up", "down"}
      /\ net' \in [Users -> {"none", "open", "fin", "rst", "hup"}]
      /\ down' \in [Users -> Seq([to : Requests, kind : Answers, items : Items,
                                  opened : Nat])]
      /\ \A v \in Users \ {u} : net'[v] = net[v] /\ down'[v] = down[v]
      /\ \/ /\ net[u] = "open" /\ net'[u] = "open"
            /\ down[u] = <<>> => Len(down'[u]) = 1 /\ down'[u][1].to = r.req
         \/ net[u] \in {"fin", "rst"} /\ net'[u] = "rst" /\ down'[u] = down[u]
  <2> HIDE DEF r
  <2>1. CASE Reply(u, r.req, "notfound", <<>>, r.opened)
    BY <1>0, <1>1, <1>2, <1>3, <2>1, ReplySent
  <2>2. CASE Reply(u, r.req, "ok", buffer[r.req.cmd], r.opened)
    BY <1>0, <1>1, <1>2, <1>3, <2>2, ReplySent
  <2> QED BY <1>2, <2>1, <2>2
<1>5. /\ th' \in [Users -> Places] /\ th'[u] = "command"
      /\ \A v \in Users \ {u} : th'[v] = th[v]
      /\ buffer' \in [{"list", "get"} -> Items]
  BY <1>0, <1>2, <1>3 DEF Places
<1>6. /\ reader' \in [Users -> [req : Requests \cup {Quiet}, pos : Nat, id : Nat,
                                inside : BOOLEAN, opened : Nat]]
      /\ \A v \in Users \ {u} : reader'[v] = reader[v]
  BY <1>0, <1>2 DEF Idle
<1>7. TypeOK'
  BY <1>0, <1>2, <1>4, <1>5, <1>6 DEF TypeOK, ByThread, tableVars, userVars, fileVars
<1>8. Frame(u)
  BY <1>2, <1>4, <1>5, <1>6 DEF Frame, ByThread, userVars, fileVars
<1>9. UNCHANGED <<cl, asked, up, astray>>
  BY <1>2 DEF ByThread, userVars
<1>10. u \notin astray
  BY <1>0, <1>2 DEF Session, AstrayPart
<1>11. cl[u] = "await" => /\ down[u] = <<>> /\ up[u] = <<>> /\ asked[u] = r.req
                          /\ net[u] = "open"
  BY <1>0, <1>2, <1>4, <1>10 DEF Session, TurnPart, ConnectionPart, Awaited, Unread, After, Reachable
<1>12. StreamPart(u)'
  BY <1>0, <1>5, <1>9, <1>10 DEF Session, StreamPart
<1>13. ConnectionPart(u)'
  BY <1>0, <1>2, <1>4, <1>5, <1>9 DEF Session, ConnectionPart
<1>14. TurnPart(u)'
  <2>1. th'[u] \in After(r.req)
    BY <1>1, <1>5 DEF After
  <2>2. cl[u] \notin {"prompt", "typing", "leaving"}
    BY <1>0, <1>2, <1>10 DEF Session, TurnPart, Unread, ConnectionPart
  <2> QED BY <1>4, <1>9, <1>11, <2>1, <2>2 DEF TurnPart, Awaited
<1> QED BY <1>7, <1>8, <1>9, <1>10, <1>12, <1>13, <1>14 DEF Session

-----------------------------------------------------------------------------
(* A thread, and all together.                                             *)
LEMMA HandleClientIInv ==
  ASSUME IInv, WriterPart, NEW u \in Users, HandleClient(u)
  PROVE  IInv'
<1>1. CASE RemoveClient(u)
  BY <1>1, RemoveClientIInv
<1>2. CASE ~ RemoveClient(u)
  <2>1. TypeOK' /\ Frame(u) /\ Session(u)'
    BY <1>2, RecvSimpleIInv, RecvUnknownIInv, RecvDataIInv, RecvLinesIInv, RecvTailIInv,
       RecvGoneIInv, WriteIInv, StoreFailsIInv, RecvQueryIInv, ReadPartIInv, ReadDoneIInv DEF HandleClient
  <2>2. /\ UNCHANGED <<clients, index>>
        /\ th[u] \notin {"none", "gone"} /\ th'[u] # "none"
    <3>0. th \in [Users -> Places]
      BY DEF IInv, TypeOK
    <3>1. /\ UNCHANGED <<clients, index>> /\ th[u] \notin {"none", "gone"}
          /\ \/ UNCHANGED th
             \/ \E place \in Places \ {"none"} : th' = [th EXCEPT ![u] = place]
      <4>1. CASE RecvSimple(u) \/ RecvUnknown(u)
        BY <4>1 DEF RecvSimple, RecvUnknown, Thread, Goto, ByThread, tableVars, threadVars, Places
      <4>2. CASE RecvData(u)
        BY <4>2 DEF RecvData, Thread, Goto, ByThread, tableVars, threadVars, Places
      <4>3. CASE RecvLines(u) \/ RecvTail(u)
        BY <4>3 DEF RecvLines, RecvTail, Store, Thread, Goto, ByThread, tableVars, threadVars, Places
      <4>4. CASE RecvEnd(u) \/ RecvClosed(u)
        BY <4>4 DEF RecvEnd, RecvClosed, Store, Thread, Goto, ByThread, tableVars, threadVars, Places
      <4>5. CASE Write(u) \/ StoreFails(u)
        BY <4>5 DEF Write, StoreFails, Thread, Goto, ByThread, tableVars, threadVars, Places
      <4>6. CASE RecvQuery(u)
        BY <4>6 DEF RecvQuery, Thread, Goto, ByThread, tableVars, threadVars, Places
      <4>7. CASE ReadPart(u) \/ ReadDone(u)
        BY <4>7 DEF ReadPart, ReadDone, Thread, Goto, ByThread, tableVars, threadVars, Places
      <4> QED BY <1>2, <4>1, <4>2, <4>3, <4>4, <4>5, <4>6, <4>7 DEF HandleClient
    <3> QED BY <3>0, <3>1
  <2>3. TablePart'
    <3>1. /\ \A v \in Users : th'[v] = "none" <=> th[v] = "none"
          /\ \A v \in Users \ {u} : th'[v] = th[v]
      BY <2>1, <2>2 DEF Frame
    <3>2. TablePart
      BY DEF IInv, InStep
    <3>3. \A i \in Slots : clients[i] # None => clients[i] \in Users
      BY DEF IInv, TypeOK
    <3>4. clients' = clients /\ index' = index
      BY <2>2
    <3>5. \A i \in Slots : clients'[i] # None =>
            th'[clients'[i]] # "none" /\ index'[clients'[i]] = i
      BY <3>1, <3>2, <3>3, <3>4 DEF TablePart
    <3>6. \A v \in Users : th'[v] = "none" => index'[v] = 0
      BY <3>1, <3>2, <3>4 DEF TablePart
    <3>7. \A v \in Users : th'[v] \notin {"none", "gone"} /\ index'[v] # 0 =>
            clients'[index'[v]] = v
      BY <2>2, <3>1, <3>2, <3>4 DEF TablePart
    <3> QED BY <3>5, <3>6, <3>7 DEF TablePart
  <2>4. \A v \in Users \ {u} : Session(v)'
    BY <2>1, OthersStay DEF IInv, InStep
  <2> QED BY <2>1, <2>3, <2>4 DEF IInv, InStep
<1> QED BY <1>1, <1>2

LEMMA InitIInv ==
  ASSUME Init
  PROVE  TypeOK /\ SessionsAgree
<1>1. 0 \in 0 .. MaxLines /\ 0 \in Nat /\ <<>> \in Items
  BY MailAssumption DEF Items
<1>2. TypeOK
  <2>1. /\ clients \in [Slots -> Users \cup {None}] /\ index \in [Users -> {0} \cup Slots]
        /\ th \in [Users -> Places] /\ net \in [Users -> {"none", "open", "fin", "rst", "hup"}]
        /\ recipient \in [Users -> Boxes \cup {None}] /\ hasSender \in [Users -> BOOLEAN]
        /\ asked \in [Users -> Requests \cup {Quiet}]
        /\ cl \in [Users -> {"out", "prompt", "await", "typing", "leaving", "closed"}]
    BY DEF Init, Places
  <2>2. /\ pending \in [Users -> Items] /\ buffer \in [{"list", "get"} -> Items]
        /\ mailbox \in [Boxes -> Items] /\ typed \in [Users -> 0 .. MaxLines]
    BY <1>1 DEF Init
  <2>3. /\ message \in [Users -> Seq(0 .. MaxLines)] /\ composed \in [Users -> Seq(Messages)]
        /\ up \in [Users -> Seq(Requests)]
        /\ down \in [Users -> Seq([to : Requests, kind : Answers, items : Items, opened : Nat])]
    <3>1. \A S : <<>> \in Seq(S)
      OBVIOUS
    <3> QED BY <3>1 DEF Init
  <2>4. reader \in [Users -> [req : Requests \cup {Quiet}, pos : Nat, id : Nat,
                             inside : BOOLEAN, opened : Nat]]
    BY <1>1 DEF Init, Idle
  <2> QED BY <2>1, <2>2, <2>3, <2>4 DEF Init, TypeOK
<1>3. \A u \in Users : Session(u)
  BY DEF Init, Session, StreamPart, OnlyText, ConnectionPart, TurnPart, Unread
<1>4. TablePart /\ WriterPart /\ SpoiltPart
  BY DEF Init, TablePart, WriterPart, SpoiltPart
<1> QED BY <1>2, <1>3, <1>4 DEF SessionsAgree, InStep

LEMMA NextWriter ==
  ASSUME TypeOK, WriterPart, Next
  PROVE  WriterPart'
<1>0. th \in [Users -> Places] /\ recipient \in [Users -> Boxes \cup {None}]
  BY DEF TypeOK
<1>1. PICK u \in Users : Client(u) \/ Accept(u) \/ HandleClient(u)
  BY DEF Next
<1>2. /\ \/ UNCHANGED th
         \/ \E place \in Places : th' = [th EXCEPT ![u] = place]
      /\ \/ UNCHANGED recipient
         \/ \E box : recipient' = [recipient EXCEPT ![u] = box]
  <2>1. CASE Client(u)
    BY <2>1 DEF Client, Connect, Give, TypeLine, EndText, Receive, ReceiveSome, Leave, Hungup,
       Close, ByClient,
       threadVars
  <2>2. CASE Accept(u) \/ RemoveClient(u)
    BY <2>2 DEF Accept, RemoveClient, Places
  <2>3. CASE RecvSimple(u) \/ RecvUnknown(u) \/ RecvData(u)
    BY <2>3 DEF RecvSimple, RecvUnknown, RecvData, Goto, threadVars, Places
  <2>4. CASE RecvLines(u) \/ RecvTail(u) \/ RecvEnd(u) \/ RecvClosed(u)
    BY <2>4 DEF RecvLines, RecvTail, RecvEnd, RecvClosed, Store, Goto, threadVars, Places
  <2>5. CASE Write(u) \/ StoreFails(u)
    BY <2>5 DEF Write, StoreFails, Goto, threadVars, Places
  <2>6. CASE RecvQuery(u) \/ ReadPart(u) \/ ReadDone(u)
    BY <2>6 DEF RecvQuery, ReadPart, ReadDone, Goto, threadVars, Places
  <2> QED BY <1>1, <2>1, <2>2, <2>3, <2>4, <2>5, <2>6 DEF HandleClient
<1>3. \A v \in Users \ {u} : th'[v] = th[v] /\ recipient'[v] = recipient[v]
  BY <1>0, <1>2
<1>4. th'[u] \in {"data", "store"} => recipient'[u] # None
  <2>1. CASE UNCHANGED <<th, recipient>>
    BY <2>1 DEF WriterPart
  <2>2. CASE Accept(u) \/ RemoveClient(u) \/ RecvSimple(u) \/ RecvQuery(u)
    BY <1>0, <2>2 DEF Accept, RemoveClient, RecvSimple, RecvQuery, Thread, Goto
  <2>3. CASE RecvData(u) \/ RecvLines(u) \/ RecvTail(u) \/ RecvEnd(u)
    BY <1>0, <2>3 DEF RecvData, Addressed, RecvLines, RecvTail, RecvEnd, Store, Thread, Goto, WriterPart
  <2>4. CASE RecvClosed(u) \/ Write(u) \/ StoreFails(u) \/ ReadDone(u)
    BY <1>0, <2>4 DEF RecvClosed, Write, StoreFails, ReadDone, Thread, Goto, WriterPart
  <2>5. CASE Client(u) \/ RecvUnknown(u) \/ ReadPart(u)
    BY <2>1, <2>5 DEF Client, Connect, Give, TypeLine, EndText, Receive, ReceiveSome, Leave, Hungup, Close,
       ByClient, RecvUnknown, ReadPart, threadVars
  <2> QED BY <1>1, <2>2, <2>3, <2>4, <2>5 DEF HandleClient
<1>5. cut' \subseteq astray'
  <2>1. \/ cut' = cut /\ astray \subseteq astray'
        \/ cut' = cut \cup {u} /\ astray' = astray \cup {u}
    <3>1. CASE Client(u)
      BY <3>1 DEF Client, Connect, Give, TypeLine, EndText, Receive, ReceiveSome, Leave, Hungup,
         Close, ByClient, fileVars
    <3>2. CASE Accept(u) \/ RemoveClient(u) \/ RecvSimple(u) \/ RecvUnknown(u) \/ RecvData(u)
      BY <3>2 DEF Accept, RemoveClient, RecvSimple, RecvUnknown, RecvData, fileVars
    <3>3. CASE RecvLines(u) \/ RecvTail(u) \/ RecvEnd(u) \/ RecvClosed(u) \/ Write(u)
                 \/ StoreFails(u)
      BY <3>3 DEF RecvLines, RecvTail, RecvEnd, RecvClosed, Write, StoreFails, fileVars
    <3>4. CASE RecvQuery(u) \/ ReadPart(u) \/ ReadDone(u)
      BY <3>4 DEF RecvQuery, ReadPart, ReadDone, fileVars
    <3> QED BY <1>1, <3>1, <3>2, <3>3, <3>4 DEF HandleClient
  <2> QED BY <2>1 DEF WriterPart
<1> QED BY <1>3, <1>4, <1>5 DEF WriterPart

LEMMA NextSpoilt ==
  ASSUME IInv, Next
  PROVE  SpoiltPart'
<1>0. TypeOK /\ TablePart /\ srv # "undefined"
  BY DEF IInv, InStep, Next
<1>1. PICK u \in Users : Client(u) \/ Accept(u) \/ HandleClient(u)
  BY DEF Next
<1>2. CASE ~ RemoveClient(u)
  <2>1. srv' = srv \/ srv' \in {"up", "down"}
    BY <1>1, <1>2 DEF Client, Connect, Give, TypeLine, EndText, Receive, ReceiveSome, Leave, Hungup, Close,
       ByClient, Accept, HandleClient, RecvSimple, RecvUnknown, RecvData, RecvLines, RecvTail,
       RecvEnd, RecvClosed, Write, StoreFails, RecvQuery, ReadPart, ReadDone, NotFound, Reply
  <2> QED BY <1>0, <2>1 DEF SpoiltPart
<1>3. CASE RemoveClient(u)
  <2>1. /\ th'[u] = "gone" /\ index' = index /\ index[u] \in {0} \cup Slots
        /\ srv = "up" /\ th[u] = "closing" /\ 0 \notin Slots
    BY <1>0, <1>3 DEF TypeOK, RemoveClient, Slots
  <2>2. index[u] # 0 => clients[index[u]] = u
    BY <1>0, <2>1 DEF TablePart
  <2>3. index[u] # 0 => srv' = "up"
    BY <1>3, <2>1, <2>2 DEF RemoveClient
  <2> QED BY <2>1, <2>3 DEF SpoiltPart
<1> QED BY <1>2, <1>3

LEMMA NextIInv ==
  ASSUME TypeOK, SessionsAgree, [Next]_vars
  PROVE  TypeOK' /\ SessionsAgree'
<1>1. CASE Next
  <2>1. PICK u \in Users : Client(u) \/ Accept(u) \/ HandleClient(u)
    BY <1>1 DEF Next
  <2>2. IInv /\ WriterPart
    BY DEF IInv, SessionsAgree
  <2>3. IInv'
    BY <2>1, <2>2, ClientIInv, AcceptIInv, HandleClientIInv
  <2>4. WriterPart' /\ SpoiltPart'
    BY <1>1, <2>2, NextWriter, NextSpoilt DEF IInv
  <2> QED BY <2>3, <2>4 DEF IInv, SessionsAgree
<1>2. CASE UNCHANGED vars
  <2>1. UNCHANGED <<srv, clients, index, th, recipient, hasSender, message, pending, reader,
                    buffer, mixed, mailbox, torn, net, up, down, cl, asked, composed, typed,
                    astray, cut>>
    BY <1>2 DEF vars, tableVars, threadVars, readVars, fileVars, userVars
  <2>2. TypeOK'
    BY <2>1 DEF TypeOK
  <2>3. InStep'
    BY <2>1 DEF SessionsAgree, InStep, TablePart, Session, StreamPart, OnlyText, ConnectionPart,
       AstrayPart, TurnPart, Awaited, Unread, Reachable
  <2>4. WriterPart' /\ SpoiltPart'
    BY <2>1 DEF SessionsAgree, WriterPart, SpoiltPart
  <2> QED BY <2>2, <2>3, <2>4 DEF SessionsAgree
<1> QED BY <1>1, <1>2

-----------------------------------------------------------------------------
(* Every variable of the mail server, its threads and its clients keeps    *)
(* its type: handle_client is only ever asked something it has a branch    *)
(* for, and what is in the files are parts of mails.                       *)
THEOREM TypeCorrect == Spec => []TypeOK
<1> QED BY InitIInv, NextIInv, PTL DEF Spec

(* Each client program and its thread agree on what is to be sent next and *)
(* by whom, however many other clients connect, send, leave or are cut     *)
(* off; and clients[] lists the threads that found an entry in it.         *)
THEOREM SessionsStayInStep == Spec => []SessionsAgree
<1> QED BY InitIInv, NextIInv, PTL DEF Spec

(* The answer that a client takes is the one to what it sent last, unless  *)
(* it typed its message although DATA had been refused or a dot cut off    *)
(* from a line had ended it, or an answer was longer than its buffer.      *)
THEOREM AnswersComeInStep == Spec => []AnswersInStep
<1>1. TypeOK /\ SessionsAgree => AnswersInStep
  <2> SUFFICES ASSUME TypeOK, SessionsAgree, NEW u \in Users \ astray
               PROVE  /\ down[u] # <<>> =>
                           cl[u] = "await" /\ Len(down[u]) = 1 /\ down[u][1].to = asked[u]
                      /\ cl[u] = "prompt" => up[u] = <<>>
    BY DEF AnswersInStep
  <2>1. TurnPart(u) /\ ConnectionPart(u)
    BY DEF SessionsAgree, InStep, Session
  <2>2. cl[u] \in {"out", "prompt", "await", "typing", "leaving", "closed"}
    BY DEF TypeOK
  <2> QED BY <2>1, <2>2 DEF TurnPart, ConnectionPart, Awaited
<1> QED BY <1>1, InitIInv, NextIInv, PTL DEF Spec

(* A command that its user waits on is on its way, with the thread that is *)
(* to answer it, or answered.                                              *)
THEOREM CommandsAreKept == Spec => []NoCommandForgotten
<1>1. TypeOK /\ SessionsAgree => NoCommandForgotten
  <2> SUFFICES ASSUME TypeOK, SessionsAgree, NEW u \in Users,
                      cl[u] = "await", asked[u] # Dot, Reachable(u)
               PROVE  \/ up[u] # <<>> /\ Last(up[u]) = asked[u] /\ th[u] \in {"none", "command"}
                      \/ th[u] = "read" /\ reader[u].req = asked[u]
                      \/ down[u] # <<>>
    BY DEF NoCommandForgotten
  <2>1. CASE u \in astray
    <3>1. AstrayPart(u)
      BY <2>1 DEF SessionsAgree, InStep, Session
    <3> QED BY <3>1 DEF AstrayPart
  <2>2. CASE u \notin astray
    <3>1. Awaited(u)
      BY <2>2 DEF SessionsAgree, InStep, Session, TurnPart
    <3>2. up[u] = <<asked[u]>> => up[u] # <<>> /\ Last(up[u]) = asked[u]
      BY DEF Last
    <3> QED BY <3>1, <3>2 DEF Awaited, Unread, Reachable
  <2> QED BY <2>1, <2>2
<1> QED BY <1>1, InitIInv, NextIInv, PTL DEF Spec

(* A thread's entry of clients[] is its own until it removes it, and its   *)
(* connection is closed by nobody else; memory is spoilt only by a client  *)
(* that found the table full.                                              *)
THEOREM EntriesStayOwn == Spec => []EntriesAreOwn
<1>1. TypeOK /\ SessionsAgree => EntriesAreOwn
  <2> SUFFICES ASSUME TypeOK, SessionsAgree PROVE EntriesAreOwn
    OBVIOUS
  <2>1. TablePart /\ SpoiltPart /\ \A u \in Users : ConnectionPart(u)
    BY DEF SessionsAgree, InStep, Session
  <2> QED BY <2>1 DEF EntriesAreOwn, TablePart, SpoiltPart, ConnectionPart
<1> QED BY <1>1, InitIInv, NextIInv, PTL DEF Spec
=============================================================================
