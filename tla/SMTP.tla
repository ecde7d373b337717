-------------------------------- MODULE SMTP --------------------------------
(***************************************************************************)
(* The mail server of week_9, a thread for each connection, and the client *)
(* program its users run.  The threads share the mailbox files, the table  *)
(* clients[], and the static buffers of list_emails and get_email.         *)
(*                                                                         *)
(* TCP is a byte stream: the client sends its lines without their newline, *)
(* so lines that wait together are one line to the server's recv, and both *)
(* ends take no more than BUFFER_SIZE octets at once.  A thread's recv,    *)
(* its work on its own data and its send are one action; what it does to a *)
(* file or to a static buffer is a step of its own.                        *)
(***************************************************************************)
EXTENDS Integers, SequencesExt

CONSTANTS
  Users,         \* client programs; each connects once, with its own address
  Boxes,         \* recipients
  MAX_CLIENTS,   \* entries of clients[]
  WriteLen,      \* parts of a mail that one write() takes: stdio's buffer
  MaxLines,      \* bound: lines of text a user types
  MaxMails,      \* bound: how often a user gives DATA
  May,           \* bound: the commands that each user gives
  None           \* no user, no recipient

ASSUME MailAssumption ==
  /\ MAX_CLIENTS \in Nat \ {0} /\ WriteLen \in Nat \ {0}
  /\ MaxLines \in Nat /\ MaxMails \in Nat
  /\ IsFiniteSet(Users) /\ None \notin Users \cup Boxes

VARIABLES
  srv,                    \* the server process: "up", "down" or "undefined"
  clients, index,         \* the table, and the index each client_t keeps
  th, recipient, hasSender, message,   \* handle_client and its locals
  pending,                \* the parts of a mail that store_email has not written
  reader,                 \* list_emails and get_email: what they look for
  buffer,                 \* list_buffer and email_buffer
  mailbox,                \* the files, each a sequence of parts
  net, up, down,          \* connections: state, requests and answers in flight
  cl, asked,              \* client programs: where each is, its last request
  composed, typed,        \* history: what each user typed after each DATA,
                          \* up to where recv cut it, and how many lines
  astray, cut, torn, mixed   \* history: hazards that were met, see below

fileVars   == <<mailbox, torn, cut>>
readVars   == <<reader, buffer, mixed>>
tableVars  == <<clients, index>>
threadVars == <<th, recipient, hasSender, message, pending>>
userVars   == <<cl, asked, composed, typed>>
vars == <<srv, tableVars, threadVars, readVars, fileVars, net, up, down,
          userVars, astray>>

Slots == 1 .. MAX_CLIENTS
Ids   == 1 .. MaxMails
Req(c, b, n) == [cmd |-> c, box |-> b, n |-> n]
Quiet == Req("none", None, 0)
Dot   == Req("dot", None, 0)
Commands == {Req(c, None, 0) : c \in {"mail", "data", "quit"}}
              \cup {Req(c, b, 0) : c \in {"rcpt", "list"}, b \in Boxes}
              \cup {Req("get", b, n) : b \in Boxes, n \in Ids}
Texts    == {Req("text", None, n) : n \in 1 .. MaxLines}
Requests == Commands \cup Texts \cup {Dot}

ASSUME MayAssumption == May \in [Users -> SUBSET Commands]

(* A file holds, for each mail, its heading with the sender and the date,  *)
(* its text and its end mark.  n of the heading says which of its user's   *)
(* messages it is: nothing in the program depends on it.  A heading in a   *)
(* listing has the number of the mail instead.                             *)
Part(k, u, n) == [kind |-> k, from |-> u, n |-> n]
Parts == [kind : {"start", "text", "end"}, from : Users, n : Nat]
Mail(u, k, text) == <<Part("start", u, k)>>
                      \o [i \in 1 .. Len(text) |-> Part("text", u, text[i])]
                      \o <<Part("end", u, 0)>>

Idle == [req |-> Quiet, pos |-> 0, id |-> 0, inside |-> FALSE, opened |-> 0]
Answers == {"ok", "err", "notfound", "badseq", "prompt", "stored", "failed",
            "goodbye", "rest"}

Init ==
  /\ srv = "up"
  /\ clients = [i \in Slots |-> None] /\ index = [u \in Users |-> 0]
  /\ th = [u \in Users |-> "none"]
  /\ recipient = [u \in Users |-> None] /\ hasSender = [u \in Users |-> FALSE]
  /\ message = [u \in Users |-> <<>>] /\ pending = [u \in Users |-> <<>>]
  /\ reader = [u \in Users |-> Idle]
  /\ buffer = [c \in {"list", "get"} |-> <<>>]
  /\ mailbox = [b \in Boxes |-> <<>>]
  /\ net = [u \in Users |-> "none"]
  /\ up = [u \in Users |-> <<>>] /\ down = [u \in Users |-> <<>>]
  /\ cl = [u \in Users |-> "out"] /\ asked = [u \in Users |-> Quiet]
  /\ composed = [u \in Users |-> <<>>] /\ typed = [u \in Users |-> 0]
  /\ astray = {} /\ cut = {} /\ torn = {} /\ mixed = FALSE

-----------------------------------------------------------------------------
(* The client program.                                                     *)

Waits(u, req) == cl' = [cl EXCEPT ![u] = "await"] /\ asked' = [asked EXCEPT ![u] = req]

ByClient == UNCHANGED <<srv, tableVars, threadVars, readVars, fileVars, astray>>

(* What is sent to a connection that the server has closed is lost.        *)
Reachable(u) == srv = "up" /\ net[u] # "hup"
Send(u, req) == up' = [up EXCEPT ![u] = IF Reachable(u) THEN Append(@, req) ELSE @]

Connect(u) ==
  /\ cl[u] = "out" /\ srv = "up"
  /\ cl' = [cl EXCEPT ![u] = "prompt"]
  /\ net' = [net EXCEPT ![u] = "open"]
  /\ ByClient /\ UNCHANGED <<up, down, asked, composed, typed>>

(* A command is typed at the prompt; HELO, whose name is never used, is    *)
(* answered like MAIL FROM and left out.  So is what a user does after the *)
(* client and the server have lost step, except that he can leave.         *)
Give(u) ==
  /\ cl[u] = "prompt" /\ u \notin astray
  /\ \E req \in May[u] :
       /\ Waits(u, req) /\ Send(u, req)
       /\ IF req.cmd = "data"
          THEN /\ Len(composed[u]) < MaxMails
               /\ composed' = [composed EXCEPT ![u] =
                                 Append(@, [box |-> recipient[u], text |-> <<>>])]
          ELSE UNCHANGED composed
  /\ ByClient /\ UNCHANGED <<net, down, typed>>

(* A line of the message; or behind its end, if that came too early.       *)
TypeLine(u) ==
  /\ cl[u] = "typing" /\ typed[u] < MaxLines
  /\ typed' = [typed EXCEPT ![u] = @ + 1]
  /\ Send(u, Req("text", None, typed'[u]))
  /\ composed' = IF u \in cut THEN composed
                  ELSE [composed EXCEPT ![u][Len(composed[u])].text = Append(@, typed'[u])]
  /\ ByClient /\ UNCHANGED <<net, down, cl, asked>>

(* The dot that ends it; or the input ends, and nothing is sent.           *)
EndText(u) ==
  /\ cl[u] = "typing"
  /\ Waits(u, Dot)
  /\ Send(u, Dot) \/ UNCHANGED up
  /\ ByClient /\ UNCHANGED <<net, down, composed, typed>>

(* recv takes what has arrived, if its buffer has room for it.  Whatever   *)
(* the answer to DATA is, the user is asked for the message.               *)
Receive(u) ==
  /\ cl[u] = "await"
  /\ \E k \in 1 .. Len(down[u]) : down' = [down EXCEPT ![u] = SubSeq(@, k + 1, Len(@))]
  /\ cl' = [cl EXCEPT ![u] = IF asked[u].cmd = "data" THEN "typing" ELSE
                             IF asked[u].cmd = "quit" THEN "leaving" ELSE "prompt"]
  /\ asked' = [asked EXCEPT ![u] = Quiet]
  /\ ByClient /\ UNCHANGED <<net, up, composed, typed>>

(* The answers to LIST and GET_MAIL can be longer than the buffer: what    *)
(* does not fit is left for the next recv, and the client has lost step.   *)
(* (The octet it writes behind its full buffer is in input, which it       *)
(* clears before it reads it.)                                             *)
ReceiveSome(u) ==
  /\ cl[u] = "await" /\ asked[u].cmd \in {"list", "get"}
  /\ down[u] # <<>> /\ Head(down[u]).items # <<>>
  /\ down' = [down EXCEPT ![u][1].kind = "rest"]
  /\ cl' = [cl EXCEPT ![u] = "prompt"]
  /\ asked' = [asked EXCEPT ![u] = Quiet]
  /\ astray' = astray \cup {u}
  /\ UNCHANGED <<srv, tableVars, threadVars, readVars, fileVars, net, up,
                 composed, typed>>

(* The connection ends on the client's side: the program ends, is stopped, *)
(* or finds that the server has closed.  Unread answers make it a reset.   *)
Close(u) ==
  /\ cl' = [cl EXCEPT ![u] = "closed"]
  /\ asked' = [asked EXCEPT ![u] = Quiet]
  /\ net' = [net EXCEPT ![u] = IF @ = "hup" THEN @ ELSE
                               IF down[u] = <<>> THEN "fin" ELSE "rst"]
  /\ down' = [down EXCEPT ![u] = <<>>]
  /\ ByClient /\ UNCHANGED <<up, composed, typed>>

Leave(u)  == cl[u] \notin {"out", "closed"} /\ Close(u)
Hungup(u) == /\ cl[u] = "await" /\ down[u] = <<>>
             /\ ~ Reachable(u)
             /\ Close(u)

Client(u) == Connect(u) \/ Give(u) \/ TypeLine(u) \/ EndText(u) \/ Receive(u)
               \/ ReceiveSome(u) \/ Leave(u) \/ Hungup(u)

-----------------------------------------------------------------------------
(* main and the table of clients.                                          *)

(* The entries that can be taken, and all of them; the one that is, and    *)
(* the one after it.                                                       *)
AnyEntry == Slots
FreeEntries == {i \in Slots : clients[i] = None}
NextEntry == Min(FreeEntries) + 1
FirstEntry == Min(FreeEntries)

(* add_client.  With no entry free the index stays what malloc left: 0.    *)
AddClient(u) ==
  IF FreeEntries = {} THEN UNCHANGED tableVars
  ELSE /\ clients' = [clients EXCEPT ![FirstEntry] = u]
       /\ index' = [index EXCEPT ![u] = FirstEntry]

(* When pthread_create fails the connection is closed and the client_t     *)
(* freed, but its entry stays.                                             *)
Accept(u) ==
  /\ srv = "up" /\ cl[u] # "out" /\ th[u] = "none"
  /\ AddClient(u)
  /\ \/ th' = [th EXCEPT ![u] = "command"] /\ UNCHANGED net
     \/ th' = [th EXCEPT ![u] = "gone"] /\ net' = [net EXCEPT ![u] = "hup"]
  /\ UNCHANGED <<srv, recipient, hasSender, message, pending, readVars,
                 fileVars, up, down, userVars, astray>>

(* remove_client: an index that was never set can be anything.  When it    *)
(* names another's entry, or none, memory is no longer sound and the model *)
(* stops; an empty entry leaves the connection open for ever.              *)
RemoveClient(u) ==
  /\ srv = "up" /\ th[u] = "closing"
  /\ th' = [th EXCEPT ![u] = "gone"]
  /\ recipient' = [recipient EXCEPT ![u] = None]
  /\ hasSender' = [hasSender EXCEPT ![u] = FALSE]
  /\ \E i \in IF index[u] = 0 THEN {0} \cup Slots ELSE {index[u]} :
       \/ /\ i # 0 /\ clients[i] = u
          /\ clients' = [clients EXCEPT ![i] = None]
          /\ net' = [net EXCEPT ![u] = "hup"]
          /\ UNCHANGED srv
       \/ /\ i # 0 /\ clients[i] = None
          /\ UNCHANGED <<srv, clients, net>>
       \/ /\ ~ (i # 0 /\ clients[i] \in {u, None})
          /\ srv' = "undefined"
          /\ UNCHANGED <<clients, net>>
  /\ UNCHANGED <<index, message, pending, readVars, fileVars, up, down,
                 userVars, astray>>

-----------------------------------------------------------------------------
(* handle_client.                                                          *)

ByThread == UNCHANGED <<tableVars, userVars>>
Thread(u, where) == srv = "up" /\ th[u] = where
Goto(u, where) == th' = [th EXCEPT ![u] = where]

(* send.  To a client that has closed it draws a reset; after the reset    *)
(* has been seen it raises SIGPIPE, which nobody catches.                  *)
Reply(u, to, kind, items, opened) ==
  \/ /\ net[u] = "open"
     /\ down' = [down EXCEPT ![u] = Append(@, [to |-> to, kind |-> kind,
                                               items |-> items, opened |-> opened])]
     /\ UNCHANGED <<net, srv>>
  \/ /\ net[u] = "fin"
     /\ net' = [net EXCEPT ![u] = "rst"]
     /\ UNCHANGED <<down, srv>>
  \/ /\ net[u] = "rst"
     /\ srv' \in {"up", "down"}
     /\ UNCHANGED <<down, net>>

(* recv returns the first k requests; and it returns 0 or fails.           *)
Takes(u, k) == /\ k \in 1 .. Len(up[u])
               /\ up' = [up EXCEPT ![u] = SubSeq(@, k + 1, Len(@))]
Ended(u) == up[u] = <<>> /\ net[u] \in {"fin", "rst"}

RecvSimple(u) ==
  /\ Thread(u, "command")
  /\ Takes(u, 1)
  /\ LET req == Head(up[u]) IN
     /\ req.cmd \in {"mail", "rcpt", "quit"}
     /\ hasSender' = [hasSender EXCEPT ![u] = @ \/ req.cmd = "mail"]
     /\ recipient' = [recipient EXCEPT ![u] = IF req.cmd = "rcpt" THEN req.box ELSE @]
     /\ Goto(u, IF req.cmd = "quit" THEN "closing" ELSE "command")
     /\ Reply(u, req, IF req.cmd = "quit" THEN "goodbye" ELSE "ok", <<>>, 0)
  /\ ByThread /\ UNCHANGED <<message, pending, readVars, fileVars, astray>>

(* No command: lines of text that the server did not expect.               *)
RecvUnknown(u) ==
  /\ Thread(u, "command")
  /\ \E k \in 1 .. Len(up[u]) :
       /\ Takes(u, k)
       /\ \A i \in 1 .. k : up[u][i].cmd \in {"text", "dot"}
  /\ Reply(u, Head(up[u]), "err", <<>>, 0)
  /\ ByThread /\ UNCHANGED <<threadVars, readVars, fileVars, astray>>

(* DATA needs a sender and a recipient; and only a sender.                 *)
AddressedFrom(u) == hasSender[u]
Addressed(u) == hasSender[u] /\ recipient[u] # None

RecvData(u) ==
  /\ Thread(u, "command")
  /\ Takes(u, 1)
  /\ Head(up[u]).cmd = "data"
  /\ IF Addressed(u)
     THEN /\ Goto(u, "data")
          /\ Reply(u, Head(up[u]), "prompt", <<>>, 0)
          /\ UNCHANGED astray
     ELSE /\ Reply(u, Head(up[u]), "badseq", <<>>, 0)
          /\ astray' = astray \cup {u}
          /\ UNCHANGED th
  /\ ByThread /\ UNCHANGED <<recipient, hasSender, message, pending, readVars,
                             fileVars>>

(* Text is added with strcat; and with strcpy.                             *)
JoinOver(text, lines) == lines
Join(text, lines) == text \o lines

(* fopen for store_email, with the mail to be written.  message is local   *)
(* to the branch.                                                          *)
Store(u, text) ==
  /\ Goto(u, "store")
  /\ pending' = [pending EXCEPT ![u] = Mail(u, Len(composed[u]), text)]
  /\ message' = [message EXCEPT ![u] = <<>>]

(* Mutant: each line of the message is answered.                           *)
RecvLinesAnswered(u) ==
  /\ Thread(u, "data")
  /\ Takes(u, 1) /\ Head(up[u]) # Dot
  /\ message' = [message EXCEPT ![u] = Join(@, <<Head(up[u]).n>>)]
  /\ Reply(u, Head(up[u]), "ok", <<>>, 0)
  /\ ByThread /\ UNCHANGED <<th, recipient, hasSender, pending, readVars,
                             fileVars, astray>>

(* A line of the message, or several as one, a dot among them included.    *)
(* One that recv cuts in two, as its buffer is full, is here taken with    *)
(* its end: between the two nobody sees any of it.                         *)
RecvLines(u) ==
  /\ Thread(u, "data")
  /\ \E k \in 1 .. Len(up[u]) :
       /\ Takes(u, k)
       /\ IF k = 1 /\ Head(up[u]) = Dot THEN Store(u, message[u])
          ELSE /\ message' = [message EXCEPT ![u] = Join(@, [i \in 1 .. k |-> up[u][i].n])]
               /\ UNCHANGED <<th, pending>>
  /\ ByThread /\ UNCHANGED <<srv, recipient, hasSender, readVars, fileVars,
                             net, down, astray>>

(* Unless recv leaves the last octet of all that waits, and it is a dot:   *)
(* then that is taken for the end of the message, which is stored as it    *)
(* is; what its user still types comes where a command is expected.  (A    *)
(* line behind it that has not arrived is as one that is not sent yet.)    *)
RecvTail(u) ==
  /\ Thread(u, "data")
  /\ up[u] # <<>> /\ Last(up[u]) # Dot
  /\ Takes(u, Len(up[u]))
  /\ Store(u, Join(message[u], [i \in 1 .. Len(up[u]) |-> up[u][i].n]))
  /\ astray' = astray \cup {u}
  /\ cut' = cut \cup {u}
  /\ ByThread /\ UNCHANGED <<srv, recipient, hasSender, readVars, mailbox,
                             torn, net, down>>

(* The client is gone: what has come of the message is stored.             *)
RecvEnd(u) ==
  /\ Thread(u, "data") /\ Ended(u)
  /\ Store(u, message[u])
  /\ ByThread /\ UNCHANGED <<srv, recipient, hasSender, readVars, fileVars,
                             net, up, down, astray>>

RecvClosed(u) ==
  /\ Thread(u, "command") /\ Ended(u)
  /\ Goto(u, "closing")
  /\ ByThread /\ UNCHANGED <<srv, recipient, hasSender, message, pending,
                             readVars, fileVars, net, up, down, astray>>

-----------------------------------------------------------------------------
(* store_email and the answer to the dot.                                  *)

Begun(u) == pending[u] # <<>> /\ Head(pending[u]).kind # "start"

(* One write() to the end of the file; torn are the files in which it      *)
(* falls into the middle of another's mail.                                *)
Write(u) ==
  LET b == recipient[u]
      n == Min({WriteLen, Len(pending[u])})
  IN
  /\ Thread(u, "store")
  /\ mailbox' = [mailbox EXCEPT ![b] = @ \o SubSeq(pending[u], 1, n)]
  /\ pending' = [pending EXCEPT ![u] = SubSeq(@, n + 1, Len(@))]
  /\ torn' = IF \E v \in Users \ {u} : recipient[v] = b /\ Begun(v)
             THEN torn \cup {b} ELSE torn
  /\ IF pending'[u] = <<>>
     THEN Goto(u, "command") /\ Reply(u, Dot, "stored", <<>>, 0)
     ELSE UNCHANGED <<th, net, down, srv>>
  /\ ByThread /\ UNCHANGED <<recipient, hasSender, message, readVars, cut, up,
                             astray>>

(* The answer when store_email fails, and when that is not looked at.      *)
FailedUnseen == "stored"
Failed == "failed"

(* fopen fails.                                                            *)
StoreFails(u) ==
  /\ Thread(u, "store") /\ ~ Begun(u)
  /\ pending' = [pending EXCEPT ![u] = <<>>]
  /\ Goto(u, "command")
  /\ Reply(u, Dot, Failed, <<>>, 0)
  /\ ByThread /\ UNCHANGED <<recipient, hasSender, message, readVars, fileVars,
                             up, astray>>

-----------------------------------------------------------------------------
(* list_emails and get_email.                                              *)

(* There is no such file; and the answer to that is left out.              *)
NotFoundSilent(u, req) == UNCHANGED <<net, down, srv>>
NotFound(u, req) == Reply(u, req, "notfound", <<>>, 0)

(* The static buffer of a command starts again with OK.                    *)
Fresh(c) == buffer' = [buffer EXCEPT ![c] = <<>>]

RecvQuery(u) ==
  LET req == Head(up[u]) IN
  /\ Thread(u, "command")
  /\ Takes(u, 1)
  /\ req.cmd \in {"list", "get"}
  /\ IF mailbox[req.box] = <<>>
     THEN NotFound(u, req) /\ UNCHANGED <<th, readVars>>
     ELSE /\ Goto(u, "read")
          /\ Fresh(req.cmd)
          /\ reader' = [reader EXCEPT ![u] =
                [Idle EXCEPT !.req = req, !.opened = Len(mailbox[req.box])]]
          /\ mixed' = (mixed \/ \E v \in Users : reader[v].req.cmd = req.cmd)
          /\ UNCHANGED <<net, down, srv>>
  /\ ByThread /\ UNCHANGED <<recipient, hasSender, message, pending, fileVars,
                             astray>>

(* The reader has seen the whole file, or the end mark of its mail; and    *)
(* one that does not stop at the mark.                                     *)
AtEndOfFile(r) == r.pos = Len(mailbox[r.req.box])
AtEnd(r) == LET file == mailbox[r.req.box] IN
            \A next \in DOMAIN file \cap {r.pos + 1} :
              r.inside /\ file[next].kind = "end"

(* One part is read and, when it is wanted, appended to the buffer.        *)
ReadPart(u) ==
  LET r      == reader[u]
      part   == mailbox[r.req.box][r.pos + 1]
      id     == IF part.kind = "start" THEN r.id + 1 ELSE r.id
      inside == r.inside \/ (r.req.cmd = "get" /\ id = r.req.n)
      entry  == Part("start", part.from, id)
  IN
  /\ Thread(u, "read") /\ ~ AtEnd(r)
  /\ reader' = [reader EXCEPT ![u].pos = @ + 1, ![u].id = id, ![u].inside = inside]
  /\ buffer' = IF inside THEN [buffer EXCEPT !.get = Append(@, part)]
               ELSE IF r.req.cmd = "list" /\ part.kind = "start"
               THEN [buffer EXCEPT !.list = Append(@, entry)]
               ELSE buffer
  /\ ByThread /\ UNCHANGED <<srv, threadVars, mixed, fileVars, net, up, down,
                             astray>>

(* The answer is whatever the static buffer holds when it is sent; what is *)
(* left in it is of no use to a later command.                             *)
ReadDone(u) ==
  LET r == reader[u] IN
  /\ Thread(u, "read") /\ AtEnd(r)
  /\ reader' = [reader EXCEPT ![u] = Idle]
  /\ Goto(u, "command")
  /\ IF r.req.cmd = "get" /\ ~ r.inside
     THEN Reply(u, r.req, "notfound", <<>>, r.opened)
     ELSE Reply(u, r.req, "ok", buffer[r.req.cmd], r.opened)
  /\ IF \E v \in Users \ {u} : reader[v].req.cmd = r.req.cmd
     THEN UNCHANGED buffer ELSE Fresh(r.req.cmd)
  /\ ByThread /\ UNCHANGED <<recipient, hasSender, message, pending, mixed,
                             fileVars, up, astray>>

HandleClient(u) ==
  \/ RecvSimple(u) \/ RecvUnknown(u) \/ RecvData(u) \/ RecvLines(u)
  \/ RecvTail(u) \/ RecvEnd(u) \/ RecvClosed(u) \/ Write(u) \/ StoreFails(u)
  \/ RecvQuery(u) \/ ReadPart(u) \/ ReadDone(u) \/ RemoveClient(u)

Next == /\ srv # "undefined"
        /\ \E u \in Users : Client(u) \/ Accept(u) \/ HandleClient(u)

Spec == Init /\ [][Next]_vars

-----------------------------------------------------------------------------
Places == {"none", "command", "data", "store", "read", "closing", "gone"}
Items == Seq(Parts)
Messages == [box : Boxes \cup {None}, text : Seq(1 .. MaxLines)]

TypeOK ==
  /\ srv \in {"up", "down", "undefined"}
  /\ clients \in [Slots -> Users \cup {None}]
  /\ index \in [Users -> {0} \cup Slots]
  /\ th \in [Users -> Places]
  /\ recipient \in [Users -> Boxes \cup {None}] /\ hasSender \in [Users -> BOOLEAN]
  /\ message \in [Users -> Seq(0 .. MaxLines)]
  /\ pending \in [Users -> Items]
  /\ reader \in [Users -> [req : Requests \cup {Quiet}, pos : Nat, id : Nat,
                          inside : BOOLEAN, opened : Nat]]
  /\ buffer \in [{"list", "get"} -> Items]
  /\ mailbox \in [Boxes -> Items]
  /\ net \in [Users -> {"none", "open", "fin", "rst", "hup"}]
  /\ up \in [Users -> Seq(Requests)]
  /\ down \in [Users -> Seq([to : Requests, kind : Answers, items : Items,
                             opened : Nat])]
  /\ cl \in [Users -> {"out", "prompt", "await", "typing", "leaving", "closed"}]
  /\ asked \in [Users -> Requests \cup {Quiet}]
  /\ composed \in [Users -> Seq(Messages)] /\ typed \in [Users -> 0 .. MaxLines]
  /\ astray \subseteq Users /\ cut \subseteq Users /\ torn \subseteq Boxes
  /\ mixed \in BOOLEAN

(* Where mails begin within the first k parts of a file.                   *)
Starts(file, k) == {i \in 1 .. k : file[i].kind = "start"}
Mails(b) == Starts(mailbox[b], Len(mailbox[b]))

(* A file has nothing but this mail from i on; and it has all of it.       *)
Holds(file, i, mail) ==
  \A j \in DOMAIN mail : i + j - 1 \in DOMAIN file => file[i + j - 1] = mail[j]
HoldsAll(file, i, mail) == Holds(file, i, mail) /\ i + Len(mail) - 1 <= Len(file)

(* What becomes of a text that was typed: a line that came together with   *)
(* the dot ends in it.  (A text is the lines in it; the ends of lines, the *)
(* dot that was cut off from one, and the few octets that strcat finds     *)
(* behind a buffer that recv has filled are not looked at.)                *)
Arrivals(text) == {text, Append(text, 0)}

(* What is in a mailbox was typed by the user it is from, for that         *)
(* recipient, with all its lines in their order however they were joined   *)
(* on the way and whenever the user left, and its parts stand together;    *)
(* and a message is nowhere twice.  Excepted are only the text of a file   *)
(* with two long mails written at once, and the lines behind one from      *)
(* which recv has cut off a dot: that line is the last of its message.     *)
StoredAsTyped ==
  /\ \A b \in Boxes \ torn : \A i \in Mails(b) :
       LET start == mailbox[b][i]
           m     == composed[start.from][start.n]
       IN  /\ m.box = b
           /\ \E text \in Arrivals(m.text) :
                Holds(mailbox[b], i, Mail(start.from, start.n, text))
  /\ \A b, c \in Boxes : \A i \in Mails(b), j \in Mails(c) :
       mailbox[b][i] = mailbox[c][j] => b = c /\ i = j

(* "200 Message stored successfully" is only said of a mail that is in the *)
(* recipient's file with every line its user typed; or, when recv has cut  *)
(* off a dot from one of them, with every line up to that one.             *)
LastMail(u) == Mail(u, Len(composed[u]), Last(composed[u]).text)
AnsweredIsStored ==
  \A u \in Users : \A r \in Range(down[u]) :
    r.kind = "stored" /\ recipient[u] \notin torn =>
      \E i \in Mails(recipient[u]) : HoldsAll(mailbox[recipient[u]], i, LastMail(u))

(* The answer a client takes is the one to what it sent last, unless it    *)
(* went on with its message although DATA had been refused or a dot cut    *)
(* off from a line had ended it, or an answer was longer than its buffer.  *)
AnswersInStep ==
  \A u \in Users \ astray :
    /\ down[u] # <<>> =>
         cl[u] = "await" /\ Len(down[u]) = 1 /\ down[u][1].to = asked[u]
    /\ cl[u] = "prompt" => up[u] = <<>>

(* LIST numbers the mails of the recipient it was given, and leaves out    *)
(* none that was there when it was asked; GET_MAIL returns the mail of     *)
(* that number, with all its lines that were there then; unless two        *)
(* threads used a static buffer at once, or the file is torn.              *)
TrueList(r, file) ==
  /\ Cardinality(Starts(file, r.opened)) <= Len(r.items)
  /\ \A k \in 1 .. Len(r.items) : \E i \in Starts(file, Len(file)) :
       /\ k = Cardinality(Starts(file, i))
       /\ r.items[k] = Part("start", file[i].from, k)
TrueMail(r, file) ==
  \E i \in Starts(file, Len(file)) :
    LET last == i + Len(r.items) - 1 IN
    /\ r.to.n = Cardinality(Starts(file, i))
    /\ last \in i .. Len(file) /\ r.items = SubSeq(file, i, last)
    /\ \A j \in i + 1 .. last : file[j].kind = "text"
    /\ last < r.opened => file[last + 1].kind = "end"
AnswersAreTrue ==
  ~ mixed => \A u \in Users : \A r \in Range(down[u]) :
    /\ r.kind = "ok" /\ r.to.cmd = "list" => TrueList(r, mailbox[r.to.box])
    /\ r.kind = "ok" /\ r.to.cmd = "get" /\ r.to.box \notin torn =>
         TrueMail(r, mailbox[r.to.box])
    /\ r.kind = "notfound" /\ r.to.cmd = "get" =>
         Cardinality(Starts(mailbox[r.to.box], r.opened)) < r.to.n

(* A thread's entry is its own until it removes it, and so its connection  *)
(* is closed by nobody else.  Memory is spoilt only by a client that found *)
(* the table full.                                                         *)
EntriesAreOwn ==
  /\ \A u \in Users : th[u] \notin {"none", "gone"} /\ index[u] # 0 =>
       clients[index[u]] = u /\ net[u] # "hup"
  /\ srv = "undefined" => \E u \in Users : th[u] = "gone" /\ index[u] = 0

(* A command that its user waits on is somewhere: on its way, with the     *)
(* thread that is to answer it, or answered; whatever the other users do.  *)
(* (The dot after a message may be hidden in a line or never be sent.)     *)
NoCommandForgotten ==
  \A u \in Users : cl[u] = "await" /\ asked[u] # Dot /\ Reachable(u) =>
    \/ up[u] # <<>> /\ Last(up[u]) = asked[u] /\ th[u] \in {"none", "command"}
    \/ th[u] = "read" /\ reader[u].req = asked[u]
    \/ down[u] # <<>>
    \/ srv = "undefined"
=============================================================================
