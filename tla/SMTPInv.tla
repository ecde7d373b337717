------------------------------ MODULE SMTPInv ------------------------------
(***************************************************************************)
(* What a client program, its connection and its thread know of one        *)
(* another, and what clients[] says of the threads; and what there is of   *)
(* each message from the user's keyboard to the mailbox file, and from     *)
(* there to the buffers and answers of those who read it.                  *)
(***************************************************************************)
EXTENDS SMTP

(* Lines of a message: at most the last is the dot.                        *)
OnlyText(lines) == \A i \in 1 .. Len(lines) : lines[i].cmd \in {"text", "dot"}

(* A command is alone on its way; after a message was begun nothing but    *)
(* its lines are.                                                          *)
StreamPart(u) ==
  /\ Len(up[u]) <= 1 \/ OnlyText(up[u])
  /\ th[u] = "data" \/ u \in astray => OnlyText(up[u])
  /\ th[u] = "store" /\ u \notin astray => up[u] = <<>>
  /\ \A i \in 1 .. Len(up[u]) : up[u][i].cmd = "dot" => i = Len(up[u]) /\ cl[u] # "typing"

(* The connection, seen from both ends.                                    *)
ConnectionPart(u) ==
  /\ cl[u] = "out" => th[u] = "none" /\ up[u] = <<>> /\ down[u] = <<>>
  /\ net[u] = "none" => cl[u] = "out"
  /\ net[u] = "hup" => th[u] = "gone"
  /\ net[u] \in {"fin", "rst"} => cl[u] = "closed"
  /\ cl[u] = "closed" => net[u] \in {"fin", "rst", "hup"} /\ down[u] = <<>>
  /\ cl[u] # "await" => asked[u] = Quiet
  /\ th[u] = "read" => reader[u].req.cmd \in {"list", "get"}

Unread(u) == th[u] \in {"none", "command"} \/ net[u] = "hup"

(* Where the thread is when it has answered.                               *)
After(req) == IF req.cmd = "data" THEN {"data"}
              ELSE IF req.cmd = "quit" THEN {"closing", "gone"} ELSE {"command"}

(* What its user waits on is on its way, lost, with the thread, or         *)
(* answered.                                                               *)
Awaited(u) ==
  \/ down[u] = <<>> /\ up[u] = <<asked[u]>> /\ asked[u] \in Commands /\ Unread(u)
  \/ down[u] = <<>> /\ up[u] = <<>> /\ ~ Reachable(u)
  \/ /\ down[u] = <<>> /\ up[u] = <<>> /\ asked[u] \in Commands
     /\ th[u] = "read" /\ reader[u].req = asked[u]
  \/ down[u] = <<>> /\ asked[u] = Dot /\ th[u] \in {"data", "store"}
  \/ /\ Len(down[u]) = 1 /\ down[u][1].to = asked[u] /\ up[u] = <<>>
     /\ th[u] \in After(asked[u])

(* Client and thread are in step: whose turn it is.                        *)
TurnPart(u) ==
  /\ cl[u] = "prompt" => down[u] = <<>> /\ up[u] = <<>> /\ Unread(u)
  /\ cl[u] = "typing" => down[u] = <<>> /\ th[u] = "data"
  /\ cl[u] = "await" => Awaited(u)
  /\ cl[u] = "leaving" => down[u] = <<>> /\ th[u] \in {"closing", "gone"}

(* They are not, after DATA was refused or a message ended too early: the  *)
(* thread takes what comes for commands that it does not know; nor when a  *)
(* part of an answer was left.                                             *)
AstrayPart(u) ==
  /\ cl[u] \in {"typing", "await", "prompt", "closed"}
  /\ th[u] = "command" \/ (th[u] = "store" /\ u \in cut)
       \/ (cl[u] = "closed" /\ th[u] \in {"closing", "gone"})
  /\ cl[u] = "await" => asked[u] # Quiet
  /\ asked[u] \in {Quiet, Dot} \/ (asked[u].cmd = "data" /\ down[u] # <<>> /\ up[u] = <<>>)

Session(u) == /\ StreamPart(u) /\ ConnectionPart(u)
              /\ IF u \in astray THEN AstrayPart(u) ELSE TurnPart(u)

(* clients[] and the indexes the threads keep name each other.             *)
TablePart ==
  /\ \A i \in Slots : clients[i] # None =>
       th[clients[i]] # "none" /\ index[clients[i]] = i
  /\ \A u \in Users : th[u] = "none" => index[u] = 0
  /\ \A u \in Users : th[u] \notin {"none", "gone"} /\ index[u] # 0 => clients[index[u]] = u

InStep == TablePart /\ \A u \in Users : Session(u)

(* A thread that expects a message has somebody to store it for; one whose *)
(* message ended too early has lost step.                                  *)
WriterPart == /\ \A u \in Users : th[u] \in {"data", "store"} => recipient[u] # None
              /\ cut \subseteq astray

(* Memory is spoilt only by a thread that had found the table full.        *)
SpoiltPart == srv = "undefined" => \E u \in Users : th[u] = "gone" /\ index[u] = 0

(* Each client, its connection and its thread agree on what is to be sent  *)
(* next and by whom, whatever the other clients do; and clients[] is a     *)
(* list of the threads that found an entry.                                *)
SessionsAgree == InStep /\ WriterPart /\ SpoiltPart

-----------------------------------------------------------------------------
(* From a message as it is typed to the parts of a file, and from there to *)
(* the buffers and the answers.                                            *)
Typed(u) == Last(composed[u])
Lines(reqs) == [i \in 1 .. Len(reqs) |-> reqs[i].n]
Asks(u) == th[u] \in {"none", "command", "read"} /\ up[u] # <<>> /\ Head(up[u]).cmd = "data"

(* The message that a user typed last has no mail yet.                     *)
Unstored(u) == \/ Asks(u) \/ th[u] = "data"
               \/ u \in astray \ cut /\ cl[u] \in {"typing", "await"}
               \/ th[u] = "store" /\ ~ Begun(u)

(* What store_email is to write of a mail, and has not.                    *)
Rest(u, mail) == \E j \in 1 .. Len(mail) : pending[u] = SubSeq(mail, j, Len(mail))

(* What a user has typed is with his thread or on its way to it; what the  *)
(* thread has made of it is to be written.                                 *)
MessagePart(u) ==
  /\ th[u] # "data" => message[u] = <<>>
  /\ th[u] # "store" => pending[u] = <<>>
  /\ Asks(u) \/ th[u] \in {"data", "store"} =>
       composed[u] # <<>> /\ Typed(u).box = recipient[u]
  /\ Asks(u) => Typed(u).text = <<>>
  /\ th[u] = "data" /\ srv = "up" =>
       /\ message[u] \o Lines(up[u]) \in Arrivals(Typed(u).text)
       /\ cl[u] = "typing" \/ asked[u].cmd = "data" => message[u] \o Lines(up[u]) = Typed(u).text
  /\ th[u] = "store" =>
       \E text \in Arrivals(Typed(u).text) :
         /\ Rest(u, Mail(u, Len(composed[u]), text))
         /\ net[u] = "open" => text = Typed(u).text

(* Each mail in a file is of a message of its user, and of one only.       *)
StampPart ==
  /\ \A b \in Boxes : \A i \in Mails(b) :
       LET start == mailbox[b][i] IN
       /\ start.n \in 1 .. Len(composed[start.from])
       /\ Unstored(start.from) => start.n # Len(composed[start.from])
  /\ \A b, c \in Boxes : \A i \in Mails(b), j \in Mails(c) :
       mailbox[b][i] = mailbox[c][j] => b = c /\ i = j

(* The mail at i is being written, and what is left is the rest of it.     *)
Unfinished(b, i, u, mail) ==
  /\ th[u] = "store" /\ Begun(u) /\ recipient[u] = b
  /\ mailbox[b][i] = Part("start", u, Len(composed[u]))
  /\ pending[u] = SubSeq(mail, Len(mailbox[b]) - i + 2, Len(mail))

(* A mail in a file that is not torn is whole, or the one that is being    *)
(* written.                                                                *)
ContentPart ==
  \A b \in Boxes \ torn : \A i \in Mails(b) :
    LET start == mailbox[b][i]
        m     == composed[start.from][start.n]
    IN  /\ m.box = b
        /\ \E text \in Arrivals(m.text) :
             LET mail == Mail(start.from, start.n, text) IN
             /\ Holds(mailbox[b], i, mail)
             /\ \/ i + Len(mail) - 1 <= Len(mailbox[b])
                \/ Unfinished(b, i, start.from, mail)

(* The mail that is being written is in its file.                          *)
BegunPart(u) ==
  th[u] = "store" /\ Begun(u) /\ recipient[u] \notin torn =>
    \E i \in Mails(recipient[u]), text \in Arrivals(Typed(u).text) :
      LET mail == Mail(u, Len(composed[u]), text) IN
      /\ Holds(mailbox[recipient[u]], i, mail)
      /\ Unfinished(recipient[u], i, u, mail)
      /\ net[u] = "open" => text = Typed(u).text

(* A mail that is said to be stored is in its file.                        *)
SaidPart(u) ==
  \A r \in Range(down[u]) : r.kind = "stored" =>
    /\ r.to = Dot /\ u \notin astray \ cut /\ composed[u] # <<>>
    /\ recipient[u] \notin torn =>
         \E i \in Mails(recipient[u]) : HoldsAll(mailbox[recipient[u]], i, LastMail(u))

(* What a reader has found of the part of the file that it has read.       *)
Listed(r, file, list) ==
  /\ Len(list) = r.id
  /\ \A k \in 1 .. Len(list) : \E i \in Starts(file, r.pos) :
       k = Cardinality(Starts(file, i)) /\ list[k] = Part("start", file[i].from, k)
Found(r, file, parts) ==
  \E i \in Starts(file, r.pos) :
    /\ r.req.n = Cardinality(Starts(file, i)) /\ parts = SubSeq(file, i, r.pos)
    /\ r.req.box \notin torn => \A j \in i + 1 .. r.pos : file[j].kind = "text"

ReaderPart(u) ==
  /\ th[u] # "read" => reader[u] = Idle
  /\ th[u] = "read" =>
       LET r == reader[u]
           file == mailbox[r.req.box]
       IN  /\ r.req \in Commands /\ r.req.cmd \in {"list", "get"}
           /\ r.pos <= Len(file) /\ r.opened <= Len(file)
           /\ r.id = Cardinality(Starts(file, r.pos))
           /\ r.req.cmd = "list" =>
                ~ r.inside /\ (~ mixed => Listed(r, file, buffer["list"]))
           /\ r.req.cmd = "get" /\ ~ r.inside =>
                r.id < r.req.n /\ (~ mixed => buffer["get"] = <<>>)
           /\ r.req.cmd = "get" /\ r.inside => (~ mixed => Found(r, file, buffer["get"]))

MixedPart ==
  ~ mixed => \A u, v \in Users : u # v /\ th[u] = "read" /\ th[v] = "read" =>
               reader[u].req.cmd # reader[v].req.cmd

(* An answer is true of the file, and remains so when the file grows.      *)
IsTrue(r) ==
  LET file == mailbox[r.to.box] IN
  /\ r.to.cmd \in {"list", "get"} => r.opened <= Len(file)
  /\ ~ mixed /\ r.kind = "ok" /\ r.to.cmd = "list" => TrueList(r, file)
  /\ ~ mixed /\ r.kind = "ok" /\ r.to.cmd = "get" /\ r.to.box \notin torn =>
       TrueMail(r, file)
  /\ r.kind = "notfound" /\ r.to.cmd = "get" =>
       Cardinality(Starts(file, r.opened)) < r.to.n
AnswerPart(u) == \A r \in Range(down[u]) : IsTrue(r)

WritersAgree == /\ StampPart /\ ContentPart
                /\ \A u \in Users : MessagePart(u) /\ BegunPart(u) /\ SaidPart(u)
ReadersAgree == MixedPart /\ \A u \in Users : ReaderPart(u) /\ AnswerPart(u)

(* Sessions, files, buffers and answers agree.                             *)
MailAgrees == SessionsAgree /\ WritersAgree /\ ReadersAgree
=============================================================================
