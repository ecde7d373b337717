-------------------------------- MODULE CLDP --------------------------------
(***************************************************************************)
(* The lightweight discovery protocol over raw IP: servers that announce   *)
(* themselves and answer queries, and clients whose one thread shows a     *)
(* menu, sends a query and waits for its answer.                           *)
(*                                                                         *)
(* A raw socket gets a copy of every packet of the protocol that arrives   *)
(* at its host, whomever it is for; what a client knows of its query is    *)
(* query_active and current_transaction_id.  The numbers come from rand,   *)
(* which no program seeds: every process draws the same sequence.          *)
(***************************************************************************)
EXTENDS Integers, FiniteSets, Sequences

CONSTANTS
  Clients, Servers,    \* the processes
  Hosts, HostOf,       \* the hosts, and where each process runs
  Broadcast,           \* 255.255.255.255
  Targets,             \* what a client may be given as argv[1]
  Queries,             \* kinds of metadata: HOSTNAME_QUERY, ...
  Rand,                \* the sequence that rand gives, from 0 on
  MaxLives,            \* bound: times each program is started
  MaxSends,            \* bound: messages the programs set out to send, but for answers
  RcvBuf,              \* packets the receive queue of a socket holds
  None

ASSUME CLDPAssumption ==
  /\ IsFiniteSet(Clients) /\ IsFiniteSet(Servers) /\ Clients \cap Servers = {}
  /\ HostOf \in [Clients \cup Servers -> Hosts]
  /\ Broadcast \notin Hosts /\ Targets \subseteq Hosts \cup {Broadcast}
  /\ MaxSends \in Nat /\ Rand \in [0 .. 2 * MaxSends -> Nat]
  /\ MaxLives \in [Clients \cup Servers -> Nat \ {0}] /\ RcvBuf \in Nat \ {0}
  /\ None \notin Clients \cup Servers \cup Hosts \cup Queries

VARIABLES
  net,                 \* packets on their way, one copy for each host they go to
  queue,               \* the receive queue of each process's socket
  at,                  \* where each process is in its loop, or "gone"
  life,                \* how often each program has been started
  drawn,               \* numbers each client has drawn from rand
  target, stop,        \* a client's argv[1]; ~running
  choice, stuck,       \* its menu: choice, and a word that scanf leaves unread
  active, tid,         \* query_active and current_transaction_id
  lost,                \* history: a packet of its last exchange was lost
  sends                \* history: attempts to send, up to MaxSends

procVars == <<queue, at, life, drawn>>
menuVars == <<target, stop, choice, stuck>>
queryVars == <<active, tid>>
vars == <<net, procVars, menuVars, queryVars, lost, sends>>

Procs == Clients \cup Servers
Exit == "exit"
Other == "other"
Choices == Queries \cup {Exit, Other}

(* A run of a program.                                                     *)
Runs == Procs \X Nat
Me(p) == <<p, life[p]>>

(* struct cldp_header with the addresses of the IP header.  data is the    *)
(* payload, for which the server stands that made it; by names the run     *)
(* whose exchange the packet belongs to, and no program reads it.  Nobody  *)
(* reads the transaction id of a HELLO either, and it is left out.         *)
Packet ==
  [type : {"hello"}, query : {None}, tid : {None}, src : Hosts, to : Hosts, data : {None}, by : Runs]
  \cup [type : {"query"}, query : Queries, tid : Nat, src : Hosts, to : Hosts, data : {None}, by : Runs]
  \cup [type : {"response"}, query : Queries, tid : Nat, src : Hosts, to : Hosts, data : Servers, by : Runs]

Hello(p, to) == [type |-> "hello", query |-> None, tid |-> None,
                 src |-> HostOf[p], to |-> to, data |-> None, by |-> Me(p)]
Query(c, q) == [type |-> "query", query |-> q, tid |-> tid'[c], src |-> HostOf[c],
                to |-> target[c], data |-> None, by |-> Me(c)]
(* The source of a response is the address the query was sent to.          *)
Response(s, m) == [type |-> "response", query |-> m.query, tid |-> m.tid,
                   src |-> m.to, to |-> m.src, data |-> s, by |-> m.by]

Of(m, c) == m.by = Me(c) /\ m.tid = tid[c]

Init ==
  /\ net = {} /\ sends = 0 /\ lost = [c \in Clients |-> FALSE]
  /\ queue = [p \in Procs |-> <<>>]
  /\ at = [p \in Procs |-> IF p \in Clients THEN "menu" ELSE "select"]
  /\ life = [p \in Procs |-> 1]
  /\ drawn = [c \in Clients |-> 0]
  /\ target \in [Clients -> Targets]
  /\ stop = [c \in Clients |-> FALSE]
  /\ choice = [c \in Clients |-> Other] /\ stuck = [c \in Clients |-> FALSE]
  /\ active = [c \in Clients |-> FALSE] /\ tid = [c \in Clients |-> 0]

Goto(p, next) == at' = [at EXCEPT ![p] = next]

-----------------------------------------------------------------------------
(* The hosts and the network between them.                                 *)

(* A host gives every socket of the protocol a copy, if its queue has room. *)
Listeners(h) == {p \in Procs : at[p] # "gone" /\ HostOf[p] = h}
Takers(m) == {p \in Listeners(m.to) : Len(queue[p]) < RcvBuf}

(* Nobody who could carry the exchange on has got the packet.              *)
Missed(m, takers) == \/ m.type = "query" /\ takers \cap Servers = {}
                     \/ m.type = "response" /\ m.by[1] \notin takers

Attempt == sends < MaxSends /\ sends' = sends + 1

Losing(S) == lost' = [c \in Clients |-> lost[c] \/ \E m \in S : Of(m, c)]

Deliver(m) ==
  /\ net' = net \ {m}
  /\ queue' = [p \in Procs |-> IF p \in Takers(m) THEN Append(queue[p], m) ELSE queue[p]]
  /\ Losing(IF Missed(m, Takers(m)) THEN {m} ELSE {})
  /\ UNCHANGED <<at, life, drawn, menuVars, queryVars, sends>>

Lose(m) ==
  /\ net' = net \ {m}
  /\ Losing({m})
  /\ UNCHANGED <<procVars, menuVars, queryVars, sends>>

Arrives(type) == \E m \in net : m.type = type /\ (Deliver(m) \/ Lose(m))
Network == \E type \in {"hello", "query", "response"} : Arrives(type)

-----------------------------------------------------------------------------
(* cldp_server.                                                            *)

(* send_hello_message, to the broadcast address: it reaches every host.    *)
ServerHello(s) ==
  /\ at[s] = "select" /\ Attempt
  /\ net' = net \cup {Hello(s, h) : h \in Hosts}
  /\ UNCHANGED <<procVars, menuVars, queryVars, lost>>

(* Mutant: the header of the response is cleared and its type not set.     *)
RespondUntyped(s, m) == net' = net \cup {[Response(s, m) EXCEPT !.query = None]}

(* process_query_and_respond.                                              *)
Respond(s, m) == net' = net \cup {Response(s, m)}

(* One packet: a query is answered, anything else is only logged.          *)
ServerRecv(s) ==
  /\ at[s] = "select" /\ queue[s] # <<>>
  /\ queue' = [queue EXCEPT ![s] = Tail(@)]
  /\ IF Head(queue[s]).type = "query" THEN Respond(s, Head(queue[s])) ELSE UNCHANGED net
  /\ UNCHANGED <<at, life, drawn, menuVars, queryVars, lost, sends>>

(* SIGINT or SIGTERM: select is interrupted, the loop ends, and with the   *)
(* socket go the packets that wait in its queue.                           *)
Waiting(s) == {queue[s][i] : i \in DOMAIN queue[s]}
ServerStop(s) ==
  /\ at[s] = "select"
  /\ Goto(s, "gone")
  /\ Losing({m \in Waiting(s) : m.type = "query"})
  /\ queue' = [queue EXCEPT ![s] = <<>>]
  /\ UNCHANGED <<net, life, drawn, menuVars, queryVars, sends>>

(* A program is started again, with nothing of what it knew.               *)
ServerStart(s) ==
  /\ at[s] = "gone" /\ life[s] < MaxLives[s]
  /\ Goto(s, "select")
  /\ life' = [life EXCEPT ![s] = @ + 1]
  /\ UNCHANGED <<net, queue, drawn, menuVars, queryVars, lost, sends>>

Server(s) == ServerHello(s) \/ ServerRecv(s) \/ ServerStop(s) \/ ServerStart(s)

-----------------------------------------------------------------------------
(* cldp_client.                                                            *)

(* The identification and the transaction id of a message are drawn; when  *)
(* the host's own name cannot be looked up, only the first is.             *)
Draw(c, n) == drawn' = [drawn EXCEPT ![c] = @ + n]

(* The kernel refuses a broadcast, since the client never sets             *)
(* SO_BROADCAST; another sendto may also fail.                             *)
CanSend(c) == target[c] # Broadcast

(* send_hello_message, to the target.                                      *)
ClientHello(c) ==
  \/ Draw(c, 2) /\ CanSend(c) /\ net' = net \cup {Hello(c, target[c])}
  \/ \E n \in {1, 2} : Draw(c, n) /\ UNCHANGED net

(* Every ten seconds there is an announcement.                             *)
MayHello(c) == (Attempt /\ ClientHello(c)) \/ UNCHANGED <<net, drawn, sends>>

(* The head of the loop; the menu is shown when no query is active.  scanf *)
(* then waits, and what arrives meanwhile stays in the queue.              *)
Turn(c) == /\ ~stop[c]
           /\ Goto(c, IF active'[c] THEN "select" ELSE "menu")
           /\ MayHello(c)
           /\ UNCHANGED <<life, menuVars, tid, lost>>

(* The loop ends, and nothing is left of what the program knew.            *)
Leave(c) ==
  /\ at[c] = "select" /\ stop[c]
  /\ Goto(c, "gone")
  /\ queue' = [queue EXCEPT ![c] = <<>>] /\ drawn' = [drawn EXCEPT ![c] = 0]
  /\ stop' = [stop EXCEPT ![c] = FALSE] /\ stuck' = [stuck EXCEPT ![c] = FALSE]
  /\ choice' = [choice EXCEPT ![c] = Other]
  /\ active' = [active EXCEPT ![c] = FALSE] /\ tid' = [tid EXCEPT ![c] = 0]
  /\ lost' = [lost EXCEPT ![c] = FALSE]
  /\ UNCHANGED <<net, life, target, sends>>

(* current_transaction_id is set in any case, query_active only when the   *)
(* packet went out.                                                        *)
Sent(c, q) == /\ net' = net \cup {Query(c, q)}
              /\ active' = [active EXCEPT ![c] = TRUE]
              /\ lost' = [lost EXCEPT ![c] = FALSE]

(* Mutant: query_active is set before sendto, whatever becomes of it.      *)
NotSentButActive(c) == /\ active' = [active EXCEPT ![c] = TRUE]
                       /\ UNCHANGED <<net, lost>>

NotSent(c) == UNCHANGED <<net, active, lost>>

(* send_query.                                                             *)
SendQuery(c, q) ==
  /\ Attempt
  /\ \/ /\ Draw(c, 2)
        /\ tid' = [tid EXCEPT ![c] = Rand[drawn[c] + 1]]
        /\ (CanSend(c) /\ Sent(c, q)) \/ NotSent(c)
     \/ Draw(c, 1) /\ UNCHANGED tid /\ NotSent(c)

(* The switch over choice.                                                 *)
Obey(c, k) ==
  /\ choice' = [choice EXCEPT ![c] = k]
  /\ stop' = [stop EXCEPT ![c] = @ \/ k = Exit]
  /\ IF k \in Queries THEN SendQuery(c, k) ELSE UNCHANGED <<net, drawn, queryVars, lost, sends>>
  /\ Goto(c, "select")
  /\ UNCHANGED <<queue, life, target>>

(* A number was typed.                                                     *)
Choose(c, k) == at[c] = "menu" /\ ~stuck[c] /\ Obey(c, k) /\ UNCHANGED stuck

(* A word was typed, now or earlier: scanf leaves it unread and choice as  *)
(* it was, so the last choice is obeyed again, for ever.                   *)
ChooseAgain(c) == /\ at[c] = "menu"
                  /\ Obey(c, choice[c])
                  /\ stuck' = [stuck EXCEPT ![c] = TRUE]

(* Mutant: process_response does not compare the transaction ids.          *)
MatchesAny(c, m) == m.tid \in Nat

(* Mutant: the transaction id of the response is not converted by ntohs.   *)
MatchesUnconverted(c, m) == m.tid = tid[c] + 1

Matches(c, m) == m.tid = tid[c]

(* process_response takes the packet for the answer.                       *)
Accepts(c, m) == m.type = "response" /\ active[c] /\ Matches(c, m)

(* select and recvfrom: a response is looked at when a query is active.    *)
(* What comes in while the client has been told to stop changes nothing    *)
(* that it still uses.                                                     *)
ClientRecv(c) ==
  /\ at[c] = "select" /\ queue[c] # <<>>
  /\ queue' = [queue EXCEPT ![c] = Tail(@)]
  /\ active' = [active EXCEPT ![c] = @ /\ ~Accepts(c, Head(queue[c]))]
  /\ Turn(c)

(* select times out, or returns for what is typed ahead.                   *)
ClientIdle(c) ==
  /\ at[c] = "select" /\ queue[c] = <<>>
  /\ UNCHANGED <<queue, active>>
  /\ Turn(c)

(* SIGINT or SIGTERM: handle_signal.  scanf is resumed after it, so that   *)
(* the menu still takes one choice.                                        *)
ClientSignal(c) ==
  /\ at[c] # "gone" /\ ~stop[c]
  /\ stop' = [stop EXCEPT ![c] = TRUE]
  /\ UNCHANGED <<net, procVars, target, choice, stuck, queryVars, lost, sends>>

(* The program is started, for any target.                                 *)
ClientStart(c) ==
  /\ at[c] = "gone" /\ life[c] < MaxLives[c]
  /\ Goto(c, "menu")
  /\ life' = [life EXCEPT ![c] = @ + 1]
  /\ \E t \in Targets : target' = [target EXCEPT ![c] = t]
  /\ UNCHANGED <<net, queue, drawn, stop, choice, stuck, queryVars, lost, sends>>

Client(c) == \/ ChooseAgain(c)
             \/ \E k \in Choices : Choose(c, k)
             \/ ClientRecv(c) \/ ClientIdle(c) \/ Leave(c)
             \/ ClientSignal(c) \/ ClientStart(c)

Next == \/ Network
        \/ \E s \in Servers : Server(s)
        \/ \E c \in Clients : Client(c)

Spec == Init /\ [][Next]_vars

(* Packets arrive or are lost; the loops go on.  Nothing is promised of    *)
(* the user at the menu, of announcements, signals and starts.             *)
FairSpec == /\ Spec
            /\ WF_vars(Arrives("query")) /\ WF_vars(Arrives("response"))
            /\ \A s \in Servers : WF_vars(ServerRecv(s))
            /\ \A c \in Clients : WF_vars(ClientRecv(c) \/ ClientIdle(c) \/ Leave(c))

-----------------------------------------------------------------------------
TypeOK ==
  /\ net \subseteq Packet
  /\ queue \in [Procs -> Seq(Packet)]
  /\ \A p \in Procs : Len(queue[p]) <= RcvBuf
  /\ at \in [Procs -> {"menu", "select", "gone"}]
  /\ life \in [Procs -> Nat] /\ drawn \in [Clients -> 0 .. 2 * MaxSends]
  /\ target \in [Clients -> Targets]
  /\ stop \in [Clients -> BOOLEAN] /\ stuck \in [Clients -> BOOLEAN]
  /\ choice \in [Clients -> Choices]
  /\ active \in [Clients -> BOOLEAN] /\ tid \in [Clients -> Nat]
  /\ lost \in [Clients -> BOOLEAN] /\ sends \in 0 .. MaxSends

(* rand has given this run the number of its query more than once.         *)
Repeats(c) ==
  \E i, j \in 0 .. 2 * MaxSends :
    i < j /\ j < drawn[c] /\ Rand[i] = tid[c] /\ Rand[j] = tid[c]

(* An answer a client takes for its query is of the kind it asked for and  *)
(* from the host it asked, though a second server's answer to an earlier   *)
(* query arrives as late as it likes.  There are two ways in which another *)
(* answer is taken, and no third: it answers a query of another run, which *)
(* draws from the same sequence; or rand has given this run the number of  *)
(* its query before.                                                       *)
AnswersToOwnQueriesMatch ==
  [][\A c \in Clients : active[c] /\ ~active'[c] /\ at'[c] # "gone" =>
       LET m == Head(queue[c]) IN
       \/ m.query = choice[c] /\ m.src = target[c]
       \/ m.by # Me(c)
       \/ Repeats(c)]_vars

(* A client that waits has reason to: its query or the answer is on its    *)
(* way or in the queue of somebody who will deal with it, or the network   *)
(* or a full queue has lost one of them.  There is no other way for        *)
(* query_active to stay set.                                               *)
WaitingHasCause ==
  \A c \in Clients : active[c] /\ at[c] # "gone" =>
    \/ lost[c]
    \/ \E m \in net : m.type # "hello" /\ Of(m, c)
    \/ \E s \in Servers : \E m \in Waiting(s) : m.type = "query" /\ Of(m, c)
    \/ \E m \in Waiting(c) : m.type = "response" /\ Of(m, c)

(* Every query ends: it is answered, or the client is told to stop, or one *)
(* of the packets is lost - and then the client waits for ever.            *)
QueryEnds ==
  \A c \in Clients :
    active[c] ~> ~active[c] \/ stop[c] \/ lost[c]
=============================================================================
