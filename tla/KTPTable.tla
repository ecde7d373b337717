------------------------------ MODULE KTPTable ------------------------------
(***************************************************************************)
(* The socket table of KTP: how user processes get and give back a row     *)
(* (k_socket, k_bind, k_close, exit), the main thread of initksocket that  *)
(* makes and binds the UDP sockets for them, and Garbage_Collector.        *)
(*                                                                         *)
(* The processes meet main in the one SOCK_INFO record: sem_1 announces a  *)
(* request and sem_2 its answer, and sock_info_lock is free in between.  A *)
(* critical section of table_lock or sock_info_lock is one action, since   *)
(* it waits for nothing inside; row locks are also held across actions.    *)
(***************************************************************************)
EXTENDS Integers, FiniteSets

CONSTANTS
  Procs,         \* user processes; each is also the port it binds to
  Rows,          \* rows of the shared table, 0 .. N-1
  MaxFd,         \* bound: UDP sockets the daemon may have open
  Serial,        \* users open their sockets one after the other
  Settled,       \* ... and not while a closed row is still to be collected
  Closing,       \* users call k_close before they exit
  DieInside,     \* a user may be stopped inside k_sendto or k_recvfrom
  NoProc         \* pid 0

ASSUME TableAssumption ==
  /\ Rows \subseteq Nat /\ IsFiniteSet(Rows) /\ Rows # {}
  /\ MaxFd \in Nat \ {0}
  /\ {Serial, Settled, Closing, DieInside} \subseteq BOOLEAN
  /\ NoProc \notin Procs

VARIABLES
  avail, pid, sock,    \* is_available, pid and src_sock of each row
  rowHeld,             \* who holds sem_row: a process, or NoProc
  fds, port,           \* the daemon's open UDP sockets, and what each is bound to
  si,                  \* SOCK_INFO: sock_id and port
  sem1, sem2,          \* sem_1 and sem_2
  mainPc,              \* main: "wait" for sem_1, or "serve" a request
  gcPc, gcRow,         \* Garbage_Collector: "look" at a row, or what it saw there
  pc, row, udp         \* each user: where it is, its row, and the fd it read

tableVars == <<avail, pid, sock, rowHeld>>
daemonVars == <<fds, port, mainPc>>
siVars == <<si, sem1, sem2>>
gcVars == <<gcPc, gcRow>>
userVars == <<pc, row, udp>>
vars == <<tableVars, daemonVars, siVars, gcVars, userVars>>

Fds == 1 .. MaxFd
NoRow == -1
NoPort == NoProc
Ephemeral == "ephemeral"
Ports == Procs \cup {NoPort, Ephemeral}
Least(S) == CHOOSE x \in S : \A y \in S : x <= y

(* Where a process is between its calls into the library.                  *)
Opening == {"ask", "answer", "read", "giveback", "enter", "bound?", "post",
            "bindanswer", "bindread"}
Holding == Opening \cup {"ready", "inside"}
Gone    == {"dead"}
States  == {"start", "closed"} \cup Holding \cup Gone

At(p, here) == pc[p] = here
Goto(p, next) == pc' = [pc EXCEPT ![p] = next]
RowFree(i) == rowHeld[i] = NoProc

ResetSI == [sock |-> 0, port |-> NoPort]

Init ==
  /\ avail = [i \in Rows |-> 1]
  /\ pid = [i \in Rows |-> NoProc]
  /\ sock = [i \in Rows |-> 0]
  /\ rowHeld = [i \in Rows |-> NoProc]
  /\ fds = {} /\ port = [f \in Fds |-> NoPort]
  /\ si = ResetSI /\ sem1 = 0 /\ sem2 = 0
  /\ mainPc = "wait" /\ gcPc = "look" /\ gcRow = Least(Rows)
  /\ pc = [p \in Procs |-> "start"]
  /\ row = [p \in Procs |-> NoRow]
  /\ udp = [p \in Procs |-> 0]

-----------------------------------------------------------------------------
(* k_socket.                                                               *)

(* Mutant: the scan leaves is_available as it is.                          *)
TakeRowUnmarked(p) ==
  /\ At(p, "start")
  /\ \E i \in Rows : avail[i] = 1 /\ row' = [row EXCEPT ![p] = i]
  /\ Goto(p, "ask")
  /\ UNCHANGED <<tableVars, daemonVars, siVars, gcVars, udp>>

(* The scan for a free row, under table_lock.                              *)
TakeRow(p) ==
  LET free == {i \in Rows : avail[i] = 1} IN
  /\ At(p, "start")
  /\ Serial => \A q \in Procs : pc[q] \notin Opening
  /\ Settled => \A i \in Rows : avail[i] = 1 => sock[i] = 0
  /\ IF free = {} THEN Goto(p, "dead") /\ UNCHANGED <<avail, row>>
     ELSE /\ row' = [row EXCEPT ![p] = Least(free)]
          /\ avail' = [avail EXCEPT ![Least(free)] = 0]
          /\ Goto(p, "ask")
  /\ UNCHANGED <<pid, sock, rowHeld, daemonVars, siVars, gcVars, udp>>

(* Ask main for a socket, under sock_info_lock; sem_1 is signalled inside. *)
AskSocket(p) ==
  /\ At(p, "ask")
  /\ si' = ResetSI
  /\ sem1' = sem1 + 1
  /\ Goto(p, "answer")
  /\ UNCHANGED <<sem2, tableVars, daemonVars, gcVars, row, udp>>

AwaitAnswer(p, here, next) ==
  /\ At(p, here)
  /\ sem2 > 0
  /\ sem2' = sem2 - 1
  /\ Goto(p, next)
  /\ UNCHANGED <<si, sem1, tableVars, daemonVars, gcVars, row, udp>>

AwaitSocket(p) == AwaitAnswer(p, "answer", "read")

(* Take the descriptor out of SOCK_INFO; -1 is the only failure.           *)
ReadSocket(p) ==
  /\ At(p, "read")
  /\ udp' = [udp EXCEPT ![p] = si.sock]
  /\ si' = ResetSI
  /\ Goto(p, IF si.sock < 0 THEN "giveback" ELSE "enter")
  /\ UNCHANGED <<sem1, sem2, tableVars, daemonVars, gcVars, row>>

(* No socket: the row is returned under table_lock and the user exits.     *)
GiveBack(p) ==
  /\ At(p, "giveback")
  /\ avail' = [avail EXCEPT ![row[p]] = 1]
  /\ Goto(p, "dead")
  /\ UNCHANGED <<pid, sock, rowHeld, daemonVars, siVars, gcVars, row, udp>>

(* Mutant: the caller's pid is not entered.                                *)
EnterRowNoPid(p) ==
  /\ At(p, "enter") /\ RowFree(row[p])
  /\ sock' = [sock EXCEPT ![row[p]] = udp[p]]
  /\ Goto(p, "bound?")
  /\ UNCHANGED <<avail, pid, rowHeld, daemonVars, siVars, gcVars, row, udp>>

(* Fill in the row and return its index to the user.                       *)
EnterRow(p) ==
  /\ At(p, "enter") /\ RowFree(row[p])
  /\ sock' = [sock EXCEPT ![row[p]] = udp[p]]
  /\ pid' = [pid EXCEPT ![row[p]] = p]
  /\ Goto(p, "bound?")
  /\ UNCHANGED <<avail, rowHeld, daemonVars, siVars, gcVars, row, udp>>

-----------------------------------------------------------------------------
(* k_bind: sem_1 is signalled after sock_info_lock is released.            *)

(* Mutant: the port is not copied into SOCK_INFO.                          *)
AskBindNoPort(p) ==
  /\ At(p, "bound?")
  /\ si' = [si EXCEPT !.sock = sock[row[p]]]
  /\ Goto(p, "post")
  /\ UNCHANGED <<sem1, sem2, tableVars, daemonVars, gcVars, row, udp>>

AskBind(p) ==
  /\ At(p, "bound?")
  /\ si' = [sock |-> sock[row[p]], port |-> p]
  /\ Goto(p, "post")
  /\ UNCHANGED <<sem1, sem2, tableVars, daemonVars, gcVars, row, udp>>

PostBind(p) ==
  /\ At(p, "post")
  /\ sem1' = sem1 + 1
  /\ Goto(p, "bindanswer")
  /\ UNCHANGED <<si, sem2, tableVars, daemonVars, gcVars, row, udp>>

AwaitBind(p) == AwaitAnswer(p, "bindanswer", "bindread")

(* On success the row's destination is filled in; on failure the user      *)
(* exits and leaves the row to Garbage_Collector.                          *)
ReadBind(p) ==
  /\ At(p, "bindread")
  /\ si.sock >= 0 => RowFree(row[p])
  /\ si' = ResetSI
  /\ Goto(p, IF si.sock < 0 THEN "dead" ELSE "ready")
  /\ UNCHANGED <<sem1, sem2, tableVars, daemonVars, gcVars, row, udp>>

-----------------------------------------------------------------------------
(* k_sendto and k_recvfrom work on the row with sem_row held; the window   *)
(* itself is in KTPWindow.                                                 *)

EnterCall(p) ==
  /\ At(p, "ready") /\ RowFree(row[p])
  /\ rowHeld' = [rowHeld EXCEPT ![row[p]] = p]
  /\ Goto(p, "inside")
  /\ UNCHANGED <<avail, pid, sock, daemonVars, siVars, gcVars, row, udp>>

LeaveCall(p) ==
  /\ At(p, "inside")
  /\ rowHeld' = [rowHeld EXCEPT ![row[p]] = NoProc]
  /\ Goto(p, "ready")
  /\ UNCHANGED <<avail, pid, sock, daemonVars, siVars, gcVars, row, udp>>

KClose(p) ==
  /\ Closing
  /\ At(p, "ready") /\ RowFree(row[p])
  /\ avail' = [avail EXCEPT ![row[p]] = 1]
  /\ Goto(p, "closed")
  /\ UNCHANGED <<pid, sock, rowHeld, daemonVars, siVars, gcVars, row, udp>>

(* exit, from the program's end or its signal handler.  The semaphores are *)
(* taken without SEM_UNDO, so what was held stays held.                    *)
Die(p) ==
  /\ pc[p] \in {"closed", "ready"} \/ (DieInside /\ At(p, "inside"))
  /\ Goto(p, "dead")
  /\ UNCHANGED <<tableVars, daemonVars, siVars, gcVars, row, udp>>

-----------------------------------------------------------------------------
(* main.                                                                   *)

MainWait ==
  /\ mainPc = "wait"
  /\ sem1 > 0
  /\ sem1' = sem1 - 1
  /\ mainPc' = "serve"
  /\ UNCHANGED <<si, sem2, tableVars, fds, port, gcVars, userVars>>

(* Mutant: a failure goes on to the next request before sem_2 is signalled. *)
AnsweredUnlessFailed(s) ==
  /\ si' = [si EXCEPT !.sock = s]
  /\ sem2' = IF s < 0 THEN sem2 ELSE sem2 + 1
  /\ mainPc' = "wait"
  /\ UNCHANGED <<sem1, tableVars, gcVars, userVars>>

Answered(s) == /\ si' = [si EXCEPT !.sock = s]
               /\ sem2' = sem2 + 1
               /\ mainPc' = "wait"
               /\ UNCHANGED <<sem1, tableVars, gcVars, userVars>>

IsSocketRequest == si.port = NoPort /\ si.sock = 0

(* socket() returns the lowest descriptor that is free, or fails.          *)
MakeSocket ==
  /\ mainPc = "serve" /\ IsSocketRequest
  /\ \/ Answered(-1) /\ UNCHANGED <<fds, port>>
     \/ LET f == Least(Fds \ fds) IN
        /\ ~ Fds \subseteq fds
        /\ fds' = fds \cup {f}
        /\ port' = [port EXCEPT ![f] = NoPort]
        /\ Answered(f)

(* bind() fails on a closed or a bound socket and on a port in use, here   *)
(* or by another program.                                                  *)
CanBind(f, p) == /\ f \in fds /\ port[f] = NoPort
                 /\ p # NoPort => \A g \in fds : port[g] # p

BindSocket ==
  /\ mainPc = "serve" /\ ~ IsSocketRequest
  /\ \/ Answered(-1) /\ UNCHANGED port
     \/ /\ CanBind(si.sock, si.port)
        /\ port' = [port EXCEPT ![si.sock] = IF si.port = NoPort
                                             THEN Ephemeral ELSE si.port]
        /\ Answered(si.sock)
  /\ UNCHANGED fds

Main == MainWait \/ MakeSocket \/ BindSocket

-----------------------------------------------------------------------------
(* Garbage_Collector: it looks at a row without a lock, and acts on what   *)
(* it saw.                                                                 *)

(* Mutant: the loop over the rows runs to N.                               *)
NextRowOverrun(i) == IF i \in Rows THEN i + 1 ELSE Least(Rows)

NextRow(i) == IF \E k \in Rows : k > i THEN Least({k \in Rows : k > i})
              ELSE Least(Rows)

Look ==
  /\ gcPc = "look"
  /\ IF sock[gcRow] # 0 /\ avail[gcRow] = 1 THEN gcPc' = "closed"
     ELSE IF avail[gcRow] = 0 THEN gcPc' = "taken"
     ELSE gcPc' = "look"
  /\ gcRow' = IF gcPc' = "look" THEN NextRow(gcRow) ELSE gcRow
  /\ UNCHANGED <<tableVars, daemonVars, siVars, userVars>>

(* Mutant: the socket of the row is forgotten, not closed.                 *)
CollectUnclosed == /\ fds' = fds
                   /\ sock' = [sock EXCEPT ![gcRow] = 0]
                   /\ pid' = [pid EXCEPT ![gcRow] = NoProc]

(* close() of the row's socket; 0 is the daemon's own standard input.      *)
Collect == /\ fds' = fds \ {sock[gcRow]}
           /\ sock' = [sock EXCEPT ![gcRow] = 0]
           /\ pid' = [pid EXCEPT ![gcRow] = NoProc]

Resume == gcPc' = "look" /\ gcRow' = NextRow(gcRow)

(* The row was closed by k_close: under table_lock.                        *)
CollectClosed ==
  /\ gcPc = "closed"
  /\ Collect
  /\ Resume
  /\ UNCHANGED <<avail, rowHeld, port, mainPc, siVars, userVars>>

(* kill(pid, 0) fails for a process that is gone; pid 0 is the daemon's    *)
(* own process group.                                                      *)
OwnerDead(i) == pid[i] # NoProc /\ pc[pid[i]] \in Gone

(* Mutant: the row of a dead process is emptied but stays taken.           *)
CollectDeadKeepsRow ==
  /\ gcPc = "taken" /\ RowFree(gcRow)
  /\ IF OwnerDead(gcRow) THEN Collect ELSE UNCHANGED <<fds, sock, pid>>
  /\ Resume
  /\ UNCHANGED <<avail, rowHeld, port, mainPc, siVars, userVars>>

(* The row was taken: under sem_row, given back if its owner is dead.      *)
CollectDead ==
  /\ gcPc = "taken" /\ RowFree(gcRow)
  /\ IF OwnerDead(gcRow)
     THEN Collect /\ avail' = [avail EXCEPT ![gcRow] = 1]
     ELSE UNCHANGED <<fds, sock, pid, avail>>
  /\ Resume
  /\ UNCHANGED <<rowHeld, port, mainPc, siVars, userVars>>

GC == Look \/ CollectClosed \/ CollectDead

-----------------------------------------------------------------------------
User(p) == \/ TakeRow(p) \/ AskSocket(p) \/ AwaitSocket(p) \/ ReadSocket(p)
           \/ GiveBack(p) \/ EnterRow(p)
           \/ AskBind(p) \/ PostBind(p) \/ AwaitBind(p) \/ ReadBind(p)
           \/ EnterCall(p) \/ LeaveCall(p) \/ KClose(p) \/ Die(p)

Next == Main \/ GC \/ \E p \in Procs : User(p)

Spec == Init /\ [][Next]_vars

(* A call on the library that was entered goes on.                         *)
InCall(p) == \/ AskSocket(p) \/ AwaitSocket(p) \/ ReadSocket(p) \/ GiveBack(p)
             \/ PostBind(p) \/ AwaitBind(p) \/ ReadBind(p) \/ LeaveCall(p)

(* The daemon's threads and the calls of the users are scheduled.  The     *)
(* semaphore of a row that others keep taking is got in the end: System V  *)
(* wakes its waiters in the order they came.                               *)
FairSpec == /\ Spec
            /\ WF_vars(Main) /\ WF_vars(Look) /\ WF_vars(CollectClosed)
            /\ SF_vars(CollectDead)
            /\ \A p \in Procs : WF_vars(InCall(p)) /\ SF_vars(EnterRow(p))

-----------------------------------------------------------------------------
TypeOK ==
  /\ avail \in [Rows -> {0, 1}]
  /\ pid \in [Rows -> Procs \cup {NoProc}]
  /\ sock \in [Rows -> Fds \cup {0}]
  /\ rowHeld \in [Rows -> Procs \cup {NoProc}]
  /\ fds \subseteq Fds /\ port \in [Fds -> Ports]
  /\ si \in [sock : Fds \cup {0, -1}, port : Procs \cup {NoPort}]
  /\ sem1 \in Nat /\ sem2 \in Nat
  /\ mainPc \in {"wait", "serve"}
  /\ gcPc \in {"look", "closed", "taken"} /\ gcRow \in Rows
  /\ pc \in [Procs -> States]
  /\ row \in [Procs -> Rows \cup {NoRow}]
  /\ udp \in [Procs -> Fds \cup {0, -1}]

(* What k_socket returned is the caller's: its row is taken, carries its   *)
(* pid and an open UDP socket, and no other process has the row or the     *)
(* socket.                                                                 *)
Owning == {"bound?", "post", "bindanswer", "bindread", "ready", "inside"}
ReturnedSocketIsOpen ==
  \A p \in Procs : pc[p] \in Owning =>
    /\ avail[row[p]] = 0 /\ pid[row[p]] = p
    /\ sock[row[p]] \in fds
    /\ \A i \in Rows \ {row[p]} : sock[i] # sock[row[p]]
    /\ \A q \in Procs \ {p} : pc[q] \in Owning => row[q] # row[p]

(* Once k_bind has returned 0 the caller's messages leave from, and arrive *)
(* at, the port it asked for.                                              *)
BoundToOwnPort ==
  \A p \in Procs : pc[p] \in {"ready", "inside"} => port[sock[row[p]]] = p

(* The daemon loses no descriptor: every UDP socket it has open is in a    *)
(* row, or on its way to one through SOCK_INFO.                            *)
NoSocketLeaks ==
  fds \subseteq {sock[i] : i \in Rows} \cup {si.sock}
                \cup {udp[p] : p \in {q \in Procs : At(q, "enter")}}

(* documentation.txt: the row of a process that is gone is made available. *)
(* Nothing that happened in the table keeps Garbage_Collector from it but  *)
(* a process that was stopped inside k_sendto or k_recvfrom: its sem_row   *)
(* is taken before the process is looked at, and waited for for ever.      *)
StoppedHolding == \E i \in Rows : rowHeld[i] # NoProc /\ pc[rowHeld[i]] \in Gone
DeadRowsComeBack ==
  \A i \in Rows : OwnerDead(i) ~> avail[i] = 1 \/ StoppedHolding

(* k_socket and k_bind return: the daemon answers each request once, and   *)
(* the caller gets its answer.                                             *)
CallsReturn ==
  \A p \in Procs : pc[p] \in {"ask", "post"} ~> pc[p] \in {"bound?", "ready", "dead"}
=============================================================================
