---------------------------- MODULE KTPTableInv ----------------------------
(***************************************************************************)
(* What the socket table, SOCK_INFO and the processes that meet there know *)
(* of one another while sockets are opened one at a time over collected    *)
(* rows: the invariant that the promises of k_socket and k_bind rest on.   *)
(***************************************************************************)
EXTENDS KTPTable

(* In k_socket, with a row that is not entered yet.                        *)
Before == {"ask", "answer", "read", "giveback", "enter"}

(* A request that main has not answered, and one that it has.              *)
Asked == sem2 = 0 /\ ((sem1 = 1 /\ mainPc = "wait") \/ (sem1 = 0 /\ mainPc = "serve"))
Told  == sem2 = 1 /\ sem1 = 0 /\ mainPc = "wait"
Idle  == sem2 = 0 /\ sem1 = 0 /\ mainPc = "wait"

NewSocket(f) == f \in fds /\ port[f] = NoPort /\ \A i \in Rows : sock[i] # f
SocketAnswer == si.port = NoPort /\ (si.sock = -1 \/ NewSocket(si.sock))

BindRequest(p) == si = [sock |-> sock[row[p]], port |-> p]
BindAnswer(p) == /\ si.port = p
                 /\ si.sock = -1 \/ (si.sock = sock[row[p]] /\ port[si.sock] = p)

(* One process at a time is in k_socket or k_bind, SOCK_INFO holds its     *)
(* request or its answer, and nothing when nobody asks.                    *)
MeetingPart ==
  /\ \A p, q \in Procs : pc[p] \in Opening /\ pc[q] \in Opening => p = q
  /\ \/ Idle
     \/ \E p \in Procs : pc[p] \in {"answer", "bindanswer"}
  /\ \/ si = ResetSI
     \/ \E p \in Procs : pc[p] \in {"answer", "read", "post", "bindanswer", "bindread"}
  /\ \A p \in Procs :
       /\ pc[p] = "answer" => (Asked /\ si = ResetSI) \/ (Told /\ SocketAnswer)
       /\ pc[p] = "read" => SocketAnswer
       /\ pc[p] = "enter" => NewSocket(udp[p])
       /\ pc[p] = "post" => BindRequest(p)
       /\ pc[p] = "bindanswer" => (Asked /\ BindRequest(p)) \/ (Told /\ BindAnswer(p))
       /\ pc[p] = "bindread" => BindAnswer(p)

(* A row belongs to the process it names, or to the one that is opening    *)
(* it; its socket is open and in no other row; and it is only free again   *)
(* when its process has closed it or is dead.                              *)
RowsPart ==
  /\ \A p \in Procs :
       /\ pc[p] \in Before => avail[row[p]] = 0 /\ pid[row[p]] = NoProc
       /\ pc[p] \in Owning => avail[row[p]] = 0 /\ pid[row[p]] = p
       /\ pc[p] \in {"ready", "inside"} => port[sock[row[p]]] = p
  /\ \A i \in Rows :
       /\ sock[i] = 0 <=> pid[i] = NoProc
       /\ sock[i] # 0 => sock[i] \in fds
       /\ pid[i] # NoProc => pc[pid[i]] \in {"closed", "dead"} \/
                               (pc[pid[i]] \in Owning /\ row[pid[i]] = i /\ avail[i] = 0)
  /\ \A i, k \in Rows : sock[i] = sock[k] /\ sock[i] # 0 => i = k
  /\ gcPc = "closed" => avail[gcRow] = 1 /\ sock[gcRow] # 0

(* With users that open their sockets one after the other, over rows that  *)
(* are collected: the table, SOCK_INFO, main, Garbage_Collector and the    *)
(* users agree on who has which row and which socket.                      *)
TableAgrees == Serial /\ Settled => MeetingPart /\ RowsPart
=============================================================================
