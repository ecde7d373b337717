-------------------------- MODULE KTPTable_proofs --------------------------
(***************************************************************************)
(* For any number of processes, rows and descriptors: the types of the     *)
(* socket table; and, for users that open their sockets one at a time over *)
(* collected rows, that the invariant of KTPTableInv is inductive and what *)
(* k_socket and k_bind promise follows from it.                            *)
(***************************************************************************)
EXTENDS KTPTableInv, WellFoundedInduction, TLAPS

(* A set of numbers that is not empty has a least one.                     *)
LEMMA LeastExists ==
  ASSUME NEW S \in SUBSET Nat, S # {}
  PROVE  Least(S) \in S
<1> DEFINE R == {ss \in Nat \X Nat : ss[1] < ss[2]}
<1>1. IsWellFoundedOn(R, Nat)
  BY NatLessThanWellFounded DEF OpToRel
<1> HIDE DEF R
<1>2. \E x \in S : \A y \in S : ~ (<<y, x>> \in R)
  BY <1>1, WFMin
<1>3. \A x, y \in S : ~ (<<y, x>> \in R) => x <= y
  BY DEF R
<1>4. \E x \in S : \A y \in S : x <= y
  BY <1>2, <1>3
<1> QED BY <1>4 DEF Least

LEMMA NextRowIsRow ==
  ASSUME NEW i \in Rows
  PROVE  NextRow(i) \in Rows
<1>1. Rows \in SUBSET Nat /\ Rows # {}
  BY TableAssumption
<1>2. {k \in Rows : k > i} # {} => Least({k \in Rows : k > i}) \in {k \in Rows : k > i}
  BY <1>1, LeastExists
<1>3. Least(Rows) \in Rows
  BY <1>1, LeastExists
<1> QED BY <1>2, <1>3 DEF NextRow

(* socket() takes a descriptor that was not in use.                        *)
LEMMA FreshDescriptor ==
  ASSUME ~ Fds \subseteq fds
  PROVE  Least(Fds \ fds) \in Fds \ fds
<1>1. Fds \ fds \in SUBSET Nat
  BY TableAssumption DEF Fds
<1> QED BY <1>1, LeastExists

-----------------------------------------------------------------------------
(* Types.  A process that is in the library has a row.                     *)
TInv ==
  /\ TypeOK
  /\ \A p \in Procs : pc[p] \in Holding => row[p] \in Rows
  /\ \A p \in Procs : pc[p] = "enter" => udp[p] # -1

THEOREM InitTInv == Init => TInv
<1> SUFFICES ASSUME Init PROVE TInv
  OBVIOUS
<1>1. Least(Rows) \in Rows
  BY LeastExists, TableAssumption
<1>2. TypeOK
  BY <1>1 DEF Init, TypeOK, ResetSI, NoPort, Ports, States
<1> QED BY <1>2 DEF Init, TInv, Holding, Opening

LEMMA UserTInv ==
  ASSUME TInv, NEW p \in Procs, User(p)
  PROVE  TInv'
<1> USE DEF TInv
<1>0. /\ avail \in [Rows -> {0, 1}] /\ pid \in [Rows -> Procs \cup {NoProc}]
      /\ sock \in [Rows -> Fds \cup {0}]
      /\ rowHeld \in [Rows -> Procs \cup {NoProc}]
      /\ si \in [sock : Fds \cup {0, -1}, port : Procs \cup {NoPort}]
      /\ si.sock \in Fds \cup {0, -1}
      /\ sem1 \in Nat /\ sem2 \in Nat
      /\ pc \in [Procs -> States] /\ row \in [Procs -> Rows \cup {NoRow}]
      /\ udp \in [Procs -> Fds \cup {0, -1}]
      /\ Rows \in SUBSET Nat
  BY TableAssumption DEF TypeOK
<1>1. UNCHANGED <<daemonVars, gcVars>>
  BY DEF User, TakeRow, AskSocket, AwaitSocket, AwaitAnswer, ReadSocket, GiveBack,
         EnterRow, AskBind, PostBind, AwaitBind, ReadBind, EnterCall, LeaveCall, KClose, Die
<1>2. avail' \in [Rows -> {0, 1}]
  BY <1>0 DEF User, TakeRow, AskSocket, AwaitSocket, AwaitAnswer, ReadSocket, GiveBack,
         EnterRow, AskBind, PostBind, AwaitBind, ReadBind, EnterCall, LeaveCall, KClose, Die,
         tableVars
<1>3. /\ pid' \in [Rows -> Procs \cup {NoProc}] /\ rowHeld' \in [Rows -> Procs \cup {NoProc}]
  BY <1>0 DEF User, TakeRow, AskSocket, AwaitSocket, AwaitAnswer, ReadSocket, GiveBack,
         EnterRow, AskBind, PostBind, AwaitBind, ReadBind, EnterCall, LeaveCall, KClose, Die,
         tableVars
<1>4. sock' \in [Rows -> Fds \cup {0}]
  <2>1. CASE EnterRow(p)
    <3>1. udp[p] \in Fds \cup {0} /\ sock' = [sock EXCEPT ![row[p]] = udp[p]]
      BY <1>0, <2>1 DEF EnterRow, At
    <3> QED BY <1>0, <3>1
  <2>2. CASE sock' = sock
    BY <1>0, <2>2
  <2> QED
    BY <2>1, <2>2 DEF User, TakeRow, AskSocket, AwaitSocket, AwaitAnswer, ReadSocket, GiveBack,
         AskBind, PostBind, AwaitBind, ReadBind, EnterCall, LeaveCall, KClose, Die, tableVars
<1>5. si' \in [sock : Fds \cup {0, -1}, port : Procs \cup {NoPort}]
  <2>1. CASE AskBind(p)
    <3>1. row[p] \in Rows /\ si' = [sock |-> sock[row[p]], port |-> p]
      BY <2>1 DEF AskBind, At, Holding, Opening
    <3> QED BY <1>0, <3>1
  <2>2. CASE si' = ResetSI
    BY <2>2 DEF ResetSI
  <2>3. CASE si' = si
    BY <1>0, <2>3
  <2> QED
    BY <2>1, <2>2, <2>3 DEF User, TakeRow, AskSocket, AwaitSocket, AwaitAnswer, ReadSocket,
         GiveBack, EnterRow, PostBind, AwaitBind, ReadBind, EnterCall, LeaveCall, KClose, Die,
         siVars
<1>6. sem1' \in Nat /\ sem2' \in Nat
  BY <1>0 DEF User, TakeRow, AskSocket, AwaitSocket, AwaitAnswer, ReadSocket, GiveBack,
         EnterRow, AskBind, PostBind, AwaitBind, ReadBind, EnterCall, LeaveCall, KClose, Die,
         siVars
<1>7. /\ \/ pc' = pc
         \/ \E next \in States : pc' = [pc EXCEPT ![p] = next]
      /\ row' \in [Procs -> Rows \cup {NoRow}]
      /\ udp' \in [Procs -> Fds \cup {0, -1}]
  <2>1. CASE TakeRow(p)
    <3> DEFINE free == {i \in Rows : avail[i] = 1}
    <3>1. free # {} => Least(free) \in Rows
      BY <1>0, LeastExists
    <3> QED BY <1>0, <2>1, <3>1 DEF TakeRow, Goto, States, Holding, Opening, Gone
  <2>2. CASE ~ TakeRow(p)
    BY <1>0, <2>2 DEF User, AskSocket, AwaitSocket, AwaitAnswer, ReadSocket, GiveBack,
         EnterRow, AskBind, PostBind, AwaitBind, ReadBind, EnterCall, LeaveCall, KClose, Die,
         Goto, States, Holding, Opening, Gone
  <2> QED BY <2>1, <2>2
<1>8. TypeOK'
  BY <1>0, <1>1, <1>2, <1>3, <1>4, <1>5, <1>6, <1>7 DEF TypeOK, daemonVars, gcVars
<1>9. ASSUME NEW q \in Procs, pc'[q] \in Holding PROVE row'[q] \in Rows
  <2>1. CASE TakeRow(p)
    <3> DEFINE free == {i \in Rows : avail[i] = 1}
    <3>1. free # {} => Least(free) \in Rows
      BY <1>0, LeastExists
    <3> QED BY <1>0, <1>9, <2>1, <3>1 DEF TakeRow, Goto, At, Holding, Opening
  <2>2. CASE ~ TakeRow(p)
    <3>1. row' = row
      BY <2>2 DEF User, AskSocket, AwaitSocket, AwaitAnswer, ReadSocket, GiveBack,
         EnterRow, AskBind, PostBind, AwaitBind, ReadBind, EnterCall, LeaveCall, KClose, Die,
         userVars
    <3>2. pc[q] \in Holding
      BY <1>0, <1>9, <2>2 DEF User, AskSocket, AwaitSocket, AwaitAnswer, ReadSocket, GiveBack,
         EnterRow, AskBind, PostBind, AwaitBind, ReadBind, EnterCall, LeaveCall, KClose, Die,
         Goto, At, Holding, Opening
    <3> QED BY <3>1, <3>2
  <2> QED BY <2>1, <2>2
<1>10. ASSUME NEW q \in Procs, pc'[q] = "enter" PROVE udp'[q] # -1
  BY <1>0, <1>10, TableAssumption
     DEF User, TakeRow, AskSocket, AwaitSocket, AwaitAnswer, ReadSocket, GiveBack,
         EnterRow, AskBind, PostBind, AwaitBind, ReadBind, EnterCall, LeaveCall, KClose, Die,
         Goto, At, userVars
<1> QED BY <1>8, <1>9, <1>10

LEMMA DaemonTInv ==
  ASSUME TInv, Main \/ GC
  PROVE  TInv'
<1> USE DEF TInv
<1>1. CASE MainWait
  BY <1>1 DEF MainWait, TypeOK, tableVars, gcVars, userVars
<1>2. CASE MakeSocket
  <2>1. ASSUME Answered(-1), UNCHANGED <<fds, port>> PROVE TInv'
    BY <2>1 DEF Answered, TypeOK, tableVars, gcVars, userVars
  <2>2. ASSUME NEW f \in Fds, fds' = fds \cup {f}, port' = [port EXCEPT ![f] = NoPort],
               Answered(f)
        PROVE  TInv'
    BY <2>2 DEF Answered, TypeOK, tableVars, gcVars, userVars, Ports
  <2> QED BY <1>2, <2>1, <2>2, FreshDescriptor DEF MakeSocket
<1>3. CASE BindSocket
  <2>1. ASSUME Answered(-1), UNCHANGED <<fds, port>> PROVE TInv'
    BY <2>1 DEF Answered, TypeOK, tableVars, gcVars, userVars
  <2>2. ASSUME CanBind(si.sock, si.port), fds' = fds, Answered(si.sock),
               port' = [port EXCEPT ![si.sock] = IF si.port = NoPort
                                                 THEN Ephemeral ELSE si.port]
        PROVE  TInv'
    BY <2>2 DEF CanBind, Answered, TypeOK, tableVars, gcVars, userVars, Ports
  <2> QED BY <1>3, <2>1, <2>2 DEF BindSocket
<1>4. CASE GC
  <2>1. gcRow' \in Rows
    BY <1>4, NextRowIsRow DEF GC, Look, CollectClosed, CollectDead, Resume, TypeOK
  <2>2. /\ avail' \in [Rows -> {0, 1}] /\ pid' \in [Rows -> Procs \cup {NoProc}]
        /\ sock' \in [Rows -> Fds \cup {0}] /\ fds' \subseteq Fds
    BY <1>4 DEF GC, Look, CollectClosed, CollectDead, Collect, TypeOK, tableVars, daemonVars
  <2>3. /\ gcPc' \in {"look", "closed", "taken"}
        /\ UNCHANGED <<rowHeld, port, mainPc, siVars, userVars>>
    BY <1>4 DEF GC, Look, CollectClosed, CollectDead, Resume, tableVars, daemonVars
  <2> QED BY <2>1, <2>2, <2>3 DEF TypeOK, siVars, userVars
<1> QED BY <1>1, <1>2, <1>3, <1>4 DEF Main

LEMMA NextTInv == TInv /\ [Next]_vars => TInv'
<1>1. TInv /\ UNCHANGED vars => TInv'
  BY DEF TInv, TypeOK, vars, tableVars, daemonVars, siVars, gcVars, userVars
<1> QED BY <1>1, UserTInv, DaemonTInv DEF Next

(* The types hold for every number of processes, rows and descriptors,     *)
(* however the calls of the processes are interleaved.                     *)
THEOREM TypeCorrect == Spec => []TypeOK
<1>1. TInv => TypeOK
  BY DEF TInv
<1> QED BY <1>1, InitTInv, NextTInv, PTL DEF Spec

-----------------------------------------------------------------------------
(* The invariant, for users that open their sockets one after the other    *)
(* over collected rows.                                                    *)
OneAtATime == Serial /\ Settled

SInv == TInv /\ MeetingPart /\ RowsPart /\ NoSocketLeaks

(* While p is in k_socket or k_bind no other process is, and what p does   *)
(* there leaves the others where they are.                                 *)
LEMMA Alone ==
  ASSUME SInv, NEW p \in Procs, pc[p] \in Opening, NEW next, Goto(p, next)
  PROVE  /\ pc'[p] = next
         /\ \A q \in Procs \ {p} : pc'[q] = pc[q] /\ pc[q] \notin Opening
BY DEF SInv, TInv, TypeOK, MeetingPart, Goto

(* Steps of a process that leave the rows alone.                           *)
LEMMA RowsMove ==
  ASSUME SInv, NEW p \in Procs,
         UNCHANGED <<avail, pid, sock, fds, port, gcPc, gcRow, row>>,
         \A q \in Procs \ {p} : pc'[q] = pc[q],
         pc'[p] \in Before => pc[p] \in Before,
         pc'[p] \in Owning => pc[p] \in Owning,
         pc'[p] \in {"ready", "inside"} => port[sock[row[p]]] = p,
         pc[p] \in Owning => pc'[p] \in Owning \/ pc'[p] = "dead",
         pc[p] \in {"closed", "dead"} => pc'[p] \in {"closed", "dead"}
  PROVE  RowsPart'
<1>0. pid \in [Rows -> Procs \cup {NoProc}]
  BY DEF SInv, TInv, TypeOK
<1>1. ASSUME NEW q \in Procs
      PROVE  /\ pc'[q] \in Before => avail[row[q]] = 0 /\ pid[row[q]] = NoProc
             /\ pc'[q] \in Owning => avail[row[q]] = 0 /\ pid[row[q]] = q
             /\ pc'[q] \in {"ready", "inside"} => port[sock[row[q]]] = q
  <2>1. CASE q = p
    BY <2>1 DEF SInv, RowsPart
  <2>2. CASE q # p
    BY <2>2 DEF SInv, RowsPart
  <2> QED BY <2>1, <2>2
<1>2. ASSUME NEW i \in Rows, pid[i] # NoProc
      PROVE  pc'[pid[i]] \in {"closed", "dead"} \/
               (pc'[pid[i]] \in Owning /\ row[pid[i]] = i /\ avail[i] = 0)
  <2>1. pid[i] \in Procs
    BY <1>0, <1>2
  <2>2. pc[pid[i]] \in {"closed", "dead"} \/
          (pc[pid[i]] \in Owning /\ row[pid[i]] = i /\ avail[i] = 0)
    BY <1>2 DEF SInv, RowsPart
  <2>3. CASE pid[i] = p
    BY <2>2, <2>3
  <2>4. CASE pid[i] # p
    BY <2>1, <2>2, <2>4
  <2> QED BY <2>3, <2>4
<1> QED BY <1>1, <1>2 DEF SInv, RowsPart

(* Calls that wait for the answer of main.                                 *)
LEMMA AwaitSInv ==
  ASSUME SInv, NEW p \in Procs, AwaitSocket(p) \/ AwaitBind(p)
  PROVE  MeetingPart' /\ RowsPart' /\ NoSocketLeaks'
<1>1. /\ pc[p] \in {"answer", "bindanswer"}
      /\ Goto(p, IF pc[p] = "answer" THEN "read" ELSE "bindread")
      /\ sem2 > 0 /\ sem2' = sem2 - 1
      /\ UNCHANGED <<si, sem1, avail, pid, sock, fds, port, mainPc, gcPc, gcRow, row, udp>>
  BY DEF AwaitSocket, AwaitBind, AwaitAnswer, At, tableVars, daemonVars, gcVars
<1>2. /\ pc'[p] = (IF pc[p] = "answer" THEN "read" ELSE "bindread")
      /\ \A q \in Procs \ {p} : pc'[q] = pc[q] /\ pc[q] \notin Opening
  BY <1>1, Alone DEF Opening
<1>3. /\ Told /\ Idle'
      /\ pc[p] = "answer" => SocketAnswer
      /\ pc[p] = "bindanswer" => BindAnswer(p)
  BY <1>1 DEF SInv, TInv, TypeOK, MeetingPart, Asked, Told, Idle
<1>4. MeetingPart'
  <2>1. SocketAnswer' <=> SocketAnswer
    BY <1>1 DEF SocketAnswer, NewSocket
  <2>2. BindAnswer(p)' <=> BindAnswer(p)
    BY <1>1 DEF BindAnswer
  <2> QED BY <1>1, <1>2, <1>3, <2>1, <2>2 DEF MeetingPart, Opening
<1>5. RowsPart'
  BY <1>1, <1>2, RowsMove DEF Before, Owning
<1>6. NoSocketLeaks'
  BY <1>1, <1>2 DEF SInv, NoSocketLeaks, At, Opening
<1> QED BY <1>4, <1>5, <1>6

LEMMA AskSocketSInv ==
  ASSUME SInv, NEW p \in Procs, AskSocket(p)
  PROVE  MeetingPart' /\ RowsPart' /\ NoSocketLeaks'
<1>1. /\ pc[p] = "ask" /\ Goto(p, "answer") /\ si' = ResetSI /\ sem1' = sem1 + 1
      /\ UNCHANGED <<sem2, avail, pid, sock, fds, port, mainPc, gcPc, gcRow, row, udp>>
  BY DEF AskSocket, At, tableVars, daemonVars, gcVars
<1>2. /\ pc'[p] = "answer"
      /\ \A q \in Procs \ {p} : pc'[q] = pc[q] /\ pc[q] \notin Opening
  BY <1>1, Alone DEF Opening
<1>3. Idle /\ Asked' /\ si = ResetSI
  BY <1>1, <1>2 DEF SInv, MeetingPart, Opening, Idle, Asked
<1>4. MeetingPart'
  BY <1>1, <1>2, <1>3 DEF MeetingPart, Opening
<1>5. RowsPart'
  BY <1>1, <1>2, RowsMove DEF Before, Owning
<1>6. NoSocketLeaks'
  BY <1>1, <1>2, <1>3 DEF SInv, NoSocketLeaks, At, Opening
<1> QED BY <1>4, <1>5, <1>6

LEMMA ReadSocketSInv ==
  ASSUME SInv, NEW p \in Procs, ReadSocket(p)
  PROVE  MeetingPart' /\ RowsPart' /\ NoSocketLeaks'
<1>1. /\ pc[p] = "read" /\ Goto(p, IF si.sock < 0 THEN "giveback" ELSE "enter")
      /\ si' = ResetSI /\ udp' = [udp EXCEPT ![p] = si.sock]
      /\ UNCHANGED <<sem1, sem2, avail, pid, sock, fds, port, mainPc, gcPc, gcRow, row>>
  BY DEF ReadSocket, At, tableVars, daemonVars, gcVars
<1>2. /\ pc'[p] = (IF si.sock < 0 THEN "giveback" ELSE "enter")
      /\ \A q \in Procs \ {p} : pc'[q] = pc[q] /\ pc[q] \notin Opening
  BY <1>1, Alone DEF Opening
<1>3. Idle /\ Idle' /\ SocketAnswer
  BY <1>1, <1>2 DEF SInv, MeetingPart, Opening, Idle
<1>4. /\ udp'[p] = si.sock /\ si.sock \in Fds \cup {0, -1} /\ fds \subseteq Fds
      /\ \A q \in Procs \ {p} : udp'[q] = udp[q]
      /\ Fds \subseteq Nat \ {0}
  BY <1>1 DEF SInv, TInv, TypeOK, Fds
<1>5. MeetingPart'
  <2>1. ~ si.sock < 0 => NewSocket(udp'[p])
    BY <1>3, <1>4 DEF SocketAnswer
  <2>2. ~ si.sock < 0 => NewSocket(udp[p])'
    BY <1>1, <2>1 DEF NewSocket
  <2> QED BY <1>1, <1>2, <1>3, <2>2 DEF MeetingPart, Opening
<1>6. RowsPart'
  BY <1>1, <1>2, RowsMove DEF Before, Owning
<1>7. NoSocketLeaks'
  <2> SUFFICES ASSUME NEW f \in fds
               PROVE  \/ f \in {sock[i] : i \in Rows}
                      \/ \E q \in Procs : f = udp'[q] /\ pc'[q] = "enter"
    BY <1>1 DEF NoSocketLeaks, At
  <2>1. \/ f \in {sock[i] : i \in Rows} \/ f = si.sock
        \/ \E q \in Procs : f = udp[q] /\ pc[q] = "enter"
    BY DEF SInv, NoSocketLeaks, At
  <2>2. ASSUME f = si.sock PROVE \E q \in Procs : f = udp'[q] /\ pc'[q] = "enter"
    <3>1. f \in Nat
      BY <1>4
    <3>2. si.sock \in Nat
      BY <2>2, <3>1
    <3>3. ~ si.sock < 0
      BY <3>2
    <3> QED BY <1>2, <1>4, <2>2, <3>3
  <2>3. ASSUME NEW q \in Procs, pc[q] = "enter" PROVE FALSE
    BY <1>1, <1>2, <2>3 DEF Opening
  <2> QED BY <2>1, <2>2, <2>3
<1> QED BY <1>5, <1>6, <1>7

LEMMA PostBindSInv ==
  ASSUME SInv, NEW p \in Procs, PostBind(p)
  PROVE  MeetingPart' /\ RowsPart' /\ NoSocketLeaks'
<1>1. /\ pc[p] = "post" /\ Goto(p, "bindanswer") /\ sem1' = sem1 + 1
      /\ UNCHANGED <<si, sem2, avail, pid, sock, fds, port, mainPc, gcPc, gcRow, row, udp>>
  BY DEF PostBind, At, tableVars, daemonVars, gcVars
<1>2. /\ pc'[p] = "bindanswer"
      /\ \A q \in Procs \ {p} : pc'[q] = pc[q] /\ pc[q] \notin Opening
  BY <1>1, Alone DEF Opening
<1>3. Idle /\ Asked' /\ BindRequest(p) /\ BindRequest(p)'
  BY <1>1, <1>2 DEF SInv, MeetingPart, Opening, Idle, Asked, BindRequest
<1>4. MeetingPart'
  BY <1>1, <1>2, <1>3 DEF MeetingPart, Opening
<1>5. RowsPart'
  BY <1>1, <1>2, RowsMove DEF Before, Owning
<1>6. NoSocketLeaks'
  BY <1>1, <1>2 DEF SInv, NoSocketLeaks, At, Opening
<1> QED BY <1>4, <1>5, <1>6

LEMMA AskBindSInv ==
  ASSUME SInv, NEW p \in Procs, AskBind(p)
  PROVE  MeetingPart' /\ RowsPart' /\ NoSocketLeaks'
<1>1. /\ pc[p] = "bound?" /\ Goto(p, "post") /\ si' = [sock |-> sock[row[p]], port |-> p]
      /\ UNCHANGED <<sem1, sem2, avail, pid, sock, fds, port, mainPc, gcPc, gcRow, row, udp>>
  BY DEF AskBind, At, tableVars, daemonVars, gcVars
<1>2. /\ pc'[p] = "post"
      /\ \A q \in Procs \ {p} : pc'[q] = pc[q] /\ pc[q] \notin Opening
  BY <1>1, Alone DEF Opening
<1>3. Idle /\ Idle' /\ BindRequest(p)' /\ si = ResetSI
  BY <1>1, <1>2 DEF SInv, MeetingPart, Opening, Idle, BindRequest
<1>4. MeetingPart'
  BY <1>1, <1>2, <1>3 DEF MeetingPart, Opening
<1>5. RowsPart'
  BY <1>1, <1>2, RowsMove DEF Before, Owning
<1>6. NoSocketLeaks'
  <2>1. si.sock \notin fds
    BY <1>3 DEF ResetSI, SInv, TInv, TypeOK, Fds
  <2> QED BY <1>1, <1>2, <2>1 DEF SInv, NoSocketLeaks, At, Opening
<1> QED BY <1>4, <1>5, <1>6

LEMMA ReadBindSInv ==
  ASSUME SInv, NEW p \in Procs, ReadBind(p)
  PROVE  MeetingPart' /\ RowsPart' /\ NoSocketLeaks'
<1>1. /\ pc[p] = "bindread" /\ Goto(p, IF si.sock < 0 THEN "dead" ELSE "ready")
      /\ si' = ResetSI
      /\ UNCHANGED <<sem1, sem2, avail, pid, sock, fds, port, mainPc, gcPc, gcRow, row, udp>>
  BY DEF ReadBind, At, tableVars, daemonVars, gcVars
<1>2. /\ pc'[p] = (IF si.sock < 0 THEN "dead" ELSE "ready")
      /\ \A q \in Procs \ {p} : pc'[q] = pc[q] /\ pc[q] \notin Opening
  BY <1>1, Alone DEF Opening
<1>3. Idle /\ Idle' /\ BindAnswer(p)
  BY <1>1, <1>2 DEF SInv, MeetingPart, Opening, Idle
<1>4. /\ row[p] \in Rows /\ sock[row[p]] \in Fds \cup {0}
  BY <1>1 DEF SInv, TInv, TypeOK, Holding, Opening
<1>5. MeetingPart'
  BY <1>1, <1>2, <1>3 DEF MeetingPart, Opening
<1>6. RowsPart'
  <2>1. ~ si.sock < 0 => port[sock[row[p]]] = p
    BY <1>3 DEF BindAnswer
  <2> QED BY <1>1, <1>2, <2>1, RowsMove DEF Before, Owning
<1>7. NoSocketLeaks'
  <2>1. si.sock \in fds => si.sock = sock[row[p]]
    BY <1>3 DEF BindAnswer, SInv, TInv, TypeOK, Fds
  <2> QED BY <1>1, <1>2, <1>4, <2>1 DEF SInv, NoSocketLeaks, At, Opening
<1> QED BY <1>5, <1>6, <1>7

(* Steps outside of what the semaphores and SOCK_INFO order.               *)
AtMeeting == {"answer", "read", "post", "bindanswer", "bindread"}

LEMMA MeetingMoves ==
  ASSUME SInv, UNCHANGED <<siVars, mainPc>>,
         \A p, q \in Procs : pc'[p] \in Opening /\ pc'[q] \in Opening => p = q,
         \A p \in Procs : \/ pc'[p] = pc[p]
                          \/ /\ pc[p] \notin AtMeeting
                             /\ pc'[p] \notin AtMeeting \cup {"enter"},
         \A p \in Procs : pc'[p] \in AtMeeting \cup {"enter"} =>
            row'[p] = row[p] /\ udp'[p] = udp[p] /\ sock'[row[p]] = sock[row[p]],
         \A f : NewSocket(f) => NewSocket(f)',
         \A p \in Procs : pc[p] \in AtMeeting /\ BindAnswer(p) => BindAnswer(p)'
  PROVE  MeetingPart'
<1>1. si' = si /\ sem1' = sem1 /\ sem2' = sem2 /\ mainPc' = mainPc
  BY DEF siVars
<1>2. \A p \in Procs : pc[p] \in AtMeeting \/ pc'[p] \in AtMeeting \cup {"enter"}
                         => pc'[p] = pc[p]
  BY DEF AtMeeting
<1>3. /\ Asked' <=> Asked
      /\ Told' <=> Told
      /\ Idle' <=> Idle
      /\ SocketAnswer => SocketAnswer'
  BY <1>1 DEF Asked, Told, Idle, SocketAnswer
<1>4. ASSUME NEW p \in Procs
      PROVE  /\ pc'[p] = "answer" => (Asked' /\ si' = ResetSI) \/ (Told' /\ SocketAnswer')
             /\ pc'[p] = "read" => SocketAnswer'
             /\ pc'[p] = "enter" => NewSocket(udp[p])'
             /\ pc'[p] = "post" => BindRequest(p)'
             /\ pc'[p] = "bindanswer" =>
                  (Asked' /\ BindRequest(p)') \/ (Told' /\ BindAnswer(p)')
             /\ pc'[p] = "bindread" => BindAnswer(p)'
  <2>1. CASE pc'[p] \in AtMeeting
    <3>1. pc'[p] = pc[p]
      BY <1>2, <2>1
    <3>2. BindRequest(p) => BindRequest(p)'
      BY <1>1, <2>1 DEF BindRequest
    <3>3. /\ pc[p] = "answer" => (Asked /\ si = ResetSI) \/ (Told /\ SocketAnswer)
          /\ pc[p] = "read" => SocketAnswer
          /\ pc[p] = "post" => BindRequest(p)
          /\ pc[p] = "bindanswer" => (Asked /\ BindRequest(p)) \/ (Told /\ BindAnswer(p))
          /\ pc[p] = "bindread" => BindAnswer(p)
      BY DEF SInv, MeetingPart
    <3>4. pc[p] \in AtMeeting /\ pc[p] # "enter"
      BY <2>1, <3>1 DEF AtMeeting
    <3>5. BindAnswer(p) => BindAnswer(p)'
      BY <3>4
    <3> QED BY <1>1, <1>3, <3>1, <3>2, <3>3, <3>4, <3>5
  <2>2. CASE pc'[p] = "enter"
    <3>1. pc[p] = "enter" /\ udp'[p] = udp[p]
      BY <1>2, <2>2
    <3>2. NewSocket(udp[p])
      BY <3>1 DEF SInv, MeetingPart
    <3>3. NewSocket(udp[p])'
      BY <3>1, <3>2 DEF NewSocket
    <3> QED BY <2>2, <3>3
  <2>3. CASE pc'[p] \notin AtMeeting \cup {"enter"}
    BY <2>3 DEF AtMeeting
  <2> QED BY <2>1, <2>2, <2>3
<1>5. Idle' \/ \E p \in Procs : pc'[p] \in {"answer", "bindanswer"}
  BY <1>2, <1>3 DEF SInv, MeetingPart, AtMeeting
<1>6. si' = ResetSI \/ \E p \in Procs : pc'[p] \in AtMeeting
  BY <1>1, <1>2 DEF SInv, MeetingPart, AtMeeting
<1> QED BY <1>4, <1>5, <1>6 DEF MeetingPart, AtMeeting

(* Steps of a process that has its socket: they are outside of k_socket    *)
(* and k_bind.                                                             *)
LEMMA CallSInv ==
  ASSUME SInv, NEW p \in Procs, EnterCall(p) \/ LeaveCall(p) \/ Die(p)
  PROVE  MeetingPart' /\ RowsPart' /\ NoSocketLeaks'
<1>1. /\ pc[p] \in {"ready", "inside", "closed"}
      /\ \E next \in {"ready", "inside", "dead"} :
           Goto(p, next) /\ (pc[p] = "closed" => next = "dead")
      /\ UNCHANGED <<siVars, avail, pid, sock, fds, port, mainPc, gcPc, gcRow, row, udp>>
  BY DEF EnterCall, LeaveCall, Die, At, tableVars, daemonVars, gcVars
<1>2. /\ pc'[p] \in {"ready", "inside", "dead"}
      /\ pc[p] = "closed" => pc'[p] = "dead"
      /\ \A q \in Procs \ {p} : pc'[q] = pc[q]
  BY <1>1 DEF Goto, SInv, TInv, TypeOK
<1>3. MeetingPart'
  <2>1. \A q, r \in Procs : pc'[q] \in Opening /\ pc'[r] \in Opening => q = r
    BY <1>2 DEF SInv, MeetingPart, Opening
  <2>2. /\ \A f : NewSocket(f) => NewSocket(f)'
        /\ \A q \in Procs : BindAnswer(q) => BindAnswer(q)'
    BY <1>1 DEF NewSocket, BindAnswer, siVars
  <2>3. \A q \in Procs : \/ pc'[q] = pc[q]
                         \/ pc[q] \notin AtMeeting /\ pc'[q] \notin AtMeeting \cup {"enter"}
    BY <1>1, <1>2 DEF AtMeeting
  <2> QED BY <1>1, <2>1, <2>2, <2>3, MeetingMoves
<1>4. RowsPart'
  <2>1. pc[p] \in {"ready", "inside"} => port[sock[row[p]]] = p
    BY DEF SInv, RowsPart
  <2> QED BY <1>1, <1>2, <2>1, RowsMove DEF Before, Owning
<1>5. NoSocketLeaks'
  BY <1>1, <1>2 DEF SInv, NoSocketLeaks, At, siVars
<1> QED BY <1>3, <1>4, <1>5

(* The scan for a row: nobody else is in the library, and a free row has   *)
(* been collected.                                                         *)
LEMMA TakeRowSInv ==
  ASSUME SInv, OneAtATime, NEW p \in Procs, TakeRow(p)
  PROVE  MeetingPart' /\ RowsPart' /\ NoSocketLeaks'
<1> DEFINE free == {i \in Rows : avail[i] = 1}
           r == Least(free)
<1>0. /\ pc \in [Procs -> States] /\ row \in [Procs -> Rows \cup {NoRow}]
      /\ avail \in [Rows -> {0, 1}] /\ pid \in [Rows -> Procs \cup {NoProc}]
      /\ Rows \in SUBSET Nat
  BY TableAssumption DEF SInv, TInv, TypeOK
<1>1. /\ pc[p] = "start"
      /\ \A q \in Procs : pc[q] \notin Opening
      /\ \A i \in Rows : avail[i] = 1 => sock[i] = 0
      /\ UNCHANGED <<siVars, pid, sock, fds, port, mainPc, gcPc, gcRow, udp>>
  BY DEF TakeRow, OneAtATime, At, daemonVars, gcVars
<1>2. \/ Goto(p, "dead") /\ UNCHANGED <<avail, row>>
      \/ /\ free # {} /\ Goto(p, "ask")
         /\ row' = [row EXCEPT ![p] = r] /\ avail' = [avail EXCEPT ![r] = 0]
  BY DEF TakeRow
<1>3. free # {} => r \in free
  BY <1>0, LeastExists
<1> HIDE DEF r
<1>4. /\ pc'[p] \in {"dead", "ask"}
      /\ \A q \in Procs \ {p} : pc'[q] = pc[q] /\ row'[q] = row[q]
  BY <1>0, <1>2 DEF Goto
<1>5. MeetingPart'
  <2>1. \A q, s \in Procs : pc'[q] \in Opening /\ pc'[s] \in Opening => q = s
    BY <1>1, <1>4
  <2>2. \A f : NewSocket(f) => NewSocket(f)'
    BY <1>1 DEF NewSocket
  <2>3. \A q \in Procs : pc[q] \notin AtMeeting /\ pc'[q] \notin AtMeeting \cup {"enter"}
    BY <1>1, <1>4 DEF AtMeeting, Opening
  <2> QED BY <1>1, <2>1, <2>2, <2>3, MeetingMoves
<1>6. RowsPart'
  <2>1. CASE Goto(p, "dead") /\ UNCHANGED <<avail, row>>
    <3>1. pc'[p] = "dead"
      BY <1>0, <2>1 DEF Goto
    <3> QED BY <1>1, <1>4, <2>1, <3>1, RowsMove DEF Before, Owning
  <2>2. CASE /\ free # {} /\ Goto(p, "ask")
             /\ row' = [row EXCEPT ![p] = r] /\ avail' = [avail EXCEPT ![r] = 0]
    <3>1. r \in Rows /\ avail[r] = 1 /\ sock[r] = 0 /\ pid[r] = NoProc
      BY <1>1, <1>3, <2>2 DEF SInv, RowsPart
    <3>2. /\ pc'[p] = "ask" /\ row'[p] = r /\ avail'[r] = 0
          /\ \A i \in Rows \ {r} : avail'[i] = avail[i]
      BY <1>0, <2>2, <3>1 DEF Goto
    <3>3. ASSUME NEW q \in Procs
          PROVE  /\ pc'[q] \in Before => avail'[row'[q]] = 0 /\ pid'[row'[q]] = NoProc
                 /\ pc'[q] \in Owning => avail'[row'[q]] = 0 /\ pid'[row'[q]] = q
                 /\ pc'[q] \in {"ready", "inside"} => port'[sock'[row'[q]]] = q
      <4>1. CASE q = p
        BY <1>1, <3>1, <3>2, <4>1 DEF Owning
      <4>2. CASE q # p
        <5>1. pc'[q] = pc[q] /\ row'[q] = row[q] /\ pc[q] \notin Before
          BY <1>1, <1>4, <4>2 DEF Before, Opening
        <5>2. pc[q] \in Owning => row[q] \in Rows \ {r} /\ avail[row[q]] = 0
          BY <3>1 DEF SInv, TInv, RowsPart, Owning, Holding, Opening
        <5> QED BY <1>1, <3>2, <5>1, <5>2 DEF SInv, RowsPart, Owning
      <4> QED BY <4>1, <4>2
    <3>4. ASSUME NEW i \in Rows, pid[i] # NoProc
          PROVE  pc'[pid[i]] \in {"closed", "dead"} \/
                   (pc'[pid[i]] \in Owning /\ row'[pid[i]] = i /\ avail'[i] = 0)
      <4>1. /\ pid[i] \in Procs
            /\ pc[pid[i]] \in {"closed", "dead"} \/
                 (pc[pid[i]] \in Owning /\ row[pid[i]] = i /\ avail[i] = 0)
        BY <1>0, <3>4 DEF SInv, RowsPart
      <4>2. pid[i] # p
        BY <1>1, <4>1 DEF Owning
      <4>3. i # r
        BY <3>1, <3>4
      <4> QED BY <1>4, <3>2, <4>1, <4>2, <4>3
    <3>5. gcPc = "closed" => avail'[gcRow] = 1 /\ sock[gcRow] # 0
      BY <3>1, <3>2 DEF SInv, TInv, TypeOK, RowsPart
    <3> QED BY <1>1, <3>3, <3>4, <3>5 DEF SInv, RowsPart
  <2> QED BY <1>2, <2>1, <2>2
<1>7. NoSocketLeaks'
  <2>1. \A q \in Procs : pc[q] # "enter"
    BY <1>1 DEF Opening
  <2> QED BY <1>1, <2>1 DEF SInv, NoSocketLeaks, At, siVars
<1> QED BY <1>5, <1>6, <1>7

LEMMA GiveBackSInv ==
  ASSUME SInv, NEW p \in Procs, GiveBack(p)
  PROVE  MeetingPart' /\ RowsPart' /\ NoSocketLeaks'
<1>0. /\ pc \in [Procs -> States] /\ row \in [Procs -> Rows \cup {NoRow}]
      /\ avail \in [Rows -> {0, 1}] /\ pid \in [Rows -> Procs \cup {NoProc}]
      /\ gcRow \in Rows
  BY DEF SInv, TInv, TypeOK
<1>1. /\ pc[p] = "giveback" /\ Goto(p, "dead") /\ avail' = [avail EXCEPT ![row[p]] = 1]
      /\ UNCHANGED <<siVars, pid, sock, fds, port, mainPc, gcPc, gcRow, row, udp>>
  BY DEF GiveBack, At, daemonVars, gcVars
<1>2. /\ pc'[p] = "dead"
      /\ \A q \in Procs \ {p} : pc'[q] = pc[q] /\ pc[q] \notin Opening
  BY <1>1, Alone DEF Opening
<1>3. /\ row[p] \in Rows /\ pid[row[p]] = NoProc
      /\ \A i \in Rows : avail'[i] = 1 \/ (i # row[p] /\ avail'[i] = avail[i])
      /\ \A i \in Rows \ {row[p]} : avail'[i] = avail[i]
  BY <1>0, <1>1 DEF SInv, TInv, RowsPart, Before, Holding, Opening
<1>4. MeetingPart'
  <2>1. \A q \in Procs : pc'[q] \notin Opening
    BY <1>2 DEF Opening
  <2>2. \A f : NewSocket(f) => NewSocket(f)'
    BY <1>1 DEF NewSocket
  <2>3. \A q \in Procs : pc[q] \notin AtMeeting /\ pc'[q] \notin AtMeeting \cup {"enter"}
    BY <1>1, <1>2 DEF AtMeeting, Opening
  <2> QED BY <1>1, <2>1, <2>2, <2>3, MeetingMoves
<1>5. RowsPart'
  <2>1. ASSUME NEW q \in Procs
        PROVE  /\ pc'[q] \in Before => avail'[row'[q]] = 0 /\ pid'[row'[q]] = NoProc
               /\ pc'[q] \in Owning => avail'[row'[q]] = 0 /\ pid'[row'[q]] = q
               /\ pc'[q] \in {"ready", "inside"} => port'[sock'[row'[q]]] = q
    <3>1. CASE q = p
      BY <1>2, <3>1 DEF Owning, Before
    <3>2. CASE q # p
      <4>1. pc'[q] = pc[q] /\ pc[q] \notin Before
        BY <1>2, <3>2 DEF Before, Opening
      <4>2. pc[q] \in Owning => row[q] \in Rows \ {row[p]}
        BY <1>3, TableAssumption DEF SInv, TInv, RowsPart, Owning, Holding, Opening
      <4> QED BY <1>1, <1>3, <4>1, <4>2 DEF SInv, RowsPart, Owning
    <3> QED BY <3>1, <3>2
  <2>2. ASSUME NEW i \in Rows, pid[i] # NoProc
        PROVE  pc'[pid[i]] \in {"closed", "dead"} \/
                 (pc'[pid[i]] \in Owning /\ row'[pid[i]] = i /\ avail'[i] = 0)
    <3>1. /\ pid[i] \in Procs
          /\ pc[pid[i]] \in {"closed", "dead"} \/
               (pc[pid[i]] \in Owning /\ row[pid[i]] = i /\ avail[i] = 0)
      BY <1>0, <2>2 DEF SInv, RowsPart
    <3>2. pid[i] # p
      BY <1>1, <3>1 DEF Owning
    <3> QED BY <1>1, <1>2, <1>3, <2>2, <3>1, <3>2
  <2>3. gcPc = "closed" => avail'[gcRow] = 1 /\ sock[gcRow] # 0
    BY <1>0, <1>3 DEF SInv, RowsPart
  <2> QED BY <1>1, <2>1, <2>2, <2>3 DEF SInv, RowsPart
<1>6. NoSocketLeaks'
  BY <1>1, <1>2 DEF SInv, NoSocketLeaks, At, siVars, Opening
<1> QED BY <1>4, <1>5, <1>6

(* The row gets its socket, which no other row has, and its owner.         *)
LEMMA EnterRowSInv ==
  ASSUME SInv, NEW p \in Procs, EnterRow(p)
  PROVE  MeetingPart' /\ RowsPart' /\ NoSocketLeaks'
<1> DEFINE r == row[p]
<1>0. /\ pc \in [Procs -> States] /\ row \in [Procs -> Rows \cup {NoRow}]
      /\ avail \in [Rows -> {0, 1}] /\ pid \in [Rows -> Procs \cup {NoProc}]
      /\ sock \in [Rows -> Fds \cup {0}] /\ gcRow \in Rows
      /\ fds \subseteq Fds /\ Fds \subseteq Nat \ {0} /\ NoProc \notin Procs
  BY TableAssumption DEF SInv, TInv, TypeOK, Fds
<1>1. /\ pc[p] = "enter" /\ Goto(p, "bound?")
      /\ sock' = [sock EXCEPT ![r] = udp[p]] /\ pid' = [pid EXCEPT ![r] = p]
      /\ UNCHANGED <<siVars, avail, fds, port, mainPc, gcPc, gcRow, row, udp>>
  BY DEF EnterRow, At, daemonVars, gcVars
<1>2. /\ pc'[p] = "bound?"
      /\ \A q \in Procs \ {p} : pc'[q] = pc[q] /\ pc[q] \notin Opening
  BY <1>1, Alone DEF Opening
<1>3. /\ r \in Rows /\ avail[r] = 0 /\ pid[r] = NoProc /\ sock[r] = 0
      /\ udp[p] \in fds /\ udp[p] # 0 /\ \A i \in Rows : sock[i] # udp[p]
  BY <1>0, <1>1 DEF SInv, TInv, MeetingPart, RowsPart, NewSocket, Before, Holding, Opening
<1>4. /\ sock'[r] = udp[p] /\ pid'[r] = p
      /\ \A i \in Rows \ {r} : sock'[i] = sock[i] /\ pid'[i] = pid[i]
  BY <1>0, <1>1, <1>3
<1>5. MeetingPart'
  <2>1. \A q, s \in Procs : pc'[q] \in Opening /\ pc'[s] \in Opening => q = s
    BY <1>2
  <2>2. \A q \in Procs : pc[q] \notin AtMeeting /\ pc'[q] \notin AtMeeting \cup {"enter"}
    BY <1>1, <1>2 DEF AtMeeting, Opening
  <2>3. Idle' /\ si' = ResetSI
    BY <1>1, <2>2 DEF SInv, MeetingPart, Idle, siVars, AtMeeting
  <2> QED BY <2>1, <2>2, <2>3 DEF MeetingPart, AtMeeting
<1>6. RowsPart'
  <2>1. ASSUME NEW q \in Procs
        PROVE  /\ pc'[q] \in Before => avail'[row'[q]] = 0 /\ pid'[row'[q]] = NoProc
               /\ pc'[q] \in Owning => avail'[row'[q]] = 0 /\ pid'[row'[q]] = q
               /\ pc'[q] \in {"ready", "inside"} => port'[sock'[row'[q]]] = q
    <3>1. CASE q = p
      BY <1>1, <1>2, <1>3, <1>4, <3>1 DEF Owning, Before
    <3>2. CASE q # p
      <4>1. pc'[q] = pc[q] /\ pc[q] \notin Before
        BY <1>2, <3>2 DEF Before, Opening
      <4>2. pc[q] \in Owning => row[q] \in Rows \ {r}
        BY <1>0, <1>3 DEF SInv, TInv, RowsPart, Owning, Holding, Opening
      <4> QED BY <1>1, <1>4, <4>1, <4>2 DEF SInv, RowsPart, Owning
    <3> QED BY <3>1, <3>2
  <2>2. ASSUME NEW i \in Rows, pid'[i] # NoProc
        PROVE  pc'[pid'[i]] \in {"closed", "dead"} \/
                 (pc'[pid'[i]] \in Owning /\ row'[pid'[i]] = i /\ avail'[i] = 0)
    <3>1. CASE i = r
      BY <1>1, <1>2, <1>3, <1>4, <3>1 DEF Owning
    <3>2. CASE i # r
      <4>1. pid'[i] = pid[i] /\ pid[i] \in Procs
        BY <1>0, <1>4, <2>2, <3>2
      <4>2. pc[pid[i]] \in {"closed", "dead"} \/
               (pc[pid[i]] \in Owning /\ row[pid[i]] = i /\ avail[i] = 0)
        BY <2>2, <4>1 DEF SInv, RowsPart
      <4>3. pid[i] # p
        BY <1>1, <4>2 DEF Owning
      <4> QED BY <1>1, <1>2, <4>1, <4>2, <4>3
    <3> QED BY <3>1, <3>2
  <2>3. ASSUME NEW i \in Rows
        PROVE  /\ sock'[i] = 0 <=> pid'[i] = NoProc
               /\ sock'[i] # 0 => sock'[i] \in fds'
    BY <1>0, <1>1, <1>3, <1>4 DEF SInv, RowsPart
  <2>4. \A i, k \in Rows : sock'[i] = sock'[k] /\ sock'[i] # 0 => i = k
    BY <1>3, <1>4 DEF SInv, RowsPart
  <2>5. gcPc' = "closed" => avail'[gcRow'] = 1 /\ sock'[gcRow'] # 0
    BY <1>0, <1>1, <1>3, <1>4 DEF SInv, RowsPart
  <2> QED BY <2>1, <2>2, <2>3, <2>4, <2>5 DEF RowsPart
<1>7. NoSocketLeaks'
  <2> SUFFICES ASSUME NEW f \in fds
               PROVE  f \in {sock'[i] : i \in Rows} \/ f = si'.sock
    BY <1>1 DEF NoSocketLeaks
  <2>1. \/ \E i \in Rows : f = sock[i]
        \/ f = si.sock
        \/ \E q \in Procs : f = udp[q] /\ pc[q] = "enter"
    BY DEF SInv, NoSocketLeaks, At
  <2>2. ASSUME NEW i \in Rows, f = sock[i] PROVE f = sock'[i]
    BY <1>0, <1>3, <1>4, <2>2
  <2>3. ASSUME NEW q \in Procs, f = udp[q], pc[q] = "enter" PROVE f = sock'[r]
    BY <1>2, <1>4, <2>3 DEF Opening
  <2> QED BY <1>1, <1>3, <2>1, <2>2, <2>3 DEF siVars
<1> QED BY <1>5, <1>6, <1>7

(* k_close gives the row up; socket and pid stay in it until it is         *)
(* collected.                                                              *)
LEMMA KCloseSInv ==
  ASSUME SInv, NEW p \in Procs, KClose(p)
  PROVE  MeetingPart' /\ RowsPart' /\ NoSocketLeaks'
<1>0. /\ pc \in [Procs -> States] /\ row \in [Procs -> Rows \cup {NoRow}]
      /\ avail \in [Rows -> {0, 1}] /\ pid \in [Rows -> Procs \cup {NoProc}]
      /\ gcRow \in Rows /\ NoProc \notin Procs
  BY TableAssumption DEF SInv, TInv, TypeOK
<1>1. /\ pc[p] = "ready" /\ Goto(p, "closed") /\ avail' = [avail EXCEPT ![row[p]] = 1]
      /\ UNCHANGED <<siVars, pid, sock, fds, port, mainPc, gcPc, gcRow, row, udp>>
  BY DEF KClose, At, daemonVars, gcVars
<1>2. /\ pc'[p] = "closed"
      /\ \A q \in Procs \ {p} : pc'[q] = pc[q]
  BY <1>0, <1>1 DEF Goto
<1>3. /\ row[p] \in Rows /\ pid[row[p]] = p /\ avail'[row[p]] = 1
      /\ \A i \in Rows \ {row[p]} : avail'[i] = avail[i]
  BY <1>0, <1>1 DEF SInv, TInv, RowsPart, Owning, Holding, Opening
<1>4. MeetingPart'
  <2>1. \A q, r \in Procs : pc'[q] \in Opening /\ pc'[r] \in Opening => q = r
    BY <1>2 DEF SInv, MeetingPart, Opening
  <2>2. /\ \A f : NewSocket(f) => NewSocket(f)'
        /\ \A q \in Procs : BindAnswer(q) => BindAnswer(q)'
    BY <1>1 DEF NewSocket, BindAnswer, siVars
  <2>3. \A q \in Procs : \/ pc'[q] = pc[q]
                         \/ pc[q] \notin AtMeeting /\ pc'[q] \notin AtMeeting \cup {"enter"}
    BY <1>1, <1>2 DEF AtMeeting
  <2> QED BY <1>1, <2>1, <2>2, <2>3, MeetingMoves
<1>5. RowsPart'
  <2>1. ASSUME NEW q \in Procs
        PROVE  /\ pc'[q] \in Before => avail'[row'[q]] = 0 /\ pid'[row'[q]] = NoProc
               /\ pc'[q] \in Owning => avail'[row'[q]] = 0 /\ pid'[row'[q]] = q
               /\ pc'[q] \in {"ready", "inside"} => port'[sock'[row'[q]]] = q
    <3>1. CASE q = p
      BY <1>2, <3>1 DEF Owning, Before
    <3>2. CASE q # p
      <4>1. pc'[q] = pc[q]
        BY <1>2, <3>2
      <4>2. pc[q] \in Before \cup Owning => row[q] \in Rows \ {row[p]}
        BY <1>0, <1>3, <3>2 DEF SInv, TInv, RowsPart, Before, Owning, Holding, Opening
      <4> QED BY <1>1, <1>3, <4>1, <4>2 DEF SInv, RowsPart, Owning
    <3> QED BY <3>1, <3>2
  <2>2. ASSUME NEW i \in Rows, pid[i] # NoProc
        PROVE  pc'[pid[i]] \in {"closed", "dead"} \/
                 (pc'[pid[i]] \in Owning /\ row'[pid[i]] = i /\ avail'[i] = 0)
    <3>1. /\ pid[i] \in Procs
          /\ pc[pid[i]] \in {"closed", "dead"} \/
               (pc[pid[i]] \in Owning /\ row[pid[i]] = i /\ avail[i] = 0)
      BY <1>0, <2>2 DEF SInv, RowsPart
    <3>2. CASE pid[i] = p
      BY <1>2, <3>2
    <3>3. CASE pid[i] # p
      BY <1>1, <1>2, <1>3, <3>1, <3>3
    <3> QED BY <3>2, <3>3
  <2>3. gcPc = "closed" => avail'[gcRow] = 1 /\ sock[gcRow] # 0
    BY <1>0, <1>3 DEF SInv, RowsPart
  <2> QED BY <1>1, <2>1, <2>2, <2>3 DEF SInv, RowsPart
<1>6. NoSocketLeaks'
  BY <1>1, <1>2 DEF SInv, NoSocketLeaks, At, siVars
<1> QED BY <1>4, <1>5, <1>6

(* Every operation of a process.                                           *)
LEMMA UserSInv ==
  ASSUME SInv, OneAtATime, NEW p \in Procs, User(p)
  PROVE  MeetingPart' /\ RowsPart' /\ NoSocketLeaks'
BY TakeRowSInv, AskSocketSInv, AwaitSInv, ReadSocketSInv, GiveBackSInv, EnterRowSInv,
   AskBindSInv, PostBindSInv, ReadBindSInv, CallSInv, KCloseSInv DEF User

-----------------------------------------------------------------------------
(* main is serving the one process that has asked.                         *)
LEMMA Served ==
  ASSUME SInv, mainPc = "serve"
  PROVE  \E p \in Procs :
           /\ \A q \in Procs \ {p} : pc[q] \notin Opening
           /\ sem2 = 0 /\ sem1 = 0
           /\ \/ pc[p] = "answer" /\ IsSocketRequest /\ si = ResetSI
              \/ pc[p] = "bindanswer" /\ ~ IsSocketRequest /\ BindRequest(p)
<1>1. PICK p \in Procs : pc[p] \in {"answer", "bindanswer"}
  BY DEF SInv, MeetingPart, Idle
<1>2. \A q \in Procs \ {p} : pc[q] \notin Opening
  BY <1>1 DEF SInv, MeetingPart, Opening
<1>3. CASE pc[p] = "answer"
  BY <1>2, <1>3 DEF SInv, MeetingPart, Asked, Told, IsSocketRequest, ResetSI
<1>4. CASE pc[p] = "bindanswer"
  <2>1. Asked /\ BindRequest(p)
    BY <1>4 DEF SInv, MeetingPart, Told
  <2>2. ~ IsSocketRequest
    BY <2>1, TableAssumption DEF BindRequest, IsSocketRequest, NoPort
  <2> QED BY <1>2, <1>4, <2>1, <2>2 DEF Asked
<1> QED BY <1>1, <1>3, <1>4

LEMMA MainWaitSInv ==
  ASSUME SInv, MainWait
  PROVE  MeetingPart' /\ RowsPart' /\ NoSocketLeaks'
<1>1. /\ mainPc = "wait" /\ mainPc' = "serve" /\ sem1 > 0 /\ sem1' = sem1 - 1
      /\ UNCHANGED <<si, sem2, avail, pid, sock, fds, port, gcPc, gcRow, pc, row, udp>>
  BY DEF MainWait, tableVars, gcVars, userVars
<1>2. sem1 # 0
  BY <1>1
<1>3. PICK p \in Procs : pc[p] \in {"answer", "bindanswer"}
  BY <1>2 DEF SInv, MeetingPart, Idle
<1>4. \A q \in Procs \ {p} : pc[q] \notin Opening
  BY <1>3 DEF SInv, MeetingPart, Opening
<1>5. Asked
  BY <1>2, <1>3 DEF SInv, MeetingPart, Told
<1>6. Asked'
  BY <1>1, <1>5 DEF Asked
<1>7. MeetingPart'
  <2>1. pc[p] = "answer" => si = ResetSI
    BY <1>5 DEF SInv, MeetingPart, Asked, Told
  <2>2. pc[p] = "bindanswer" => BindRequest(p)
    BY <1>5 DEF SInv, MeetingPart, Asked, Told
  <2>3. BindRequest(p) => BindRequest(p)'
    BY <1>1 DEF BindRequest
  <2> QED BY <1>1, <1>3, <1>4, <1>6, <2>1, <2>2, <2>3 DEF MeetingPart, Opening
<1>8. RowsPart' /\ NoSocketLeaks'
  BY <1>1 DEF SInv, RowsPart, NoSocketLeaks, At
<1> QED BY <1>7, <1>8

(* The socket main makes is in no row; the failure leaves all as it is.    *)
LEMMA MakeSocketSInv ==
  ASSUME SInv, MakeSocket
  PROVE  MeetingPart' /\ RowsPart' /\ NoSocketLeaks'
<1>0. /\ fds \subseteq Fds /\ Fds \subseteq Nat \ {0} /\ port \in [Fds -> Ports]
      /\ pid \in [Rows -> Procs \cup {NoProc}] /\ NoProc \notin Procs
      /\ \A q \in Procs : pc[q] \in Holding => row[q] \in Rows
  BY TableAssumption DEF SInv, TInv, TypeOK, Fds
<1>1. /\ mainPc = "serve" /\ mainPc' = "wait" /\ sem2' = sem2 + 1
      /\ UNCHANGED <<sem1, avail, pid, sock, gcPc, gcRow, pc, row, udp>>
  BY DEF MakeSocket, Answered, tableVars, gcVars, userVars
<1>2. \/ si' = [si EXCEPT !.sock = -1] /\ UNCHANGED <<fds, port>>
      \/ \E f \in Fds \ fds : /\ si' = [si EXCEPT !.sock = f]
                              /\ fds' = fds \cup {f} /\ port' = [port EXCEPT ![f] = NoPort]
  BY FreshDescriptor DEF MakeSocket, Answered
<1>3. PICK p \in Procs : /\ \A q \in Procs \ {p} : pc[q] \notin Opening
                         /\ sem2 = 0 /\ sem1 = 0
                         /\ pc[p] = "answer" /\ si = ResetSI
  BY <1>1, Served DEF MakeSocket
<1>4. Told'
  BY <1>1, <1>3 DEF Told
<1>5. si.sock = 0 /\ si.sock \notin fds /\ si'.port = NoPort
  BY <1>0, <1>2, <1>3 DEF ResetSI
<1>6. SocketAnswer' => MeetingPart'
  BY <1>1, <1>3, <1>4 DEF MeetingPart, Opening
<1>7. \A q \in Procs : pc[q] # "enter"
  BY <1>3 DEF Opening
<1>8. CASE si' = [si EXCEPT !.sock = -1] /\ UNCHANGED <<fds, port>>
  <2>1. SocketAnswer'
    BY <1>3, <1>5, <1>8 DEF SocketAnswer, ResetSI
  <2>2. RowsPart'
    BY <1>1, <1>8 DEF SInv, RowsPart
  <2>3. NoSocketLeaks'
    BY <1>1, <1>5, <1>7, <1>8 DEF SInv, NoSocketLeaks, At
  <2> QED BY <1>6, <2>1, <2>2, <2>3
<1>9. ASSUME NEW f \in Fds \ fds, si' = [si EXCEPT !.sock = f],
             fds' = fds \cup {f}, port' = [port EXCEPT ![f] = NoPort]
      PROVE  MeetingPart' /\ RowsPart' /\ NoSocketLeaks'
  <2>1. si'.sock = f /\ port'[f] = NoPort /\ \A g \in fds : port'[g] = port[g]
    BY <1>0, <1>3, <1>9 DEF ResetSI
  <2>2. \A i \in Rows : sock[i] # f
    BY <1>0, <1>9 DEF SInv, RowsPart
  <2>3. SocketAnswer'
    BY <1>1, <1>5, <1>9, <2>1, <2>2 DEF SocketAnswer, NewSocket
  <2>4. ASSUME NEW q \in Procs, pc[q] \in {"ready", "inside"}
        PROVE  port'[sock[row[q]]] = q
    <3>1. row[q] \in Rows /\ pid[row[q]] = q /\ port[sock[row[q]]] = q
      BY <1>0, <2>4 DEF SInv, RowsPart, Owning, Holding
    <3>2. sock[row[q]] \in fds
      BY <1>0, <3>1 DEF SInv, RowsPart
    <3> QED BY <2>1, <3>1, <3>2
  <2>5. RowsPart'
    BY <1>1, <1>9, <2>4 DEF SInv, RowsPart
  <2>6. NoSocketLeaks'
    BY <1>1, <1>5, <1>7, <1>9, <2>1 DEF SInv, NoSocketLeaks, At
  <2> QED BY <1>6, <2>3, <2>5, <2>6
<1> QED BY <1>2, <1>8, <1>9

(* main binds the socket of the row of the process that asked, and no      *)
(* other.                                                                  *)
LEMMA BindSocketSInv ==
  ASSUME SInv, BindSocket
  PROVE  MeetingPart' /\ RowsPart' /\ NoSocketLeaks'
<1>0. /\ fds \subseteq Fds /\ Fds \subseteq Nat \ {0} /\ port \in [Fds -> Ports]
      /\ pid \in [Rows -> Procs \cup {NoProc}] /\ NoProc \notin Procs
      /\ \A q \in Procs : pc[q] \in Holding => row[q] \in Rows
  BY TableAssumption DEF SInv, TInv, TypeOK, Fds
<1>1. /\ mainPc = "serve" /\ mainPc' = "wait" /\ sem2' = sem2 + 1 /\ ~ IsSocketRequest
      /\ UNCHANGED <<sem1, avail, pid, sock, fds, gcPc, gcRow, pc, row, udp>>
  BY DEF BindSocket, Answered, tableVars, gcVars, userVars
<1>2. PICK p \in Procs : /\ \A q \in Procs \ {p} : pc[q] \notin Opening
                         /\ sem2 = 0 /\ sem1 = 0
                         /\ pc[p] = "bindanswer" /\ BindRequest(p)
  BY <1>1, Served
<1>3. /\ si = [sock |-> sock[row[p]], port |-> p] /\ si.sock = sock[row[p]] /\ si.port = p
      /\ p # NoPort /\ row[p] \in Rows /\ pid[row[p]] = p
  BY <1>0, <1>2 DEF BindRequest, NoPort, SInv, RowsPart, Owning, Holding, Opening
<1>4. \/ si' = [si EXCEPT !.sock = -1] /\ port' = port
      \/ /\ si' = [si EXCEPT !.sock = si.sock] /\ si.sock \in fds
         /\ port' = [port EXCEPT ![si.sock] = p]
  BY <1>3 DEF BindSocket, Answered, CanBind
<1>5. Told'
  BY <1>1, <1>2 DEF Told
<1>6. BindAnswer(p)'
  <2>1. CASE si' = [si EXCEPT !.sock = -1] /\ port' = port
    BY <1>3, <2>1 DEF BindAnswer
  <2>2. CASE /\ si' = [si EXCEPT !.sock = si.sock] /\ si.sock \in fds
             /\ port' = [port EXCEPT ![si.sock] = p]
    <3>1. si'.port = p /\ si'.sock = sock[row[p]] /\ port'[si'.sock] = p
      BY <1>0, <1>3, <2>2
    <3> QED BY <1>1, <3>1 DEF BindAnswer
  <2> QED BY <1>4, <2>1, <2>2
<1>7. MeetingPart'
  BY <1>1, <1>2, <1>5, <1>6 DEF MeetingPart, Opening
<1>8. ASSUME NEW q \in Procs, pc[q] \in {"ready", "inside"}
      PROVE  port'[sock[row[q]]] = q
  <2>1. row[q] \in Rows /\ pid[row[q]] = q /\ port[sock[row[q]]] = q
    BY <1>0, <1>8 DEF SInv, RowsPart, Owning, Holding
  <2>2. sock[row[q]] \in fds /\ sock[row[q]] # 0
    BY <1>0, <2>1 DEF SInv, RowsPart
  <2>3. row[q] # row[p]
    BY <1>2, <1>3, <1>8, <2>1
  <2>4. sock[row[q]] # sock[row[p]]
    BY <1>3, <2>1, <2>2, <2>3 DEF SInv, RowsPart
  <2> QED BY <1>0, <1>3, <1>4, <2>1, <2>2, <2>4
<1>9. RowsPart'
  BY <1>1, <1>8 DEF SInv, RowsPart
<1>10. NoSocketLeaks'
  <2>1. si.sock \in {sock[i] : i \in Rows}
    BY <1>3
  <2> QED BY <1>1, <2>1 DEF SInv, NoSocketLeaks, At
<1> QED BY <1>7, <1>9, <1>10

-----------------------------------------------------------------------------
(* Collecting a row that nobody uses: its socket is in no other row and    *)
(* nowhere on its way to one.                                              *)
LEMMA CollectSInv ==
  ASSUME SInv, Collect, pid[gcRow] # NoProc, gcPc' = "look",
         \A q \in Procs : pc[q] \in Before \cup Owning => row[q] # gcRow,
         \A i \in Rows \ {gcRow} : avail'[i] = avail[i],
         UNCHANGED <<siVars, port, mainPc, pc, row, udp>>
  PROVE  MeetingPart' /\ RowsPart' /\ NoSocketLeaks'
<1>0. /\ pid \in [Rows -> Procs \cup {NoProc}] /\ sock \in [Rows -> Fds \cup {0}]
      /\ gcRow \in Rows
      /\ \A q \in Procs : pc[q] \in Holding => row[q] \in Rows
  BY DEF SInv, TInv, TypeOK
<1>1. /\ fds' = fds \ {sock[gcRow]} /\ sock'[gcRow] = 0 /\ pid'[gcRow] = NoProc
      /\ \A i \in Rows \ {gcRow} : sock'[i] = sock[i] /\ pid'[i] = pid[i]
      /\ sock[gcRow] # 0
  BY <1>0 DEF Collect, SInv, RowsPart
<1>2. \A q \in Procs : pc[q] \in Before \cup Owning => row[q] \in Rows \ {gcRow}
  BY <1>0 DEF Before, Owning, Holding, Opening
<1>3. MeetingPart'
  <2>1. \A q, r \in Procs : pc'[q] \in Opening /\ pc'[r] \in Opening => q = r
    BY DEF SInv, MeetingPart
  <2>2. \A f : NewSocket(f) => NewSocket(f)'
    <3> SUFFICES ASSUME NEW f, NewSocket(f) PROVE NewSocket(f)'
      OBVIOUS
    <3>1. f \in fds /\ port[f] = NoPort /\ \A i \in Rows : sock[i] # f
      BY DEF NewSocket
    <3>2. f # 0
      BY <3>1, TableAssumption DEF SInv, TInv, TypeOK, Fds
    <3>3. f \in fds' /\ port'[f] = NoPort /\ \A i \in Rows : sock'[i] # f
      BY <1>0, <1>1, <3>1, <3>2
    <3> QED BY <3>3 DEF NewSocket
  <2>3. \A q \in Procs : pc[q] \in AtMeeting \cup {"enter"} => sock'[row[q]] = sock[row[q]]
    BY <1>1, <1>2 DEF AtMeeting, Before, Owning
  <2>4. \A q \in Procs : pc[q] \in AtMeeting /\ BindAnswer(q) => BindAnswer(q)'
    BY <2>3 DEF BindAnswer, siVars
  <2> QED BY <2>1, <2>2, <2>3, <2>4, MeetingMoves
<1>4. RowsPart'
  <2>1. ASSUME NEW q \in Procs
        PROVE  /\ pc'[q] \in Before => avail'[row'[q]] = 0 /\ pid'[row'[q]] = NoProc
               /\ pc'[q] \in Owning => avail'[row'[q]] = 0 /\ pid'[row'[q]] = q
               /\ pc'[q] \in {"ready", "inside"} => port'[sock'[row'[q]]] = q
    BY <1>1, <1>2 DEF SInv, RowsPart, Owning
  <2>2. ASSUME NEW i \in Rows, pid'[i] # NoProc
        PROVE  pc'[pid'[i]] \in {"closed", "dead"} \/
                 (pc'[pid'[i]] \in Owning /\ row'[pid'[i]] = i /\ avail'[i] = 0)
    BY <1>1, <2>2 DEF SInv, RowsPart
  <2>3. ASSUME NEW i \in Rows
        PROVE  /\ sock'[i] = 0 <=> pid'[i] = NoProc
               /\ sock'[i] # 0 => sock'[i] \in fds'
    BY <1>0, <1>1 DEF SInv, RowsPart
  <2>4. \A i, k \in Rows : sock'[i] = sock'[k] /\ sock'[i] # 0 => i = k
    BY <1>1 DEF SInv, RowsPart
  <2> QED BY <2>1, <2>2, <2>3, <2>4 DEF RowsPart
<1>5. NoSocketLeaks'
  <2> SUFFICES ASSUME NEW f \in fds, f # sock[gcRow]
               PROVE  \/ f \in {sock'[i] : i \in Rows}
                      \/ f = si.sock
                      \/ \E q \in Procs : f = udp[q] /\ pc[q] = "enter"
    BY <1>1 DEF NoSocketLeaks, At, siVars
  <2>1. \/ \E i \in Rows : f = sock[i]
        \/ f = si.sock
        \/ \E q \in Procs : f = udp[q] /\ pc[q] = "enter"
    BY DEF SInv, NoSocketLeaks, At
  <2> QED BY <1>1, <2>1
<1> QED BY <1>3, <1>4, <1>5

(* Garbage_Collector.  What it saw of a closed row is still so when it     *)
(* takes the lock, because nobody takes a row that is not collected.       *)
LEMMA GCSInv ==
  ASSUME SInv, GC
  PROVE  MeetingPart' /\ RowsPart' /\ NoSocketLeaks'
<1>0. /\ pid \in [Rows -> Procs \cup {NoProc}] /\ avail \in [Rows -> {0, 1}]
      /\ gcRow \in Rows
  BY DEF SInv, TInv, TypeOK
<1>1. UNCHANGED <<siVars, port, mainPc, pc, row, udp>>
  BY DEF GC, Look, CollectClosed, CollectDead, daemonVars, userVars
<1>2. CASE UNCHANGED <<avail, pid, sock, fds>> /\
             (gcPc' = "closed" => avail[gcRow'] = 1 /\ sock[gcRow'] # 0)
  <2>1. MeetingPart'
    BY <1>1, <1>2 DEF SInv, MeetingPart, Asked, Told, Idle, SocketAnswer, NewSocket,
       BindRequest, BindAnswer, siVars
  <2>2. RowsPart'
    BY <1>1, <1>2 DEF SInv, RowsPart
  <2>3. NoSocketLeaks'
    BY <1>1, <1>2 DEF SInv, NoSocketLeaks, At, siVars
  <2> QED BY <2>1, <2>2, <2>3
<1>3. CASE Look
  BY <1>2, <1>3 DEF Look, tableVars, daemonVars
<1>4. CASE CollectClosed
  <2>1. /\ Collect /\ avail' = avail /\ gcPc' = "look"
        /\ avail[gcRow] = 1 /\ sock[gcRow] # 0
    BY <1>4 DEF CollectClosed, Resume, SInv, RowsPart
  <2>2. pid[gcRow] # NoProc
    BY <1>0, <2>1 DEF SInv, RowsPart
  <2>3. \A q \in Procs : pc[q] \in Before \cup Owning => row[q] # gcRow
    BY <2>1 DEF SInv, RowsPart
  <2> QED BY <1>1, <2>1, <2>2, <2>3, CollectSInv
<1>5. CASE CollectDead
  <2>1. CASE ~ OwnerDead(gcRow)
    BY <1>2, <1>5, <2>1 DEF CollectDead, Resume
  <2>2. CASE OwnerDead(gcRow)
    <3>1. /\ Collect /\ gcPc' = "look" /\ avail' = [avail EXCEPT ![gcRow] = 1]
          /\ pid[gcRow] # NoProc /\ pc[pid[gcRow]] = "dead"
      BY <1>5, <2>2 DEF CollectDead, Resume, OwnerDead, Gone
    <3>2. \A q \in Procs : pc[q] \in Before \cup Owning => row[q] # gcRow
      BY <3>1 DEF SInv, RowsPart, Owning
    <3>3. \A i \in Rows \ {gcRow} : avail'[i] = avail[i]
      BY <1>0, <3>1
    <3> QED BY <1>1, <3>1, <3>2, <3>3, CollectSInv
  <2> QED BY <2>1, <2>2
<1> QED BY <1>3, <1>4, <1>5 DEF GC

-----------------------------------------------------------------------------
LEMMA InitSInv == Init => SInv
<1> SUFFICES ASSUME Init PROVE MeetingPart /\ RowsPart /\ NoSocketLeaks
  BY InitTInv DEF SInv
<1>1. \A p \in Procs : pc[p] = "start"
  BY DEF Init
<1>2. Idle /\ si = ResetSI
  BY DEF Init, Idle
<1>3. MeetingPart
  BY <1>1, <1>2 DEF MeetingPart, Opening
<1>4. RowsPart
  BY <1>1 DEF Init, RowsPart, Before, Owning
<1> QED BY <1>3, <1>4 DEF Init, NoSocketLeaks

LEMMA NextSInv ==
  ASSUME OneAtATime
  PROVE  SInv /\ [Next]_vars => SInv'
<1> SUFFICES ASSUME SInv, [Next]_vars PROVE MeetingPart' /\ RowsPart' /\ NoSocketLeaks'
  BY NextTInv DEF SInv
<1>1. CASE UNCHANGED vars
  BY <1>1 DEF SInv, MeetingPart, RowsPart, NoSocketLeaks, At, Asked, Told, Idle, SocketAnswer,
     NewSocket, BindRequest, BindAnswer, vars, tableVars, daemonVars, siVars, gcVars, userVars
<1>2. CASE Main
  BY <1>2, MainWaitSInv, MakeSocketSInv, BindSocketSInv DEF Main
<1> QED BY <1>1, <1>2, UserSInv, GCSInv DEF Next

LEMMA SInvAlways ==
  ASSUME OneAtATime
  PROVE  Spec => []SInv
BY InitSInv, NextSInv, PTL DEF Spec

(* The table, SOCK_INFO, main, Garbage_Collector and the processes agree   *)
(* on who has which row and which socket.                                  *)
THEOREM TableAlwaysAgrees ==
  ASSUME OneAtATime
  PROVE  Spec => []TableAgrees
<1>1. SInv => TableAgrees
  BY DEF SInv, TableAgrees
<1> QED BY <1>1, SInvAlways, PTL

(* The row k_socket returned is its caller's, with an open socket that no  *)
(* other row has, for any number of processes and rows.                    *)
THEOREM SocketsAreOpen ==
  ASSUME OneAtATime
  PROVE  Spec => []ReturnedSocketIsOpen
<1>1. SInv => ReturnedSocketIsOpen
  <2> SUFFICES ASSUME SInv, NEW p \in Procs, pc[p] \in Owning
               PROVE  /\ avail[row[p]] = 0 /\ pid[row[p]] = p
                      /\ sock[row[p]] \in fds
                      /\ \A i \in Rows \ {row[p]} : sock[i] # sock[row[p]]
                      /\ \A q \in Procs \ {p} : pc[q] \in Owning => row[q] # row[p]
    BY DEF ReturnedSocketIsOpen
  <2>1. row[p] \in Rows /\ avail[row[p]] = 0 /\ pid[row[p]] = p
    BY DEF SInv, TInv, RowsPart, Owning, Holding, Opening
  <2>2. sock[row[p]] \in fds /\ sock[row[p]] # 0
    BY <2>1, TableAssumption DEF SInv, RowsPart
  <2>3. \A i \in Rows \ {row[p]} : sock[i] # sock[row[p]]
    BY <2>1, <2>2 DEF SInv, RowsPart
  <2>4. \A q \in Procs \ {p} : pc[q] \in Owning => row[q] # row[p]
    BY <2>1 DEF SInv, RowsPart
  <2> QED BY <2>1, <2>2, <2>3, <2>4
<1> QED BY <1>1, SInvAlways, PTL

(* A process whose k_bind returned 0 has the port it asked for.            *)
THEOREM BoundAsAsked ==
  ASSUME OneAtATime
  PROVE  Spec => []BoundToOwnPort
<1>1. SInv => BoundToOwnPort
  BY DEF SInv, RowsPart, BoundToOwnPort
<1> QED BY <1>1, SInvAlways, PTL

(* Every UDP socket the daemon has open is in a row, or on its way to one. *)
THEOREM SocketsNeverLeak ==
  ASSUME OneAtATime
  PROVE  Spec => []NoSocketLeaks
<1>1. SInv => NoSocketLeaks
  BY DEF SInv
<1> QED BY <1>1, SInvAlways, PTL
=============================================================================
