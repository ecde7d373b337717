-------------------------- MODULE TaskQueue_proofs --------------------------
(***************************************************************************)
(* For any number of workers, tasks and entries of clients[]: the types,   *)
(* and that a task is assigned to one client at a time.  IInv says why:    *)
(* the parent's entries never name a task, so that reaping and timing out  *)
(* give nothing back and a handler is born without a task; and what a live *)
(* handler has is assigned to it, so that it is not free for another.      *)
(***************************************************************************)
EXTENDS TaskQueueInv, FiniteSetTheorems, TLAPS

IInv ==
  /\ TypeOK
  /\ client_count = -1 => srv = "undefined"
  /\ \A i \in Slots : clients[i].task = NoTask
  /\ HolderOwnsTask

(* GiveBack keeps the types, and only what is in ts can become free.       *)
LEMMA GiveBackEffect ==
  ASSUME TypeOK, NEW ts, GiveBack(ts)
  PROVE  /\ assigned' \in [Tasks -> BOOLEAN]
         /\ assigned_to' \in [Tasks -> Workers \cup {None}]
         /\ completed' = completed
         /\ \A t \in Tasks \ ts : assigned'[t] = assigned[t]
                                  /\ assigned_to'[t] = assigned_to[t]
<1> DEFINE open == {t \in ts \cap Tasks : ~ completed[t]}
<1>1. /\ assigned' = [t \in Tasks |-> assigned[t] /\ t \notin open]
      /\ assigned_to' = [t \in Tasks |-> IF t \in open THEN None ELSE assigned_to[t]]
      /\ completed' = completed
  BY DEF GiveBack
<1>2. assigned \in [Tasks -> BOOLEAN] /\ assigned_to \in [Tasks -> Workers \cup {None}]
  BY DEF TypeOK
<1>3. open \subseteq ts
  OBVIOUS
<1> HIDE DEF open
<1>4. assigned' \in [Tasks -> BOOLEAN]
  BY <1>1, <1>2
<1>5. assigned_to' \in [Tasks -> Workers \cup {None}]
  BY <1>1, <1>2
<1>6. ASSUME NEW t \in Tasks \ ts
      PROVE  assigned'[t] = assigned[t] /\ assigned_to'[t] = assigned_to[t]
  <2>1. t \notin open
    BY <1>3, <1>6
  <2>2. assigned[t] \in BOOLEAN
    BY <1>2, <1>6
  <2> QED
    BY <1>1, <1>6, <2>1, <2>2, Zenon
<1> QED
  BY <1>1, <1>4, <1>5, <1>6

(* Remove keeps the shape of clients[], and since no entry names a task it *)
(* leaves tasks[] as it is.                                                *)
LEMMA RemoveEffect ==
  ASSUME IInv, NEW gone \in SUBSET Listed, Remove(gone)
  PROVE  /\ clients' \in [Slots -> Entry]
         /\ \A i \in Slots : clients'[i].task = NoTask
         /\ client_count' \in 0 .. MAX_CLIENTS
         /\ fds' \subseteq fds
         /\ assigned' = assigned /\ assigned_to' = assigned_to
         /\ completed' = completed
<1>1. /\ clients \in [Slots -> Entry] /\ \A i \in Slots : clients[i].task = NoTask
      /\ client_count \in -1 .. MAX_CLIENTS
      /\ assigned \in [Tasks -> BOOLEAN]
      /\ assigned_to \in [Tasks -> Workers \cup {None}]
  BY DEF IInv, TypeOK
<1>2. Listed \subseteq Slots /\ MAX_CLIENTS \in Nat
  BY <1>1, QueueAssumption DEF Listed, Slots
<1> DEFINE src(i) == IF Kept(gone, i) # {} THEN CHOOSE k \in Kept(gone, i) : TRUE
                     ELSE IF i \in Listed THEN client_count ELSE i
<1>3. ASSUME NEW i \in Slots PROVE src(i) \in Slots
  <2>1. Kept(gone, i) \subseteq Slots
    BY <1>2 DEF Kept
  <2>2. i \in Listed => client_count \in Slots
    BY <1>1, <1>2 DEF Listed, Slots
  <2> QED
    BY <2>1, <2>2
<1>4. clients' = [i \in Slots |-> clients[src(i)]]
  BY DEF Remove
<1> HIDE DEF src
<1>5. clients' \in [Slots -> Entry] /\ \A i \in Slots : clients'[i].task = NoTask
  BY <1>1, <1>3, <1>4
<1>6. client_count' \in 0 .. MAX_CLIENTS
  <2>1. IsFiniteSet(Slots) /\ Cardinality(Slots) = MAX_CLIENTS
    BY <1>2, FS_Interval DEF Slots
  <2>2. Listed \ gone \subseteq Slots
    BY <1>2
  <2>3. /\ IsFiniteSet(Listed \ gone)
        /\ Cardinality(Listed \ gone) <= Cardinality(Slots)
    BY <2>1, <2>2, FS_Subset
  <2>4. Cardinality(Listed \ gone) \in Nat
    BY <2>3, FS_CardinalityType
  <2> QED
    BY <1>2, <2>1, <2>3, <2>4 DEF Remove
<1>7. fds' \subseteq fds
  BY DEF Remove
<1> DEFINE ts == {clients[i].task : i \in gone}
<1>8. GiveBack(ts)
  BY DEF Remove
<1>9. ts \cap Tasks = {}
  BY <1>1, <1>2 DEF NoTask, Tasks
<1>10. /\ assigned' = [t \in Tasks |-> assigned[t]]
       /\ assigned_to' = [t \in Tasks |-> assigned_to[t]]
       /\ completed' = completed
  <2> HIDE DEF ts
  <2>1. {t \in ts \cap Tasks : ~ completed[t]} = {}
    BY <1>9
  <2>2. /\ assigned' = [t \in Tasks |-> assigned[t] /\ t \notin {}]
        /\ assigned_to' = [t \in Tasks |-> IF t \in {} THEN None ELSE assigned_to[t]]
        /\ completed' = completed
    BY <1>8, <2>1 DEF GiveBack
  <2>3. \A t \in Tasks : (assigned[t] /\ t \notin {}) = assigned[t]
    BY <1>1
  <2> QED
    BY <2>2, <2>3
<1>11. assigned' = assigned /\ assigned_to' = assigned_to
  BY <1>1, <1>10
<1> QED
  BY <1>5, <1>6, <1>7, <1>10, <1>11

THEOREM InitIInv == Init => IInv
<1> SUFFICES ASSUME Init PROVE IInv
  OBVIOUS
<1>1. MAX_CLIENTS \in Nat
  BY QueueAssumption
<1>2. TypeOK
  <2>1. /\ client_count \in -1 .. MAX_CLIENTS /\ client_idx \in 0 .. MAX_CLIENTS
    BY <1>1 DEF Init
  <2>2. clients \in [Slots -> Entry]
    BY DEF Init, Entry
  <2>3. /\ assigned \in [Tasks -> BOOLEAN] /\ completed \in [Tasks -> BOOLEAN]
        /\ assigned_to \in [Tasks -> Workers \cup {None}]
        /\ child \in [Workers -> ChildStates]
        /\ task_id \in [Workers -> {NoTask} \cup Tasks]
    BY DEF Init, ChildStates
  <2> QED
    BY <2>1, <2>2, <2>3 DEF Init, TypeOK, SrvStates, Sections
<1>3. \A i \in Slots : clients[i].task = NoTask
  BY DEF Init
<1>4. HolderOwnsTask
  BY DEF Init, HolderOwnsTask, Live
<1> QED
  BY <1>2, <1>3, <1>4 DEF IInv, Init

-----------------------------------------------------------------------------
(* Actions that leave tasks[] alone keep HolderOwnsTask when no handler    *)
(* comes to life with a task.                                              *)
LEMMA OwnershipKept ==
  ASSUME HolderOwnsTask, UNCHANGED taskVars,
         \A w \in Workers : Live(w)' /\ task_id'[w] # NoTask =>
                              Live(w) /\ task_id'[w] = task_id[w]
  PROVE  HolderOwnsTask'
BY DEF HolderOwnsTask, taskVars

LEMMA MainStep == IInv /\ Main => IInv'
<1> SUFFICES ASSUME IInv, Main PROVE IInv'
  OBVIOUS
<1> USE DEF IInv
<1>0. MAX_CLIENTS \in Nat \ {0}
  BY QueueAssumption
<1>1. CASE Lock
  BY <1>1 DEF Lock, TypeOK, taskVars, listVars, sigVars, childVars, netVars,
              HolderOwnsTask, Live
<1>2. CASE LockInterrupted
  BY <1>2 DEF LockInterrupted, TypeOK, taskVars, listVars, sigVars, childVars,
              netVars, HolderOwnsTask, Live, SrvStates, Stopped, Sections
<1>3. CASE CheckTimeouts
  <2>1. PICK idle \in SUBSET Listed :
          LET victims == {clients[i].pid_handler : i \in idle} \cap Workers
              dying   == {w \in victims : Live(w)}
          IN  /\ Remove(idle)
              /\ child' = [w \in Workers |-> IF w \in dying THEN "zombie" ELSE child[w]]
              /\ killed' = killed \cup dying
              /\ sig' = (sig \/ dying # {})
              /\ HangUp(dying)
    BY <1>3 DEF CheckTimeouts
  <2> DEFINE dying == {w \in {clients[i].pid_handler : i \in idle} \cap Workers : Live(w)}
  <2>2. /\ child' = [w \in Workers |-> IF w \in dying THEN "zombie" ELSE child[w]]
        /\ killed' = killed \cup dying /\ sig' = (sig \/ dying # {})
        /\ HangUp(dying)
        /\ Remove(idle)
    BY <2>1, Zenon
  <2>3. dying \subseteq Workers
    OBVIOUS
  <2> HIDE DEF dying
  <2>4. /\ clients' \in [Slots -> Entry] /\ \A i \in Slots : clients'[i].task = NoTask
        /\ client_count' \in 0 .. MAX_CLIENTS /\ fds' \subseteq fds
        /\ assigned' = assigned /\ assigned_to' = assigned_to /\ completed' = completed
    BY <2>2, RemoveEffect
  <2>5. srv' = "checked" /\ UNCHANGED <<held, accepted, client_idx, task_id, sigVars>>
    BY <1>3 DEF CheckTimeouts
  <2>6. child' \in [Workers -> ChildStates] /\ killed' \subseteq Workers
        /\ sig' \in BOOLEAN
    BY <2>2, <2>3 DEF TypeOK, ChildStates
  <2>7. /\ wk' \in [Workers -> {"out", "idle", "wait", "working", "fin", "rst"}]
        /\ req' \in [Workers -> {"none", "get", "result", "exit"}]
        /\ resp' \in [Workers -> {"none", "task", "notask", "ok", "error"}]
    BY <2>2 DEF HangUp, TypeOK
  <2>8. TypeOK'
    BY <2>4, <2>5, <2>6, <2>7 DEF TypeOK, sigVars, SrvStates
  <2>9. HolderOwnsTask'
    <3>1. \A w \in Workers : Live(w)' => Live(w)
      BY <2>2 DEF Live
    <3> QED
      BY <2>4, <2>5, <3>1, OwnershipKept DEF taskVars
  <2> QED
    BY <2>4, <2>5, <2>8, <2>9
<1>4. CASE UnlockChecked
  BY <1>4 DEF UnlockChecked, Inside, Running, TypeOK, taskVars, listVars, sigVars,
              childVars, netVars, HolderOwnsTask, Live, SrvStates, Sections
<1>5. CASE CountTasks
  BY <1>5 DEF CountTasks, Inside, Running, TypeOK, taskVars, listVars, sigVars,
              childVars, netVars, HolderOwnsTask, Live, SrvStates, Sections, Stopped
<1>6. CASE Accept
  <2>1. PICK w \in Workers : /\ accepted' = w
                             /\ fds' = fds \cup {w}
                             /\ child' = [child EXCEPT ![w] = "unborn"]
    BY <1>6 DEF Accept
  <2>2. /\ srv' = "register" /\ srv = "accept"
        /\ UNCHANGED <<held, client_idx, taskVars, listVars, sigVars, task_id,
                       killed, sig, netVars>>
    BY <1>6 DEF Accept, Running
  <2>3. TypeOK'
    BY <2>1, <2>2 DEF TypeOK, taskVars, listVars, sigVars, netVars, SrvStates,
                      Sections, ChildStates
  <2>4. HolderOwnsTask'
    BY <2>1, <2>2, OwnershipKept DEF taskVars, Live, TypeOK
  <2> QED
    BY <2>2, <2>3, <2>4 DEF listVars
<1>7. CASE Register
  <2>1. CASE client_count < MAX_CLIENTS
    <3>1. /\ NewEntry(client_count + 1)
          /\ srv = "register" /\ held' = FALSE
          /\ UNCHANGED <<accepted, fds, child, netVars, taskVars, sigVars, task_id,
                         killed, sig>>
      BY <1>7, <2>1 DEF Register, Inside, Running
    <3>2. client_count + 1 \in Slots
      BY <2>1, <1>0, <3>1 DEF TypeOK, Slots
    <3>3. /\ clients' \in [Slots -> Entry]
          /\ \A i \in Slots : clients'[i].task = NoTask
      BY <3>1, <3>2 DEF NewEntry, TypeOK, Entry
    <3>4. /\ client_count' \in -1 .. MAX_CLIENTS /\ client_idx' \in 0 .. MAX_CLIENTS
          /\ client_count' # -1
      BY <1>0, <3>1, <3>2 DEF NewEntry, Slots
    <3>6. TypeOK'
      BY <3>1, <3>3, <3>4 DEF NewEntry, TypeOK, taskVars, sigVars, netVars, SrvStates
    <3>5. HolderOwnsTask'
      BY <3>1, OwnershipKept DEF Live
    <3> QED
      BY <3>3, <3>4, <3>5, <3>6
  <2>2. CASE ~ client_count < MAX_CLIENTS
    <3>1. /\ Refuse /\ srv' = "check" /\ EndOfBody /\ held' = FALSE
          /\ UNCHANGED <<listVars, taskVars, sigVars, task_id, killed, sig>>
      BY <1>7, <2>2 DEF Register
    <3>4. client_idx' \in 0 .. MAX_CLIENTS /\ accepted' \in Workers \cup {None}
      BY <1>0, <3>1 DEF EndOfBody
    <3>5. child' \in [Workers -> ChildStates] /\ fds' \subseteq Workers
      BY <3>1 DEF Refuse, TypeOK, ChildStates
    <3>2. TypeOK'
      BY <3>1, <3>4, <3>5 DEF Refuse, HangUp, TypeOK, listVars, taskVars, sigVars,
                              SrvStates, Sections
    <3>3. HolderOwnsTask'
      BY <3>1, OwnershipKept DEF Refuse, Live, TypeOK
    <3> QED
      BY <1>0, <2>2, <3>1, <3>2, <3>3 DEF listVars, TypeOK
  <2> QED
    BY <2>1, <2>2
<1>8. CASE Fork
  <2>1. \/ task_id' = [task_id EXCEPT ![accepted] = NoTask]
        \/ \E i \in Listed : task_id' = [task_id EXCEPT ![accepted] = clients[i].task]
    BY <1>8 DEF Fork
  <2>2. /\ \/ child' = [child EXCEPT ![accepted] = "live"] /\ UNCHANGED netVars
           \/ child' = [child EXCEPT ![accepted] = "adrift"] /\ HangUp({accepted})
        /\ srv' = "record"
        /\ srv = "fork"
        /\ UNCHANGED <<held, accepted, client_idx, taskVars, listVars, fds, sigVars,
                       killed, sig>>
    BY <1>8 DEF Fork, Running
  <2>3. Listed \subseteq Slots
    BY <1>0 DEF Listed, Slots, TypeOK
  <2>4. task_id' = [task_id EXCEPT ![accepted] = NoTask]
    BY <2>1, <2>3
  <2>7. child' \in [Workers -> ChildStates]
    BY <2>2 DEF TypeOK, ChildStates
  <2>8. /\ wk' \in [Workers -> {"out", "idle", "wait", "working", "fin", "rst"}]
        /\ req' \in [Workers -> {"none", "get", "result", "exit"}]
        /\ resp' \in [Workers -> {"none", "task", "notask", "ok", "error"}]
    BY <2>2 DEF TypeOK, HangUp, netVars
  <2>5. TypeOK'
    BY <2>2, <2>4, <2>7, <2>8 DEF TypeOK, taskVars, listVars, sigVars, SrvStates,
                                  Sections
  <2>6. HolderOwnsTask'
    BY <2>2, <2>4, OwnershipKept DEF Live, TypeOK
  <2> QED
    BY <2>2, <2>5, <2>6 DEF listVars
<1>9. CASE ForkFails
  <2>1. /\ Refuse /\ srv = "fork" /\ srv' = "unregister"
        /\ UNCHANGED <<held, accepted, client_idx, taskVars, listVars, sigVars,
                       task_id, killed, sig>>
    BY <1>9 DEF ForkFails, Running
  <2>2. TypeOK'
    BY <2>1 DEF Refuse, HangUp, TypeOK, listVars, taskVars, sigVars, SrvStates,
                Sections, ChildStates
  <2>3. HolderOwnsTask'
    BY <2>1, OwnershipKept DEF Refuse, Live, TypeOK
  <2> QED
    BY <2>1, <2>2, <2>3 DEF listVars
<1>10. CASE Unregister
  <2>1. /\ srv = "unregister" /\ held' = FALSE /\ EndOfBody
        /\ client_count' = client_count - 1
        /\ srv' = IF client_count = 0 THEN "undefined" ELSE "check"
        /\ UNCHANGED <<clients, taskVars, fds, sigVars, childVars, netVars>>
    BY <1>10 DEF Unregister, Inside, Running
  <2>2. client_count \in 0 .. MAX_CLIENTS
    BY <1>0, <2>1 DEF TypeOK
  <2>5. /\ client_count' \in -1 .. MAX_CLIENTS /\ client_idx' \in 0 .. MAX_CLIENTS
        /\ accepted' \in Workers \cup {None} /\ srv' \in SrvStates
    BY <1>0, <2>1, <2>2 DEF EndOfBody, SrvStates, Sections, Stopped
  <2>3. TypeOK'
    BY <2>1, <2>5 DEF TypeOK, taskVars, sigVars, childVars, netVars
  <2>4. HolderOwnsTask'
    BY <2>1, OwnershipKept DEF Live, childVars
  <2> QED
    BY <2>1, <2>2, <2>3, <2>4
<1>11. CASE Record
  <2>1. /\ clients' = [clients EXCEPT ![client_idx].pid_handler = accepted]
        /\ held' = FALSE /\ srv' = "check" /\ srv = "record" /\ EndOfBody
        /\ UNCHANGED <<client_count, taskVars, fds, sigVars, childVars, netVars>>
    BY <1>11 DEF Record, Inside, Running
  <2>2. /\ clients' \in [Slots -> Entry]
        /\ \A i \in Slots : clients'[i].task = NoTask
    <3>1. clients \in [Slots -> Entry] /\ accepted \in Workers \cup {None}
      BY DEF TypeOK
    <3>2. ASSUME NEW i \in Slots
          PROVE  clients'[i] \in Entry /\ clients'[i].task = NoTask
      <4>1. CASE i = client_idx
        <5>1. clients'[i] = [clients[i] EXCEPT !.pid_handler = accepted]
          BY <2>1, <3>1, <4>1
        <5> QED
          BY <3>1, <5>1 DEF Entry
      <4>2. CASE i # client_idx
        BY <2>1, <3>1, <4>2
      <4> QED
        BY <4>1, <4>2
    <3>3. clients' = [i \in Slots |-> clients'[i]]
      BY <2>1, <3>1
    <3> QED
      BY <3>2, <3>3
  <2>5. /\ client_idx' \in 0 .. MAX_CLIENTS /\ accepted' \in Workers \cup {None}
        /\ srv' \in SrvStates
    BY <1>0, <2>1 DEF EndOfBody, SrvStates, Sections
  <2>3. TypeOK'
    BY <2>1, <2>2, <2>5 DEF TypeOK, taskVars, sigVars, childVars, netVars
  <2>4. HolderOwnsTask'
    BY <2>1, OwnershipKept DEF Live, childVars
  <2> QED
    BY <2>1, <2>2, <2>3, <2>4
<1> QED
  BY <1>1, <1>2, <1>3, <1>4, <1>5, <1>6, <1>7, <1>8, <1>9, <1>10, <1>11 DEF Main

LEMMA HandlerStep == IInv /\ Handler => IInv'
<1> SUFFICES ASSUME IInv, Handler PROVE IInv'
  OBVIOUS
<1> USE DEF IInv
<1>1. CASE SigChld
  BY <1>1 DEF SigChld, TypeOK, taskVars, listVars, mainVars, netVars,
              HolderOwnsTask, Live
<1>2. CASE WaitPid
  <2>1. /\ child' \in [Workers -> ChildStates]
        /\ hpid' \in Workers \cup {None} /\ hpc' \in {"out", "wait", "lock"}
        /\ \A w \in Workers : Live(w)' => Live(w)
        /\ UNCHANGED <<taskVars, listVars, mainVars, fds, exposed, task_id, killed,
                       sig, netVars>>
    BY <1>2 DEF WaitPid, TypeOK, ChildStates, Live
  <2>2. TypeOK'
    BY <2>1 DEF TypeOK, taskVars, listVars, mainVars, netVars
  <2>3. HolderOwnsTask'
    BY <2>1, OwnershipKept
  <2> QED
    BY <2>1, <2>2, <2>3 DEF listVars, mainVars
<1>3. CASE Forget
  <2>1. /\ hpc' = "wait" /\ hpid' = None
        /\ UNCHANGED <<mainVars, exposed, childVars, netVars>>
    BY <1>3 DEF Forget, Again
  <2>2. CASE UNCHANGED <<listVars, fds, taskVars>>
    BY <2>1, <2>2 DEF TypeOK, taskVars, listVars, mainVars, childVars, netVars,
                      HolderOwnsTask, Live
  <2>3. ASSUME NEW i \in Listed, Remove({i}) PROVE IInv'
    <3>1. /\ clients' \in [Slots -> Entry] /\ \A k \in Slots : clients'[k].task = NoTask
          /\ client_count' \in 0 .. MAX_CLIENTS /\ fds' \subseteq fds
          /\ assigned' = assigned /\ assigned_to' = assigned_to
          /\ completed' = completed
      BY <2>3, RemoveEffect
    <3>2. TypeOK'
      BY <2>1, <3>1 DEF TypeOK, mainVars, childVars, netVars
    <3>3. HolderOwnsTask'
      BY <2>1, <3>1, OwnershipKept DEF taskVars, childVars, Live
    <3> QED
      BY <3>1, <3>2, <3>3
  <2> QED
    BY <1>3, <2>2, <2>3 DEF Forget
<1> QED
  BY <1>1, <1>2, <1>3 DEF Handler

LEMMA HandleClientStep ==
  ASSUME IInv, NEW w \in Workers, HandleClient(w)
  PROVE  IInv'
<1> USE DEF IInv
<1>0. Tasks \subseteq Int /\ NoTask \notin Tasks
  BY DEF Tasks, NoTask
<1>1. CASE ServeGetTask(w)
  <2>0. /\ UNCHANGED <<completed, listVars, mainVars, fds, sigVars, child, killed, sig>>
        /\ wk' = wk
        /\ req' = [req EXCEPT ![w] = "none"]
        /\ resp' \in [Workers -> {"none", "task", "notask", "ok", "error"}]
    BY <1>1 DEF ServeGetTask, Answer, TypeOK
  <2>1. CASE UNCHANGED <<assigned, assigned_to, task_id>>
    <3>1. TypeOK'
      BY <2>0, <2>1 DEF TypeOK, listVars, mainVars, sigVars
    <3>2. HolderOwnsTask'
      BY <2>0, <2>1, OwnershipKept DEF taskVars, Live
    <3> QED
      BY <2>0, <3>1, <3>2 DEF listVars, mainVars
  <2>2. ASSUME task_id[w] = NoTask, NEW t \in Tasks, Free(t),
               assigned' = [assigned EXCEPT ![t] = TRUE],
               assigned_to' = [assigned_to EXCEPT ![t] = w],
               task_id' = [task_id EXCEPT ![w] = t]
        PROVE  IInv'
    <3>1. TypeOK'
      BY <2>0, <2>2 DEF TypeOK, listVars, mainVars, sigVars
    <3>2. ASSUME NEW v \in Workers, Live(v)', task_id'[v] # NoTask
          PROVE  /\ assigned'[task_id'[v]] /\ ~ completed'[task_id'[v]]
                 /\ assigned_to'[task_id'[v]] = v
      <4>1. CASE v = w
        BY <2>0, <2>2, <4>1 DEF TypeOK, Free
      <4>2. CASE v # w
        <5>1. Live(v) /\ task_id'[v] = task_id[v] /\ task_id[v] \in Tasks
          BY <2>0, <2>2, <3>2, <4>2 DEF Live, TypeOK
        <5>2. /\ assigned[task_id[v]] /\ ~ completed[task_id[v]]
              /\ assigned_to[task_id[v]] = v
          BY <3>2, <5>1 DEF HolderOwnsTask
        <5>3. task_id[v] # t
          BY <2>2, <5>2 DEF Free
        <5> QED
          BY <2>0, <2>2, <5>1, <5>2, <5>3 DEF TypeOK
      <4> QED
        BY <4>1, <4>2
    <3> QED
      BY <2>0, <3>1, <3>2 DEF HolderOwnsTask, listVars, mainVars
  <2> QED
    BY <1>1, <2>1, <2>2 DEF ServeGetTask
<1>2. CASE ServeResult(w)
  <2>0. /\ UNCHANGED <<assigned, assigned_to, listVars, mainVars, fds, sigVars,
                       child, killed, sig>>
        /\ wk' = wk
        /\ req' = [req EXCEPT ![w] = "none"]
        /\ resp' \in [Workers -> {"none", "task", "notask", "ok", "error"}]
    BY <1>2 DEF ServeResult, Answer, TypeOK
  <2>1. CASE UNCHANGED <<completed, task_id>>
    <3>1. TypeOK'
      BY <2>0, <2>1 DEF TypeOK, listVars, mainVars, sigVars
    <3>2. HolderOwnsTask'
      BY <2>0, <2>1, OwnershipKept DEF taskVars, Live
    <3> QED
      BY <2>0, <3>1, <3>2 DEF listVars, mainVars
  <2>2. ASSUME task_id[w] # NoTask,
               completed' = [completed EXCEPT ![task_id[w]] = TRUE],
               task_id' = [task_id EXCEPT ![w] = NoTask]
        PROVE  IInv'
    <3>1. TypeOK'
      BY <2>0, <2>2 DEF TypeOK, listVars, mainVars, sigVars
    <3>2. ASSUME NEW v \in Workers, Live(v)', task_id'[v] # NoTask
          PROVE  /\ assigned'[task_id'[v]] /\ ~ completed'[task_id'[v]]
                 /\ assigned_to'[task_id'[v]] = v
      <4>1. v # w /\ Live(v) /\ task_id'[v] = task_id[v] /\ task_id[v] \in Tasks
        BY <2>0, <2>2, <3>2 DEF Live, TypeOK
      <4>2. /\ assigned[task_id[v]] /\ ~ completed[task_id[v]]
            /\ assigned_to[task_id[v]] = v
        BY <3>2, <4>1 DEF HolderOwnsTask
      <4>3. Live(w) /\ assigned_to[task_id[w]] = w
        BY <1>2, <2>2 DEF ServeResult, Serve, HolderOwnsTask, Live
      <4>4. task_id[v] # task_id[w]
        BY <4>1, <4>2, <4>3
      <4> QED
        BY <2>0, <2>2, <4>1, <4>2, <4>4 DEF TypeOK
    <3> QED
      BY <2>0, <3>1, <3>2 DEF HolderOwnsTask, listVars, mainVars
  <2> QED
    BY <1>2, <2>1, <2>2 DEF ServeResult
<1>3. CASE ServeExit(w)
  <2>1. /\ Live(w) /\ GiveBack({task_id[w]}) /\ HangUp({w})
        /\ child' = [child EXCEPT ![w] = "zombie"] /\ sig' = TRUE
        /\ killed' = killed
        /\ task_id' = [task_id EXCEPT ![w] = NoTask]
        /\ UNCHANGED <<listVars, mainVars, fds, sigVars>>
    BY <1>3 DEF ServeExit, LeavesReturning, Ends, Serve, Live
  <2>2. /\ assigned' \in [Tasks -> BOOLEAN]
        /\ assigned_to' \in [Tasks -> Workers \cup {None}]
        /\ completed' = completed
        /\ \A t \in Tasks \ {task_id[w]} : assigned'[t] = assigned[t]
                                           /\ assigned_to'[t] = assigned_to[t]
    BY <2>1, GiveBackEffect
  <2>3. TypeOK'
    BY <2>1, <2>2 DEF TypeOK, HangUp, listVars, mainVars, sigVars, ChildStates
  <2>4. ASSUME NEW v \in Workers, Live(v)', task_id'[v] # NoTask
        PROVE  /\ assigned'[task_id'[v]] /\ ~ completed'[task_id'[v]]
               /\ assigned_to'[task_id'[v]] = v
    <3>1. v # w /\ Live(v) /\ task_id'[v] = task_id[v] /\ task_id[v] \in Tasks
      BY <2>1, <2>4 DEF Live, TypeOK
    <3>2. /\ assigned[task_id[v]] /\ ~ completed[task_id[v]]
          /\ assigned_to[task_id[v]] = v
      BY <2>4, <3>1 DEF HolderOwnsTask
    <3>3. task_id[v] # task_id[w]
      BY <2>1, <3>1, <3>2, <1>0 DEF HolderOwnsTask
    <3> QED
      BY <2>2, <3>1, <3>2, <3>3
  <2> QED
    BY <2>1, <2>3, <2>4 DEF HolderOwnsTask, listVars, mainVars
<1>4. CASE Fails(w)
  <2>1. /\ HangUp({w}) /\ child' = [child EXCEPT ![w] = "zombie"] /\ sig' = TRUE
        /\ killed' = killed \cup {w}
        /\ UNCHANGED <<taskVars, listVars, mainVars, fds, sigVars, task_id>>
    BY <1>4 DEF Fails, Ends
  <2>2. TypeOK'
    BY <2>1 DEF TypeOK, HangUp, taskVars, listVars, mainVars, sigVars, ChildStates
  <2>3. HolderOwnsTask'
    BY <2>1, OwnershipKept DEF Live, TypeOK
  <2> QED
    BY <2>1, <2>2, <2>3 DEF listVars, mainVars
<1> QED
  BY <1>1, <1>2, <1>3, <1>4 DEF HandleClient

LEMMA WorkerStep ==
  ASSUME IInv, NEW w \in Workers, WorkerClient(w)
  PROVE  IInv'
<1> USE DEF IInv
<1>1. Worker(w)
  BY DEF WorkerClient, Connect, AskTask, SendResult, Receive, Misparse, Leave, Sends
<1>2. /\ wk' \in [Workers -> {"out", "idle", "wait", "working", "fin", "rst"}]
      /\ req' \in [Workers -> {"none", "get", "result", "exit"}]
      /\ resp' \in [Workers -> {"none", "task", "notask", "ok", "error"}]
  BY DEF WorkerClient, Connect, AskTask, SendResult, Receive, Misparse, Leave, Sends,
         Goto, TypeOK
<1>3. TypeOK'
  BY <1>1, <1>2 DEF Worker, TypeOK, taskVars, listVars, mainVars, sigVars, childVars
<1>4. HolderOwnsTask'
  BY <1>1, OwnershipKept DEF Worker, Live, childVars
<1> QED
  BY <1>1, <1>3, <1>4 DEF Worker, listVars, mainVars

LEMMA NextIInv == IInv /\ [Next]_vars => IInv'
<1> SUFFICES ASSUME IInv, [Next]_vars PROVE IInv'
  OBVIOUS
<1>1. CASE Main
  BY <1>1, MainStep
<1>2. CASE Handler
  BY <1>2, HandlerStep
<1>3. ASSUME NEW w \in Workers, HandleClient(w) \/ WorkerClient(w) PROVE IInv'
  BY <1>3, HandleClientStep, WorkerStep
<1>4. CASE UNCHANGED vars
  BY <1>4 DEF vars, IInv, TypeOK, taskVars, listVars, mainVars, sigVars, childVars,
              netVars, HolderOwnsTask, Live
<1> QED
  BY <1>1, <1>2, <1>3, <1>4 DEF Next

(* The types hold for every number of workers, tasks and entries: in       *)
(* particular client_count never exceeds MAX_CLIENTS.                      *)
THEOREM TypeCorrect == Spec => []TypeOK
<1>1. IInv => TypeOK
  BY DEF IInv
<1> QED
  BY <1>1, InitIInv, NextIInv, PTL DEF Spec

(* A task is assigned to one client at a time, through handlers that die,  *)
(* are killed or give their task back, and SIGCHLD at any moment.          *)
THEOREM TaskAssignedOnce == Spec => []HolderOwnsTask
<1>1. IInv => HolderOwnsTask
  BY DEF IInv
<1> QED
  BY <1>1, InitIInv, NextIInv, PTL DEF Spec

-----------------------------------------------------------------------------
(* The invariant of TaskQueueInv is inductive too, and what the runs check *)
(* of clients[], of the handlers and of their tasks follows from it.       *)

(* Removing entries moves the others down without changing their order.    *)

(* The place of entry k when those of gone are removed.                    *)
Place(gone, k) == Cardinality((1 .. k) \ gone)

LEMMA PlaceFacts ==
  ASSUME NEW n \in Int, NEW gone \in SUBSET (1 .. n)
  PROVE  /\ IsFiniteSet((1 .. n) \ gone) /\ Cardinality((1 .. n) \ gone) \in Nat
         /\ \A k \in (1 .. n) \ gone :
              Place(gone, k) \in 1 .. Cardinality((1 .. n) \ gone)
         /\ \A k, l \in (1 .. n) \ gone : Place(gone, k) = Place(gone, l) => k = l
         /\ \A i \in 1 .. Cardinality((1 .. n) \ gone) :
              \E k \in (1 .. n) \ gone : Place(gone, k) = i
<1> DEFINE S == (1 .. n) \ gone
           m == Cardinality(S)
<1>1. IsFiniteSet(S) /\ m \in Nat
  <2>1. IsFiniteSet(1 .. n)
    BY FS_Interval
  <2>2. IsFiniteSet(S)
    BY <2>1, FS_Subset
  <2> QED BY <2>2, FS_CardinalityType
<1>2. ASSUME NEW k \in S
      PROVE  /\ IsFiniteSet((1 .. k) \ gone) /\ (1 .. k) \ gone \subseteq S
             /\ Place(gone, k) \in 1 .. m
  <2>1. (1 .. k) \ gone \in SUBSET S /\ k \in (1 .. k) \ gone
    OBVIOUS
  <2>2. IsFiniteSet((1 .. k) \ gone) /\ Place(gone, k) <= m
    BY <1>1, <2>1, FS_Subset DEF Place
  <2>3. Place(gone, k) \in Nat
    BY <2>2, FS_CardinalityType DEF Place
  <2>4. Place(gone, k) # 0
    BY <2>1, <2>2, FS_EmptySet DEF Place
  <2> QED BY <1>1, <2>1, <2>2, <2>3, <2>4
<1>3. ASSUME NEW k \in S, NEW l \in S, k < l
      PROVE  Place(gone, k) # Place(gone, l)
  <2>1. (1 .. k) \ gone \in SUBSET ((1 .. l) \ gone)
    BY <1>3
  <2>2. l \in (1 .. l) \ gone /\ l \notin (1 .. k) \ gone
    BY <1>3
  <2>3. IsFiniteSet((1 .. l) \ gone)
    BY <1>2
  <2> QED BY <2>1, <2>2, <2>3, FS_Subset DEF Place
<1>4. ASSUME NEW k \in S, NEW l \in S, Place(gone, k) = Place(gone, l)
      PROVE  k = l
  <2>1. k \in Int /\ l \in Int
    OBVIOUS
  <2>2. ~ (k < l) /\ ~ (l < k)
    BY <1>3, <1>4
  <2> QED BY <2>1, <2>2
<1>5. ASSUME NEW i \in 1 .. m PROVE \E k \in S : Place(gone, k) = i
  <2> DEFINE f == [k \in S |-> Place(gone, k)]
  <2>1. f \in Injection(S, 1 .. m)
    <3>1. f \in [S -> 1 .. m]
      BY <1>2
    <3>2. \A k, l \in S : f[k] = f[l] => k = l
      BY <1>4
    <3> HIDE DEF f, m, S
    <3> QED BY <3>1, <3>2 DEF Injection, IsInjective
  <2>2. IsFiniteSet(1 .. m) /\ Cardinality(1 .. m) = m
    <3>1. m \in Int /\ 1 \in Int
      BY <1>1
    <3> HIDE DEF m
    <3>2. IsFiniteSet(1 .. m) /\ Cardinality(1 .. m) = IF 1 > m THEN 0 ELSE m - 1 + 1
      BY <3>1, FS_Interval
    <3> QED BY <1>1, <3>2
  <2>3. f \in Surjection(S, 1 .. m)
    BY <2>1, <2>2, FS_Injection
  <2> HIDE DEF m, S
  <2>4. \E k \in S : f[k] = i
    BY <2>3 DEF Surjection
  <2> QED BY <2>4
<1> QED BY <1>1, <1>2, <1>4, <1>5

(* What Remove leaves.                                                     *)
LEMMA RemoveShape ==
  ASSUME TypeOK, NEW gone \in SUBSET Listed, Remove(gone)
  PROVE  /\ \A i \in Listed' : \E k \in Listed \ gone :
              Place(gone, k) = i /\ clients'[i] = clients[k]
         /\ \A k \in Listed \ gone :
              Place(gone, k) \in Listed' /\ clients'[Place(gone, k)] = clients[k]
         /\ fds' = fds \ {clients[i].socket : i \in gone}
         /\ client_count' \in Nat
<1> DEFINE m == Cardinality(Listed \ gone)
<1>1. client_count \in Int /\ Listed \subseteq Slots /\ MAX_CLIENTS \in Nat
  BY QueueAssumption DEF TypeOK, Listed, Slots
<1>2. /\ m \in Nat
      /\ \A k \in Listed \ gone : Place(gone, k) \in 1 .. m
      /\ \A k, l \in Listed \ gone : Place(gone, k) = Place(gone, l) => k = l
      /\ \A i \in 1 .. m : \E k \in Listed \ gone : Place(gone, k) = i
  BY <1>1, PlaceFacts DEF Listed
<1>3. client_count' = m /\ Listed' = 1 .. m /\ fds' = fds \ {clients[i].socket : i \in gone}
  BY DEF Remove, Listed
<1>4. 1 .. m \subseteq Slots
  <2>1. IsFiniteSet(Slots) /\ Cardinality(Slots) = MAX_CLIENTS
    BY <1>1, FS_Interval DEF Slots
  <2>2. Listed \ gone \in SUBSET Slots
    BY <1>1
  <2>3. m <= MAX_CLIENTS
    BY <2>1, <2>2, FS_Subset
  <2> QED BY <1>1, <1>2, <2>3 DEF Slots
<1> DEFINE src(i) == IF Kept(gone, i) # {} THEN CHOOSE k \in Kept(gone, i) : TRUE
                     ELSE IF i \in Listed THEN client_count ELSE i
<1>5. clients' = [i \in Slots |-> clients[src(i)]]
  BY DEF Remove
<1>6. ASSUME NEW k \in Listed \ gone PROVE src(Place(gone, k)) = k
  <2>1. Kept(gone, Place(gone, k)) = {k}
    BY <1>2 DEF Kept, Place
  <2> QED BY <2>1
<1> HIDE DEF m, src
<1>7. ASSUME NEW k \in Listed \ gone
      PROVE  Place(gone, k) \in Listed' /\ clients'[Place(gone, k)] = clients[k]
  BY <1>2, <1>3, <1>4, <1>5, <1>6
<1>8. ASSUME NEW i \in Listed'
      PROVE  \E k \in Listed \ gone : Place(gone, k) = i /\ clients'[i] = clients[k]
  <2>1. PICK k \in Listed \ gone : Place(gone, k) = i
    BY <1>2, <1>3
  <2> QED BY <1>7, <2>1
<1> QED BY <1>2, <1>3, <1>7, <1>8
-----------------------------------------------------------------------------
(* ListIsTrue through the steps of the handlers and of the workers.        *)

LEMMA QuietStep ==
  ASSUME ListIsTrue, UNCHANGED <<listVars, mainVars, fds, sigVars, child, killed, sig>>
  PROVE  ListIsTrue'
<1> USE DEF listVars, mainVars, sigVars
<1>1. ParentPart'
  BY DEF ListIsTrue, ParentPart, Forked, Exposed
<1>2. ReapedPart' /\ KilledPart'
  BY DEF ListIsTrue, ReapedPart, KilledPart, Listed
<1>3. ListPart'
  BY DEF ListIsTrue, ListPart, Adding, Fresh, Forked, Listed, Live
<1> QED BY <1>1, <1>2, <1>3 DEF ListIsTrue

(* A handler process ends.                                                 *)
LEMMA EndStep ==
  ASSUME TypeOK, ListIsTrue, NEW w \in Workers, Live(w),
         child' = [child EXCEPT ![w] = "zombie"], sig' = TRUE,
         killed' \subseteq killed \cup {w},
         UNCHANGED <<listVars, mainVars, fds, sigVars>>
  PROVE  ListIsTrue'
<1> USE DEF listVars, mainVars, sigVars
<1>0. child \in [Workers -> ChildStates] /\ killed \subseteq Workers
  BY DEF TypeOK
<1>a. /\ child[w] \in {"live", "adrift"} /\ child'[w] = "zombie"
      /\ \A v \in Workers \ {w} : child'[v] = child[v]
  BY <1>0 DEF Live
<1>1. ParentPart'
  BY <1>a DEF ListIsTrue, ParentPart, Forked, Exposed
<1>2. ReapedPart'
  <2> SUFFICES ASSUME ~ exposed, NEW i \in Listed
               PROVE  /\ clients[i].socket \in Workers
                      /\ child'[clients[i].socket] = "reaped" => clients[i].socket = hpid
    BY DEF ReapedPart, Listed
  <2> QED BY <1>a DEF ListIsTrue, ReapedPart
<1>3. KilledPart'
  BY <1>0, <1>a DEF ListIsTrue, KilledPart
<1>4. ListPart'
  <2>1. \A v \in Workers : Forked(v) => Forked(v)'
    BY <1>a DEF Forked
  <2>2. \A v \in Workers : Live(v)' => Live(v)
    BY <1>a DEF Live
  <2>3. ~ exposed => \A i \in Listed : clients[i].socket \in Workers
    BY DEF ListIsTrue, ReapedPart
  <2> QED BY <2>1, <2>2, <2>3 DEF ListIsTrue, ListPart, Adding, Fresh, Forked, Listed
<1> QED BY <1>1, <1>2, <1>3, <1>4 DEF ListIsTrue

LEMMA HandleClientList ==
  ASSUME TypeOK, ListIsTrue, NEW w \in Workers, HandleClient(w)
  PROVE  ListIsTrue'
<1>1. CASE ServeGetTask(w)
  BY <1>1, QuietStep DEF ServeGetTask
<1>2. CASE ServeResult(w)
  BY <1>2, QuietStep DEF ServeResult
<1>3. CASE ServeExit(w)
  <2>1. /\ Live(w) /\ child' = [child EXCEPT ![w] = "zombie"] /\ sig' = TRUE
        /\ killed' = killed
        /\ UNCHANGED <<listVars, mainVars, fds, sigVars>>
    BY <1>3 DEF ServeExit, Serve, LeavesReturning, Ends, Live
  <2> QED BY <2>1, EndStep
<1>4. CASE Fails(w)
  <2>1. /\ Live(w) /\ child' = [child EXCEPT ![w] = "zombie"] /\ sig' = TRUE
        /\ killed' = killed \cup {w}
        /\ UNCHANGED <<listVars, mainVars, fds, sigVars>>
    BY <1>4 DEF Fails, Ends
  <2> QED BY <2>1, EndStep
<1> QED BY <1>1, <1>2, <1>3, <1>4 DEF HandleClient

LEMMA WorkerList ==
  ASSUME ListIsTrue, NEW w \in Workers, WorkerClient(w)
  PROVE  ListIsTrue'
<1>1. Worker(w)
  BY DEF WorkerClient, Connect, AskTask, SendResult, Receive, Misparse, Leave, Sends
<1> QED BY <1>1, QuietStep DEF Worker, childVars

-----------------------------------------------------------------------------
(* ListIsTrue through the steps of the SIGCHLD handler.                    *)

LEMMA SigChldList ==
  ASSUME ListIsTrue, SigChld
  PROVE  ListIsTrue'
<1>1. /\ hpc = "out" /\ hpc' = "wait" /\ srv \notin Stopped
      /\ exposed' = (exposed \/ Exposed)
      /\ UNCHANGED <<listVars, mainVars, fds, hpid, child, killed>>
  BY DEF SigChld
<1> USE DEF listVars, mainVars
<1>2. ParentPart'
  BY <1>1 DEF ListIsTrue, ParentPart, Forked, Exposed
<1>3. ReapedPart' /\ KilledPart'
  BY <1>1 DEF ListIsTrue, ReapedPart, KilledPart, Listed
<1>4. ListPart'
  BY <1>1 DEF ListIsTrue, ListPart, Adding, Fresh, Forked, Listed, Live
<1> QED BY <1>2, <1>3, <1>4 DEF ListIsTrue

LEMMA WaitPidList ==
  ASSUME TypeOK, ListIsTrue, WaitPid
  PROVE  ListIsTrue'
<1>1. /\ hpc = "wait"
      /\ UNCHANGED <<listVars, mainVars, fds, exposed, killed, sig>>
  BY DEF WaitPid
<1> USE DEF listVars, mainVars
<1>2. hpid = None /\ None \notin Workers
  BY <1>1, QueueAssumption DEF ListIsTrue, ParentPart
<1>3. CASE /\ \A w \in Workers : child[w] # "zombie"
           /\ hpc' = "out" /\ UNCHANGED <<child, hpid>>
  <2>1. ParentPart'
    BY <1>1, <1>3 DEF ListIsTrue, ParentPart, Forked, Exposed
  <2>2. ReapedPart' /\ KilledPart'
    BY <1>1, <1>3 DEF ListIsTrue, ReapedPart, KilledPart, Listed
  <2>3. ListPart'
    BY <1>1, <1>3 DEF ListIsTrue, ListPart, Adding, Fresh, Forked, Listed, Live
  <2> QED BY <2>1, <2>2, <2>3 DEF ListIsTrue
<1>4. ASSUME NEW w \in Workers, child[w] = "zombie",
             child' = [child EXCEPT ![w] = "reaped"], hpid' = w, hpc' = "lock"
      PROVE  ListIsTrue'
  <2>0. child \in [Workers -> ChildStates] /\ killed \subseteq Workers
    BY DEF TypeOK
  <2>a. /\ child'[w] = "reaped"
        /\ \A v \in Workers \ {w} : child'[v] = child[v]
    BY <1>4, <2>0
  <2>1. ParentPart'
    BY <1>1, <1>4, <2>a DEF ListIsTrue, ParentPart, Forked, Exposed, Stopped
  <2>2. ReapedPart'
    <3> SUFFICES ASSUME ~ exposed, NEW i \in Listed
                 PROVE  /\ clients[i].socket \in Workers
                        /\ child'[clients[i].socket] = "reaped" => clients[i].socket = w
      BY <1>1, <1>4 DEF ReapedPart, Listed
    <3> QED BY <1>2, <2>a DEF ListIsTrue, ReapedPart
  <2>3. KilledPart'
    BY <1>1, <2>0, <2>a DEF ListIsTrue, KilledPart
  <2>4. ListPart'
    <3>1. \A v \in Workers : Forked(v) => Forked(v)'
      BY <2>a DEF Forked
    <3>2. \A v \in Workers : Live(v)' => Live(v)
      BY <2>a DEF Live
    <3>3. ~ exposed => \A i \in Listed : clients[i].socket \in Workers
      BY DEF ListIsTrue, ReapedPart
    <3> QED BY <1>1, <3>1, <3>2, <3>3 DEF ListIsTrue, ListPart, Adding, Fresh, Forked, Listed
  <2> QED BY <2>1, <2>2, <2>3, <2>4 DEF ListIsTrue
<1> QED BY <1>3, <1>4 DEF WaitPid

(* With no entry half made, removing entries leaves the others as they     *)
(* were: one for each connection that is left.                             *)
LEMMA RemoveKeepsList ==
  ASSUME TypeOK, ListIsTrue, ~ exposed, srv \notin Stopped, ~ Adding,
         NEW gone \in SUBSET Listed, Remove(gone)
  PROVE  /\ \A i \in Listed' :
              /\ \E k \in Listed \ gone : clients'[i] = clients[k]
              /\ clients'[i].socket \in Workers /\ Forked(clients'[i].socket)
              /\ clients'[i].pid_handler = clients'[i].socket
              /\ clients'[i].socket \in fds'
         /\ \A i, k \in Listed' : clients'[i].socket = clients'[k].socket => i = k
         /\ \A w \in Workers : Live(w) =>
              \/ \E i \in Listed' : clients'[i].socket = w
              \/ \E i \in gone : clients[i].socket = w
         /\ \A w \in fds : \/ w \in fds'
                           \/ \E i \in gone : clients[i].socket = w
<1>1. /\ \A i \in Listed :
           /\ clients[i].socket \in Workers /\ Forked(clients[i].socket)
           /\ clients[i].pid_handler = clients[i].socket
           /\ clients[i].socket \in fds
      /\ \A i, k \in Listed : clients[i].socket = clients[k].socket => i = k
      /\ \A w \in Workers : Live(w) => \E i \in Listed : clients[i].socket = w
  BY DEF ListIsTrue, ReapedPart, ListPart, Fresh, Stopped
<1>2. /\ \A i \in Listed' : \E k \in Listed \ gone :
           Place(gone, k) = i /\ clients'[i] = clients[k]
      /\ \A k \in Listed \ gone :
           Place(gone, k) \in Listed' /\ clients'[Place(gone, k)] = clients[k]
      /\ fds' = fds \ {clients[i].socket : i \in gone}
  BY RemoveShape
<1>3. ASSUME NEW i \in Listed'
      PROVE  /\ \E k \in Listed \ gone : clients'[i] = clients[k]
             /\ clients'[i].socket \in Workers /\ Forked(clients'[i].socket)
             /\ clients'[i].pid_handler = clients'[i].socket
             /\ clients'[i].socket \in fds'
  <2>1. PICK k \in Listed \ gone : clients'[i] = clients[k]
    BY <1>2
  <2>2. \A l \in gone : clients[l].socket # clients[k].socket
    BY <1>1
  <2> QED BY <1>1, <1>2, <2>1, <2>2
<1>4. ASSUME NEW i \in Listed', NEW k \in Listed', clients'[i].socket = clients'[k].socket
      PROVE  i = k
  <2>1. PICK p \in Listed \ gone : Place(gone, p) = i /\ clients'[i] = clients[p]
    BY <1>2
  <2>2. PICK q \in Listed \ gone : Place(gone, q) = k /\ clients'[k] = clients[q]
    BY <1>2
  <2>3. p = q
    BY <1>1, <1>4, <2>1, <2>2
  <2> QED BY <2>1, <2>2, <2>3
<1>5. ASSUME NEW w \in Workers, Live(w)
      PROVE  \/ \E i \in Listed' : clients'[i].socket = w
             \/ \E i \in gone : clients[i].socket = w
  <2>1. PICK k \in Listed : clients[k].socket = w
    BY <1>1, <1>5
  <2> QED BY <1>2, <2>1
<1>6. \A w \in fds : w \in fds' \/ \E i \in gone : clients[i].socket = w
  BY <1>2
<1> QED BY <1>3, <1>4, <1>5, <1>6

LEMMA ForgetList ==
  ASSUME TypeOK, ListIsTrue, Forget
  PROVE  ListIsTrue'
<1> DEFINE mine == {i \in Listed : clients[i].pid_handler = hpid}
<1>1. /\ hpc = "lock" /\ hpc' = "wait" /\ hpid' = None
      /\ UNCHANGED <<srv, held, accepted, client_idx, exposed, child, killed, sig>>
      /\ \/ mine = {} /\ UNCHANGED <<clients, client_count, fds>>
         \/ \E i \in mine : Remove({i})
  BY DEF Forget, Again, mainVars, childVars, listVars
<1>2. /\ srv \notin Stopped /\ child[hpid] = "reaped" /\ hpid \in Workers
      /\ ~ exposed => ~ Adding
  BY <1>1 DEF ListIsTrue, ParentPart, Exposed, Adding
<1>3. ParentPart' /\ KilledPart'
  BY <1>1, <1>2 DEF ListIsTrue, ParentPart, KilledPart, Forked, Exposed
<1>4. CASE exposed
  BY <1>1, <1>3, <1>4 DEF ListIsTrue, ReapedPart, ListPart
<1>5. CASE ~ exposed /\ mine = {} /\ UNCHANGED <<clients, client_count, fds>>
  <2>1. ListPart'
    BY <1>1, <1>5 DEF ListIsTrue, ListPart, Adding, Fresh, Forked, Listed, Live
  <2>2. \A i \in Listed : clients[i].pid_handler = clients[i].socket
    BY <1>2, <1>5 DEF ListIsTrue, ListPart, Fresh, Stopped
  <2>3. ReapedPart'
    BY <1>1, <1>5, <2>2 DEF ListIsTrue, ReapedPart, Listed
  <2> QED BY <1>3, <2>1, <2>3 DEF ListIsTrue
<1>6. ASSUME ~ exposed, NEW i \in mine, Remove({i})
      PROVE  ListIsTrue'
  <2>1. /\ \A j \in Listed' :
             /\ \E k \in Listed \ {i} : clients'[j] = clients[k]
             /\ clients'[j].socket \in Workers /\ Forked(clients'[j].socket)
             /\ clients'[j].pid_handler = clients'[j].socket
             /\ clients'[j].socket \in fds'
        /\ \A j, k \in Listed' : clients'[j].socket = clients'[k].socket => j = k
        /\ \A w \in Workers : Live(w) =>
             \/ \E j \in Listed' : clients'[j].socket = w
             \/ \E j \in {i} : clients[j].socket = w
        /\ \A w \in fds : w \in fds' \/ \E j \in {i} : clients[j].socket = w
    <3>1. {i} \in SUBSET Listed
      OBVIOUS
    <3> QED BY <1>2, <1>6, <3>1, RemoveKeepsList
  <2>2. /\ \A j \in Listed : clients[j].pid_handler = clients[j].socket
        /\ \A j, k \in Listed : clients[j].socket = clients[k].socket => j = k
    BY <1>2, <1>6 DEF ListIsTrue, ListPart, Fresh, Stopped
  <2>3. clients[i].socket = hpid
    BY <2>2
  <2>4. ~ exposed' /\ ~ Adding'
    BY <1>1, <1>2, <1>6 DEF Adding
  <2>5. ReapedPart'
    <3> SUFFICES ASSUME NEW j \in Listed'
                 PROVE  /\ clients'[j].socket \in Workers
                        /\ child'[clients'[j].socket] # "reaped"
      BY DEF ReapedPart
    <3>1. PICK k \in Listed \ {i} : clients'[j] = clients[k]
      BY <2>1
    <3>2. clients[k].socket # hpid
      BY <2>2, <2>3
    <3>3. child[clients[k].socket] # "reaped"
      BY <1>6, <3>2 DEF ListIsTrue, ReapedPart
    <3> QED BY <1>1, <2>1, <3>1, <3>3
  <2>6. ListPart'
    <3>1. ASSUME NEW j \in Listed' PROVE child'[clients'[j].socket] \in {"live", "adrift", "zombie", "reaped"}
      BY <1>1, <2>1 DEF Forked
    <3>2. ASSUME NEW w \in Workers, Live(w)'
          PROVE  \E j \in Listed' : clients'[j].socket = w
      BY <1>1, <1>2, <2>1, <2>3, <3>2 DEF Live
    <3>3. srv = "register" => accepted \in fds'
      <4>1. srv = "register" => accepted \in fds /\ child[accepted] = "unborn"
        BY <1>6 DEF ListIsTrue, ParentPart, ListPart
      <4>2. accepted # hpid \/ srv # "register"
        BY <1>2, <4>1
      <4> QED BY <2>1, <2>3, <4>1, <4>2
    <3> QED BY <1>1, <2>1, <2>4, <3>1, <3>2, <3>3 DEF ListPart, Fresh, Forked, Live
  <2> QED BY <1>3, <2>5, <2>6 DEF ListIsTrue
<1> QED BY <1>1, <1>4, <1>5, <1>6

LEMMA HandlerList ==
  ASSUME TypeOK, ListIsTrue, Handler
  PROVE  ListIsTrue'
BY SigChldList, WaitPidList, ForgetList DEF Handler

-----------------------------------------------------------------------------
(* ListIsTrue through the steps of main.                                   *)

(* The steps that only move main or the mutex, outside of adding an entry. *)
LEMMA MoveList ==
  ASSUME ListIsTrue, Lock \/ LockInterrupted \/ UnlockChecked \/ CountTasks
  PROVE  ListIsTrue'
<1>1. /\ UNCHANGED <<accepted, client_idx, listVars, fds, sigVars, childVars>>
      /\ hpc = "out"
  BY DEF Lock, LockInterrupted, UnlockChecked, CountTasks, Inside, Running
<1>2. \/ srv' = srv \/ srv' = "aborted"
      \/ srv \in {"checked", "count"} /\ srv' \in {"count", "over", "accept"}
  BY DEF Lock, LockInterrupted, UnlockChecked, CountTasks, Inside, Running
<1> USE DEF listVars, sigVars, childVars
<1>3. srv \in Stopped => srv' \in Stopped
  BY <1>2 DEF Stopped
<1>4. ParentPart'
  BY <1>1, <1>2, <1>3 DEF ListIsTrue, ParentPart, Forked, Exposed
<1>5. ReapedPart' /\ KilledPart'
  BY <1>1 DEF ListIsTrue, ReapedPart, KilledPart, Listed
<1>6. ListPart'
  <2>1. CASE srv' = "aborted"
    BY <2>1 DEF ListPart
  <2>2. CASE srv' # "aborted"
    <3>1. /\ srv # "aborted" /\ Adding' = Adding
          /\ srv' = "unregister" <=> srv = "unregister"
          /\ srv' = "register" <=> srv = "register"
      BY <1>2, <2>2 DEF Adding
    <3> QED BY <1>1, <3>1 DEF ListIsTrue, ListPart, Fresh, Forked, Listed, Live
  <2> QED BY <2>1, <2>2
<1> QED BY <1>4, <1>5, <1>6 DEF ListIsTrue

LEMMA CheckTimeoutsList ==
  ASSUME TypeOK, ListIsTrue, CheckTimeouts
  PROVE  ListIsTrue'
<1>1. PICK idle \in SUBSET Listed :
        LET victims == {clients[i].pid_handler : i \in idle} \cap Workers
            dying   == {w \in victims : Live(w)}
        IN  /\ Remove(idle)
            /\ child' = [w \in Workers |-> IF w \in dying THEN "zombie" ELSE child[w]]
            /\ killed' = killed \cup dying
            /\ sig' = (sig \/ dying # {})
            /\ HangUp(dying)
  BY DEF CheckTimeouts
<1> DEFINE dying == {w \in {clients[i].pid_handler : i \in idle} \cap Workers : Live(w)}
<1>2. /\ child' = [w \in Workers |-> IF w \in dying THEN "zombie" ELSE child[w]]
      /\ killed' = killed \cup dying /\ sig' = (sig \/ dying # {})
      /\ Remove(idle)
  BY <1>1, Zenon
<1>3. /\ srv = "check" /\ srv' = "checked" /\ hpc = "out"
      /\ UNCHANGED <<held, accepted, client_idx, hpc, hpid, exposed>>
  BY DEF CheckTimeouts, Inside, Running, sigVars
<1>4. /\ child \in [Workers -> ChildStates] /\ killed \subseteq Workers
      /\ dying \subseteq Workers /\ \A w \in dying : child[w] \in {"live", "adrift"}
      /\ \A w \in Workers : /\ w \in dying => child'[w] = "zombie"
                            /\ w \notin dying => child'[w] = child[w]
  BY <1>2 DEF TypeOK, Live
<1>a. \A i \in idle : LET p == clients[i].pid_handler IN
        p \in Workers /\ Live(p) => p \in dying
  OBVIOUS
<1> HIDE DEF dying
<1>5. ASSUME NEW w \in Workers
      PROVE  /\ Forked(w) => child'[w] \in {"live", "adrift", "zombie", "reaped"}
             /\ child'[w] \in {"live", "adrift"} => Live(w) /\ w \notin dying
             /\ child'[w] = "reaped" => child[w] = "reaped"
  <2>1. CASE w \in dying
    BY <1>4, <2>1
  <2>2. CASE w \notin dying
    BY <1>4, <2>2 DEF Forked, Live
  <2> QED BY <2>1, <2>2
<1>6. srv \notin Stopped /\ ~ Adding /\ ~ Adding'
  BY <1>3 DEF Stopped, Adding
<1>7. ParentPart'
  <2>1. \A w \in Workers : child'[w] = "zombie" => sig'
    BY <1>2, <1>3, <1>4, <1>6 DEF ListIsTrue, ParentPart
  <2> QED BY <1>3, <2>1 DEF ListIsTrue, ParentPart, Stopped
<1>8. KilledPart'
  BY <1>2, <1>4 DEF ListIsTrue, KilledPart
<1>9. CASE exposed
  BY <1>3, <1>7, <1>8, <1>9 DEF ListIsTrue, ReapedPart, ListPart
<1>10. CASE ~ exposed
  <2>1. /\ \A i \in Listed' :
             /\ \E k \in Listed \ idle : clients'[i] = clients[k]
             /\ clients'[i].socket \in Workers /\ Forked(clients'[i].socket)
             /\ clients'[i].pid_handler = clients'[i].socket
             /\ clients'[i].socket \in fds'
        /\ \A i, k \in Listed' : clients'[i].socket = clients'[k].socket => i = k
        /\ \A w \in Workers : Live(w) =>
             \/ \E i \in Listed' : clients'[i].socket = w
             \/ \E i \in idle : clients[i].socket = w
    BY <1>2, <1>6, <1>10, RemoveKeepsList
  <2>2. \A i \in Listed : clients[i].pid_handler = clients[i].socket
    BY <1>3, <1>6, <1>10 DEF ListIsTrue, ListPart, Fresh
  <2>3. ReapedPart'
    <3> SUFFICES ASSUME NEW i \in Listed'
                 PROVE  /\ clients'[i].socket \in Workers
                        /\ child'[clients'[i].socket] = "reaped" =>
                             clients'[i].socket = hpid
      BY <1>3 DEF ReapedPart
    <3>1. PICK k \in Listed \ idle : clients'[i] = clients[k]
      BY <2>1
    <3> QED BY <1>5, <1>10, <2>1, <3>1 DEF ListIsTrue, ReapedPart
  <2>4. ListPart'
    <3>1. ASSUME NEW i \in Listed'
          PROVE  child'[clients'[i].socket] \in {"live", "adrift", "zombie", "reaped"}
      BY <1>5, <2>1
    <3>2. ASSUME NEW w \in Workers, Live(w)'
          PROVE  \E i \in Listed' : clients'[i].socket = w
      <4>1. Live(w) /\ w \notin dying
        BY <1>5, <3>2 DEF Live
      <4>2. ASSUME NEW i \in idle, clients[i].socket = w PROVE FALSE
        BY <1>a, <2>2, <4>1, <4>2
      <4> QED BY <2>1, <4>1, <4>2
    <3> QED BY <1>3, <1>6, <2>1, <3>1, <3>2 DEF ListPart, Fresh, Forked, Live
  <2> QED BY <1>7, <1>8, <2>3, <2>4 DEF ListIsTrue
<1> QED BY <1>9, <1>10

LEMMA AcceptList ==
  ASSUME TypeOK, ListIsTrue, Accept
  PROVE  ListIsTrue'
<1>1. PICK w \in Workers : /\ child[w] = "none" /\ accepted' = w
                           /\ fds' = fds \cup {w}
                           /\ child' = [child EXCEPT ![w] = "unborn"]
  BY DEF Accept
<1>2. /\ srv = "accept" /\ srv' = "register" /\ hpc = "out"
      /\ UNCHANGED <<clients, client_count, hpc, hpid, exposed, killed, sig>>
  BY DEF Accept, Running, listVars, sigVars
<1>3. /\ child'[w] = "unborn" /\ \A v \in Workers \ {w} : child'[v] = child[v]
      /\ killed \subseteq Workers
  BY <1>1 DEF TypeOK
<1>4. ParentPart'
  BY <1>1, <1>2, <1>3 DEF ListIsTrue, ParentPart, Stopped
<1>5. KilledPart'
  BY <1>1, <1>2, <1>3 DEF ListIsTrue, KilledPart
<1>6. ASSUME ~ exposed, NEW i \in Listed
      PROVE  /\ clients[i].socket \in Workers \ {w} /\ clients[i].socket \in fds'
             /\ clients[i].pid_handler = clients[i].socket
             /\ Forked(clients[i].socket)
  <2>1. Forked(clients[i].socket) /\ clients[i].socket \in fds
        /\ clients[i].pid_handler = clients[i].socket
    BY <1>2, <1>6 DEF ListIsTrue, ListPart, Fresh, Adding
  <2>2. clients[i].socket \in Workers
    BY <1>6 DEF ListIsTrue, ReapedPart
  <2> QED BY <1>1, <2>1, <2>2 DEF Forked
<1>7. ReapedPart'
  BY <1>2, <1>3, <1>6 DEF ListIsTrue, ReapedPart, Listed
<1>8. ListPart'
  <2>1. ~ Adding' /\ Listed' = Listed /\ accepted' \in fds'
    BY <1>1, <1>2 DEF Adding, Listed
  <2> SUFFICES ASSUME ~ exposed
               PROVE  /\ \A i \in Listed :
                           /\ clients[i].pid_handler = clients[i].socket
                           /\ child'[clients[i].socket] \in {"live", "adrift", "zombie", "reaped"}
                           /\ clients[i].socket \in fds'
                      /\ \A i, k \in Listed : clients[i].socket = clients[k].socket => i = k
                      /\ \A v \in Workers : child'[v] \in {"live", "adrift"} =>
                           \E i \in Listed : clients[i].socket = v
    BY <1>2, <2>1 DEF ListPart, Fresh, Forked, Live
  <2>2. \A i \in Listed : child'[clients[i].socket] \in {"live", "adrift", "zombie", "reaped"}
    BY <1>3, <1>6 DEF Forked
  <2>3. \A v \in Workers : child'[v] \in {"live", "adrift"} => \E i \in Listed : clients[i].socket = v
    BY <1>2, <1>3 DEF ListIsTrue, ListPart, Live
  <2> QED BY <1>2, <1>6, <2>2, <2>3 DEF ListIsTrue, ListPart
<1> QED BY <1>4, <1>5, <1>7, <1>8 DEF ListIsTrue

LEMMA RegisterList ==
  ASSUME IInv, ListIsTrue, Register
  PROVE  ListIsTrue'
<1>0. /\ MAX_CLIENTS \in Nat /\ client_count \in 0 .. MAX_CLIENTS
      /\ accepted \in Workers /\ child[accepted] = "unborn"
      /\ srv = "register" /\ hpc = "out" /\ killed \subseteq Workers
      /\ child \in [Workers -> ChildStates] /\ clients \in [Slots -> Entry]
  <2>1. srv = "register" /\ hpc = "out"
    BY DEF Register, Inside, Running
  <2>2. MAX_CLIENTS \in Nat /\ client_count # -1
    BY <2>1, QueueAssumption DEF IInv
  <2> QED BY <2>1, <2>2 DEF IInv, TypeOK, ListIsTrue, ParentPart
<1>1. ASSUME ~ exposed, NEW i \in Listed
      PROVE  /\ clients[i].socket \in Workers \ {accepted} /\ clients[i].socket \in fds
             /\ clients[i].pid_handler = clients[i].socket
             /\ Forked(clients[i].socket)
  <2>1. Forked(clients[i].socket) /\ clients[i].socket \in fds
        /\ clients[i].pid_handler = clients[i].socket
    BY <1>0, <1>1 DEF ListIsTrue, ListPart, Fresh, Adding
  <2>2. clients[i].socket \in Workers
    BY <1>1 DEF ListIsTrue, ReapedPart
  <2> QED BY <1>0, <2>1, <2>2 DEF Forked
<1>2. CASE client_count < MAX_CLIENTS
  <2> DEFINE n == client_count + 1
  <2>1. /\ clients' = [clients EXCEPT ![n].socket = accepted, ![n].task = NoTask]
        /\ client_count' = n /\ client_idx' = n /\ srv' = "fork"
        /\ UNCHANGED <<accepted, fds, child, hpc, hpid, exposed, killed, sig>>
    BY <1>2 DEF Register, NewEntry, sigVars
  <2>2. n \in Slots /\ Listed' = Listed \cup {n} /\ n \notin Listed
        /\ Listed \subseteq Slots
    BY <1>0, <1>2, <2>1 DEF Slots, Listed
  <2>3. /\ \A i \in Listed : clients'[i] = clients[i]
        /\ clients'[n].socket = accepted
    <3> HIDE DEF n
    <3> QED BY <1>0, <2>1, <2>2 DEF Entry
  <2>a. \A i \in Listed' : i \in Listed \/ i = n
    BY <2>2
  <2>d. srv' = "fork" /\ client_count' = n /\ client_idx' = n
    BY <2>1
  <2> HIDE DEF n
  <2>4. ParentPart'
    BY <1>0, <2>1 DEF ListIsTrue, ParentPart, Stopped
  <2>5. KilledPart'
    BY <2>1 DEF ListIsTrue, KilledPart
  <2>6. ReapedPart'
    <3> SUFFICES ASSUME ~ exposed, NEW i \in Listed'
                 PROVE  /\ clients'[i].socket \in Workers
                        /\ child[clients'[i].socket] = "reaped" =>
                             clients'[i].socket = hpid
      BY <2>1 DEF ReapedPart
    <3>1. CASE i = n
      BY <1>0, <2>3, <3>1
    <3>2. CASE i \in Listed
      BY <2>3, <3>2 DEF ListIsTrue, ReapedPart
    <3> QED BY <2>a, <3>1, <3>2
  <2>7. ListPart'
    <3>a. Adding' /\ \A i \in Listed' : Fresh(i)' <=> i = n
      BY <2>1, <2>d DEF Adding, Fresh
    <3> SUFFICES ASSUME ~ exposed PROVE ListPart'
      BY <2>1 DEF ListPart
    <3>0. accepted \in fds
      BY <1>0 DEF ListIsTrue, ListPart
    <3>1. ASSUME NEW i \in Listed'
          PROVE  /\ IF i = n THEN clients'[i].socket = accepted
                    ELSE /\ clients'[i].pid_handler = clients'[i].socket
                         /\ Forked(clients'[i].socket)
                 /\ clients'[i].socket \in fds
      BY <1>1, <2>a, <2>2, <2>3, <3>0
    <3>2. ASSUME NEW i \in Listed', NEW k \in Listed',
                 clients'[i].socket = clients'[k].socket
          PROVE  i = k
      <4>1. CASE i \in Listed /\ k \in Listed
        BY <1>0, <2>3, <3>2, <4>1 DEF ListIsTrue, ListPart
      <4>2. CASE i = n
        BY <1>1, <2>a, <2>3, <3>2, <4>2
      <4>3. CASE k = n
        BY <1>1, <2>a, <2>3, <3>2, <4>3
      <4> QED BY <2>a, <4>1, <4>2, <4>3
    <3>3. ASSUME NEW w \in Workers, Live(w)
          PROVE  \E i \in Listed' : clients'[i].socket = w
      <4>1. PICK i \in Listed : clients[i].socket = w
        BY <1>0, <3>3 DEF ListIsTrue, ListPart
      <4> QED BY <2>2, <2>3, <4>1
    <3>4. ASSUME NEW i \in Listed'
          PROVE  /\ IF Fresh(i)' THEN clients'[i].socket = accepted'
                    ELSE /\ clients'[i].pid_handler = clients'[i].socket
                         /\ child'[clients'[i].socket] \in {"live", "adrift", "zombie", "reaped"}
                 /\ clients'[i].socket \in fds'
      BY <2>1, <3>a, <3>1 DEF Forked
    <3>5. /\ srv' = "fork" /\ client_idx' = client_count' /\ client_idx' \in Slots
          /\ child' = child
      BY <2>1, <2>d, <2>2
    <3> QED BY <3>2, <3>3, <3>4, <3>5 DEF ListPart, Forked, Live
  <2> QED BY <2>4, <2>5, <2>6, <2>7 DEF ListIsTrue
<1>3. CASE ~ client_count < MAX_CLIENTS
  <2>1. /\ fds' = fds \ {accepted} /\ child' = [child EXCEPT ![accepted] = "refused"]
        /\ srv' = "check" /\ accepted' = None
        /\ UNCHANGED <<clients, client_count, hpc, hpid, exposed, killed, sig>>
    BY <1>3 DEF Register, Refuse, EndOfBody, listVars, sigVars
  <2>2. /\ child'[accepted] = "refused"
        /\ \A w \in Workers \ {accepted} : child'[w] = child[w]
    BY <1>0, <2>1
  <2>3. ParentPart'
    BY <1>0, <2>1, <2>2 DEF ListIsTrue, ParentPart, Stopped
  <2>4. KilledPart'
    BY <1>0, <2>1, <2>2 DEF ListIsTrue, KilledPart
  <2>5. ReapedPart'
    BY <1>1, <2>1, <2>2 DEF ListIsTrue, ReapedPart, Listed
  <2>6. ListPart'
    <3>1. ~ Adding' /\ Listed' = Listed
      BY <2>1 DEF Adding, Listed
    <3> SUFFICES ASSUME ~ exposed
                 PROVE  /\ \A i \in Listed :
                             /\ clients[i].pid_handler = clients[i].socket
                             /\ child'[clients[i].socket] \in {"live", "adrift", "zombie", "reaped"}
                             /\ clients[i].socket \in fds'
                        /\ \A i, k \in Listed : clients[i].socket = clients[k].socket => i = k
                        /\ \A v \in Workers : child'[v] \in {"live", "adrift"} =>
                             \E i \in Listed : clients[i].socket = v
      BY <2>1, <3>1 DEF ListPart, Fresh, Forked, Live
    <3>2. \A i \in Listed : /\ child'[clients[i].socket] \in {"live", "adrift", "zombie", "reaped"}
                            /\ clients[i].socket \in fds'
      BY <1>1, <2>1, <2>2 DEF Forked
    <3>3. \A v \in Workers : child'[v] \in {"live", "adrift"} => \E i \in Listed : clients[i].socket = v
      BY <1>0, <2>2 DEF ListIsTrue, ListPart, Live
    <3> QED BY <1>0, <1>1, <3>2, <3>3 DEF ListIsTrue, ListPart
  <2> QED BY <2>3, <2>4, <2>5, <2>6 DEF ListIsTrue
<1> QED BY <1>2, <1>3

(* What ListIsTrue says while main is adding an entry.                     *)
LEMMA WhileAdding ==
  ASSUME TypeOK, ListIsTrue, Adding, ~ exposed
  PROVE  /\ client_idx = client_count /\ client_idx \in Listed /\ client_idx \in Slots
         /\ clients[client_idx].socket = accepted
         /\ \A i \in Listed \ {client_idx} :
              /\ clients[i].socket \in Workers \ {accepted}
              /\ clients[i].pid_handler = clients[i].socket
              /\ Forked(clients[i].socket) /\ clients[i].socket \in fds
         /\ \A i, k \in Listed : clients[i].socket = clients[k].socket => i = k
         /\ \A w \in Workers : Live(w) => \E i \in Listed : clients[i].socket = w
<1>1. srv # "aborted"
  BY DEF Adding
<1>2. client_idx = client_count /\ client_idx \in Slots
  BY <1>1 DEF ListIsTrue, ListPart
<1>3. client_idx \in Listed
  BY <1>2 DEF Listed, Slots
<1>4. Fresh(client_idx) /\ \A i \in Listed \ {client_idx} : ~ Fresh(i)
  BY DEF Fresh
<1>5. clients[client_idx].socket = accepted
  BY <1>1, <1>3, <1>4 DEF ListIsTrue, ListPart
<1>6. \A i, k \in Listed : clients[i].socket = clients[k].socket => i = k
  BY <1>1 DEF ListIsTrue, ListPart
<1>7. ASSUME NEW i \in Listed \ {client_idx}
      PROVE  /\ clients[i].socket \in Workers \ {accepted}
             /\ clients[i].pid_handler = clients[i].socket
             /\ Forked(clients[i].socket) /\ clients[i].socket \in fds
  <2>1. /\ clients[i].pid_handler = clients[i].socket
        /\ Forked(clients[i].socket) /\ clients[i].socket \in fds
    BY <1>1, <1>4 DEF ListIsTrue, ListPart
  <2>2. clients[i].socket \in Workers
    BY DEF ListIsTrue, ReapedPart
  <2>3. clients[i].socket # accepted
    BY <1>3, <1>5, <1>6
  <2> QED BY <2>1, <2>2, <2>3
<1> QED BY <1>1, <1>2, <1>3, <1>5, <1>6, <1>7 DEF ListIsTrue, ListPart

LEMMA ForkList ==
  ASSUME TypeOK, ListIsTrue, Fork
  PROVE  ListIsTrue'
<1>1. /\ srv = "fork" /\ srv' = "record" /\ hpc = "out"
      /\ \/ child' = [child EXCEPT ![accepted] = "live"]
         \/ child' = [child EXCEPT ![accepted] = "adrift"]
      /\ UNCHANGED <<accepted, client_idx, clients, client_count, fds, hpc, hpid,
                     exposed, killed, sig>>
  BY DEF Fork, Running, listVars, sigVars
<1>2. accepted \in Workers /\ child[accepted] = "unborn"
  BY <1>1 DEF ListIsTrue, ParentPart
<1>3. /\ child'[accepted] \in {"live", "adrift"} /\ killed \subseteq Workers
      /\ \A w \in Workers \ {accepted} : child'[w] = child[w]
  BY <1>1, <1>2 DEF TypeOK
<1>4. ParentPart'
  BY <1>1, <1>2, <1>3 DEF ListIsTrue, ParentPart, Stopped, Forked
<1>5. KilledPart'
  BY <1>1, <1>2, <1>3 DEF ListIsTrue, KilledPart
<1>6. ReapedPart'
  <2> SUFFICES ASSUME ~ exposed, NEW i \in Listed
               PROVE  /\ clients[i].socket \in Workers
                      /\ child'[clients[i].socket] = "reaped" => clients[i].socket = hpid
    BY <1>1 DEF ReapedPart, Listed
  <2> QED BY <1>3 DEF ListIsTrue, ReapedPart
<1>7. ListPart'
  <2> SUFFICES ASSUME ~ exposed PROVE ListPart'
    BY <1>1 DEF ListPart
  <2>1. Adding
    BY <1>1 DEF Adding
  <2>2. /\ client_idx = client_count /\ client_idx \in Listed /\ client_idx \in Slots
        /\ clients[client_idx].socket = accepted
        /\ \A i \in Listed \ {client_idx} :
             /\ clients[i].socket \in Workers \ {accepted}
             /\ clients[i].pid_handler = clients[i].socket
             /\ Forked(clients[i].socket) /\ clients[i].socket \in fds
        /\ \A i, k \in Listed : clients[i].socket = clients[k].socket => i = k
        /\ \A w \in Workers : Live(w) => \E i \in Listed : clients[i].socket = w
    BY <2>1, WhileAdding
  <2>3. accepted \in fds
    <3>1. clients[client_idx].socket \in fds
      BY <1>1, <2>2 DEF ListIsTrue, ListPart
    <3> QED BY <2>2, <3>1
  <2>4. Adding' /\ \A i : Fresh(i)' <=> i = client_idx
    BY <1>1 DEF Adding, Fresh
  <2>5. ASSUME NEW i \in Listed
        PROVE  /\ IF i = client_idx THEN clients[i].socket = accepted
                  ELSE /\ clients[i].pid_handler = clients[i].socket
                       /\ child'[clients[i].socket] \in {"live", "adrift", "zombie", "reaped"}
               /\ clients[i].socket \in fds
    BY <1>3, <2>2, <2>3 DEF Forked
  <2>6. ASSUME NEW w \in Workers, child'[w] \in {"live", "adrift"}
        PROVE  \E i \in Listed : clients[i].socket = w
    BY <1>3, <2>2, <2>6 DEF Live
  <2> QED BY <1>1, <2>2, <2>4, <2>5, <2>6 DEF ListPart, Forked, Live, Listed
<1> QED BY <1>4, <1>5, <1>6, <1>7 DEF ListIsTrue

LEMMA ForkFailsList ==
  ASSUME TypeOK, ListIsTrue, ForkFails
  PROVE  ListIsTrue'
<1>1. /\ srv = "fork" /\ srv' = "unregister" /\ hpc = "out"
      /\ fds' = fds \ {accepted} /\ child' = [child EXCEPT ![accepted] = "refused"]
      /\ UNCHANGED <<accepted, client_idx, clients, client_count, hpc, hpid,
                     exposed, killed, sig>>
  BY DEF ForkFails, Refuse, Running, listVars, sigVars
<1>2. accepted \in Workers /\ child[accepted] = "unborn"
  BY <1>1 DEF ListIsTrue, ParentPart
<1>3. /\ child'[accepted] = "refused" /\ killed \subseteq Workers
      /\ \A w \in Workers \ {accepted} : child'[w] = child[w]
  BY <1>1, <1>2 DEF TypeOK
<1>4. ParentPart'
  BY <1>1, <1>2, <1>3 DEF ListIsTrue, ParentPart, Stopped
<1>5. KilledPart'
  BY <1>1, <1>2, <1>3 DEF ListIsTrue, KilledPart
<1>6. ReapedPart'
  <2> SUFFICES ASSUME ~ exposed, NEW i \in Listed
               PROVE  /\ clients[i].socket \in Workers
                      /\ child'[clients[i].socket] = "reaped" => clients[i].socket = hpid
    BY <1>1 DEF ReapedPart, Listed
  <2> QED BY <1>3 DEF ListIsTrue, ReapedPart
<1>7. ListPart'
  <2> SUFFICES ASSUME ~ exposed PROVE ListPart'
    BY <1>1 DEF ListPart
  <2>1. Adding
    BY <1>1 DEF Adding
  <2>2. /\ client_idx = client_count /\ client_idx \in Listed /\ client_idx \in Slots
        /\ clients[client_idx].socket = accepted
        /\ \A i \in Listed \ {client_idx} :
             /\ clients[i].socket \in Workers \ {accepted}
             /\ clients[i].pid_handler = clients[i].socket
             /\ Forked(clients[i].socket) /\ clients[i].socket \in fds
        /\ \A i, k \in Listed : clients[i].socket = clients[k].socket => i = k
        /\ \A w \in Workers : Live(w) => \E i \in Listed : clients[i].socket = w
    BY <2>1, WhileAdding
  <2>4. Adding' /\ \A i : Fresh(i)' <=> i = client_idx
    BY <1>1 DEF Adding, Fresh
  <2>5. ASSUME NEW i \in Listed
        PROVE  /\ IF i = client_idx THEN clients[i].socket = accepted
                  ELSE /\ clients[i].pid_handler = clients[i].socket
                       /\ child'[clients[i].socket] \in {"live", "adrift", "zombie", "reaped"}
               /\ i # client_idx => clients[i].socket \in fds'
    BY <1>1, <1>3, <2>2 DEF Forked
  <2>6. ASSUME NEW w \in Workers, child'[w] \in {"live", "adrift"}
        PROVE  \E i \in Listed : clients[i].socket = w
    BY <1>3, <2>2, <2>6 DEF Live
  <2> QED BY <1>1, <2>2, <2>4, <2>5, <2>6 DEF ListPart, Forked, Live, Listed
<1> QED BY <1>4, <1>5, <1>6, <1>7 DEF ListIsTrue

LEMMA UnregisterList ==
  ASSUME TypeOK, ListIsTrue, Unregister
  PROVE  ListIsTrue'
<1>1. /\ srv = "unregister" /\ srv' = (IF client_count = 0 THEN "undefined" ELSE "check")
      /\ hpc = "out" /\ client_count' = client_count - 1 /\ accepted' = None
      /\ UNCHANGED <<clients, fds, hpc, hpid, exposed, child, killed, sig>>
  BY DEF Unregister, EndOfBody, Inside, Running, sigVars, childVars
<1>2. accepted \in Workers /\ child[accepted] = "refused"
  BY <1>1 DEF ListIsTrue, ParentPart
<1>3. ParentPart'
  BY <1>1 DEF ListIsTrue, ParentPart, Stopped
<1>4. KilledPart'
  BY <1>1 DEF ListIsTrue, KilledPart
<1>5. CASE exposed
  BY <1>1, <1>3, <1>4, <1>5 DEF ListIsTrue, ReapedPart, ListPart
<1>6. CASE ~ exposed
  <2>1. Adding
    BY <1>1 DEF Adding
  <2>2. /\ client_idx = client_count /\ client_idx \in Listed /\ client_idx \in Slots
        /\ clients[client_idx].socket = accepted
        /\ \A i \in Listed \ {client_idx} :
             /\ clients[i].socket \in Workers \ {accepted}
             /\ clients[i].pid_handler = clients[i].socket
             /\ Forked(clients[i].socket) /\ clients[i].socket \in fds
        /\ \A i, k \in Listed : clients[i].socket = clients[k].socket => i = k
        /\ \A w \in Workers : Live(w) => \E i \in Listed : clients[i].socket = w
    BY <1>6, <2>1, WhileAdding
  <2>3. Listed' = Listed \ {client_idx}
    BY <1>1, <2>2 DEF Listed, TypeOK
  <2>4. srv' = "check" /\ ~ Adding'
    <3>1. client_count # 0
      BY <2>2 DEF Slots
    <3> QED BY <1>1, <3>1 DEF Adding
  <2>5. ReapedPart'
    BY <1>1, <2>3 DEF ListIsTrue, ReapedPart
  <2>6. ListPart'
    <3>1. ASSUME NEW w \in Workers, child[w] \in {"live", "adrift"}
          PROVE  \E i \in Listed \ {client_idx} : clients[i].socket = w
      BY <1>2, <2>2, <3>1 DEF Live
    <3> QED BY <1>1, <2>2, <2>3, <2>4, <3>1 DEF ListPart, Fresh, Forked, Live
  <2> QED BY <1>3, <1>4, <2>5, <2>6 DEF ListIsTrue
<1> QED BY <1>5, <1>6

LEMMA RecordList ==
  ASSUME TypeOK, ListIsTrue, Record
  PROVE  ListIsTrue'
<1>1. /\ srv = "record" /\ srv' = "check" /\ hpc = "out" /\ accepted' = None
      /\ clients' = [clients EXCEPT ![client_idx].pid_handler = accepted]
      /\ UNCHANGED <<client_count, fds, hpc, hpid, exposed, child, killed, sig>>
  BY DEF Record, EndOfBody, Inside, Running, sigVars, childVars
<1>2. accepted \in Workers /\ Forked(accepted)
  BY <1>1 DEF ListIsTrue, ParentPart
<1>3. ParentPart'
  BY <1>1 DEF ListIsTrue, ParentPart, Stopped
<1>4. KilledPart'
  BY <1>1 DEF ListIsTrue, KilledPart
<1>5. CASE exposed
  BY <1>1, <1>3, <1>4, <1>5 DEF ListIsTrue, ReapedPart, ListPart
<1>6. CASE ~ exposed
  <2>1. Adding
    BY <1>1 DEF Adding
  <2>2. /\ client_idx = client_count /\ client_idx \in Listed /\ client_idx \in Slots
        /\ clients[client_idx].socket = accepted
        /\ \A i \in Listed \ {client_idx} :
             /\ clients[i].socket \in Workers \ {accepted}
             /\ clients[i].pid_handler = clients[i].socket
             /\ Forked(clients[i].socket) /\ clients[i].socket \in fds
        /\ \A i, k \in Listed : clients[i].socket = clients[k].socket => i = k
        /\ \A w \in Workers : Live(w) => \E i \in Listed : clients[i].socket = w
    BY <1>6, <2>1, WhileAdding
  <2>3. Listed' = Listed /\ Listed \subseteq Slots /\ ~ Adding'
    <3>1. client_count \in Slots
      BY <2>2
    <3>2. Listed \subseteq Slots
      BY <3>1, QueueAssumption DEF Listed, Slots
    <3> QED BY <1>1, <3>2 DEF Listed, Adding
  <2>4. accepted \in fds
    <3>1. clients[client_idx].socket \in fds
      BY <1>1, <1>6, <2>2 DEF ListIsTrue, ListPart
    <3> QED BY <2>2, <3>1
  <2>5. /\ clients'[client_idx].socket = accepted
        /\ clients'[client_idx].pid_handler = accepted
        /\ \A i \in Listed \ {client_idx} : clients'[i] = clients[i]
    BY <1>1, <2>2, <2>3 DEF TypeOK, Entry
  <2>6. ASSUME NEW i \in Listed
        PROVE  /\ clients'[i].socket = clients[i].socket
               /\ clients'[i].pid_handler = clients[i].socket
               /\ Forked(clients[i].socket) /\ clients[i].socket \in fds
    BY <1>2, <2>2, <2>4, <2>5
  <2>7. ReapedPart'
    BY <1>1, <2>3, <2>6 DEF ListIsTrue, ReapedPart
  <2>8. ListPart'
    BY <1>1, <2>2, <2>3, <2>6 DEF ListPart, Fresh, Forked, Live
  <2> QED BY <1>3, <1>4, <2>7, <2>8 DEF ListIsTrue
<1> QED BY <1>5, <1>6

LEMMA MainList ==
  ASSUME IInv, ListIsTrue, Main
  PROVE  ListIsTrue'
<1>1. TypeOK
  BY DEF IInv
<1> QED
  BY <1>1, MoveList, CheckTimeoutsList, AcceptList, RegisterList, ForkList,
     ForkFailsList, UnregisterList, RecordList DEF Main

-----------------------------------------------------------------------------
(* What becomes of tasks and of the server.                                *)

(* main left its loop with all tasks completed and no client listed.       *)
DonePart == srv = "over" => Finished

LInv == IInv /\ ListIsTrue /\ OnlyTheKilledKeepTasks /\ DonePart

THEOREM InitLInv == Init => LInv
<1> SUFFICES ASSUME Init PROVE LInv
  OBVIOUS
<1>1. IInv
  BY InitIInv
<1>2. ParentPart
  BY DEF Init, ParentPart, Stopped
<1>3. Listed = {}
  BY DEF Init, Listed
<1>4. ReapedPart /\ KilledPart
  BY <1>3 DEF Init, ReapedPart, KilledPart
<1>5. ListPart
  BY <1>3 DEF Init, ListPart, Adding, Live
<1>6. OnlyTheKilledKeepTasks /\ DonePart
  BY DEF Init, OnlyTheKilledKeepTasks, DonePart
<1> QED BY <1>1, <1>2, <1>4, <1>5, <1>6 DEF LInv, ListIsTrue

LEMMA NextList == LInv /\ [Next]_vars => ListIsTrue'
<1> SUFFICES ASSUME LInv, [Next]_vars PROVE ListIsTrue'
  OBVIOUS
<1>0. IInv /\ ListIsTrue /\ TypeOK
  BY DEF LInv, IInv
<1>1. CASE Main
  BY <1>0, <1>1, MainList
<1>2. CASE Handler
  BY <1>0, <1>2, HandlerList
<1>3. ASSUME NEW w \in Workers, HandleClient(w) \/ WorkerClient(w) PROVE ListIsTrue'
  BY <1>0, <1>3, HandleClientList, WorkerList
<1>4. CASE UNCHANGED vars
  BY <1>0, <1>4, QuietStep DEF vars, childVars
<1> QED BY <1>1, <1>2, <1>3, <1>4 DEF Next

(* Steps that leave tasks[] alone: whoever kept a task still does.         *)
LEMMA KeepersKept ==
  ASSUME OnlyTheKilledKeepTasks, UNCHANGED taskVars,
         \A w \in Workers : Live(w) \/ w \in killed =>
           task_id'[w] = task_id[w] /\ (child'[w] \in {"live", "adrift"} \/ w \in killed')
  PROVE  OnlyTheKilledKeepTasks'
<1> SUFFICES ASSUME NEW t \in Tasks, assigned[t], ~ completed[t]
             PROVE  \E w \in Workers : task_id'[w] = t /\ (child'[w] \in {"live", "adrift"} \/ w \in killed')
  BY DEF OnlyTheKilledKeepTasks, taskVars, Live
<1>1. PICK w \in Workers : task_id[w] = t /\ (Live(w) \/ w \in killed)
  BY DEF OnlyTheKilledKeepTasks
<1> QED BY <1>1

(* The parent, main or handler, gives nothing back and wakes nobody with   *)
(* a task; whom it kills counts as killed.                                 *)
LEMMA ParentKeeps ==
  ASSUME LInv, Main \/ Handler
  PROVE  OnlyTheKilledKeepTasks'
<1>0. /\ IInv /\ TypeOK /\ OnlyTheKilledKeepTasks
      /\ child \in [Workers -> ChildStates] /\ killed \subseteq Workers
      /\ task_id \in [Workers -> {NoTask} \cup Tasks]
      /\ \A w \in killed : child[w] \in {"zombie", "reaped"}
  BY DEF LInv, IInv, TypeOK, ListIsTrue, KilledPart
<1>1. CASE Lock \/ LockInterrupted \/ UnlockChecked \/ CountTasks \/ Unregister \/ Record
           \/ SigChld
  <2>1. UNCHANGED <<taskVars, child, task_id, killed>>
    BY <1>1 DEF Lock, LockInterrupted, UnlockChecked, CountTasks, Unregister, Record,
                SigChld, childVars
  <2> QED BY <1>0, <2>1, KeepersKept DEF Live
<1>2. CASE CheckTimeouts
  <2>1. PICK idle \in SUBSET Listed :
          LET victims == {clients[i].pid_handler : i \in idle} \cap Workers
              dying   == {w \in victims : Live(w)}
          IN  /\ Remove(idle)
              /\ child' = [w \in Workers |-> IF w \in dying THEN "zombie" ELSE child[w]]
              /\ killed' = killed \cup dying
              /\ sig' = (sig \/ dying # {})
              /\ HangUp(dying)
    BY <1>2 DEF CheckTimeouts
  <2> DEFINE dying == {w \in {clients[i].pid_handler : i \in idle} \cap Workers : Live(w)}
  <2>2. /\ child' = [w \in Workers |-> IF w \in dying THEN "zombie" ELSE child[w]]
        /\ killed' = killed \cup dying
        /\ Remove(idle)
    BY <2>1, Zenon
  <2> HIDE DEF dying
  <2>3. UNCHANGED taskVars /\ task_id' = task_id
    BY <1>0, <1>2, <2>2, RemoveEffect DEF CheckTimeouts, taskVars
  <2>4. ASSUME NEW w \in Workers, Live(w) \/ w \in killed
        PROVE  child'[w] \in {"live", "adrift"} \/ w \in killed'
    BY <2>2, <2>4 DEF Live
  <2> QED BY <1>0, <2>3, <2>4, KeepersKept
<1>3. CASE Accept
  <2>1. PICK w \in Workers : child[w] = "none" /\ child' = [child EXCEPT ![w] = "unborn"]
    BY <1>3 DEF Accept
  <2>2. UNCHANGED <<taskVars, task_id, killed>>
    BY <1>3 DEF Accept
  <2> QED BY <1>0, <2>1, <2>2, KeepersKept DEF Live
<1>4. CASE Register \/ ForkFails
  <2>1. accepted \in Workers /\ child[accepted] = "unborn"
    BY <1>4 DEF Register, ForkFails, Inside, Running, LInv, ListIsTrue, ParentPart
  <2>2. /\ child' = child \/ child' = [child EXCEPT ![accepted] = "refused"]
        /\ UNCHANGED <<taskVars, task_id, killed>>
    BY <1>4 DEF Register, ForkFails, Refuse
  <2> QED BY <1>0, <2>1, <2>2, KeepersKept DEF Live
<1>5. CASE Fork
  <2>1. accepted \in Workers /\ child[accepted] = "unborn"
    BY <1>5 DEF Fork, Running, LInv, ListIsTrue, ParentPart
  <2>2. \A w \in Workers \ {accepted} : task_id'[w] = task_id[w]
    BY <1>0, <1>5 DEF Fork
  <2>3. /\ \A w \in Workers \ {accepted} : child'[w] = child[w]
        /\ UNCHANGED <<taskVars, killed>>
    BY <1>0, <1>5 DEF Fork
  <2>4. ASSUME NEW w \in Workers, Live(w) \/ w \in killed
        PROVE  task_id'[w] = task_id[w] /\ (child'[w] \in {"live", "adrift"} \/ w \in killed')
    <3>1. w # accepted
      BY <1>0, <2>1, <2>4 DEF Live
    <3> QED BY <1>0, <2>2, <2>3, <2>4, <3>1 DEF Live
  <2> QED BY <1>0, <2>3, <2>4, KeepersKept
<1>6. CASE WaitPid
  <2>1. /\ \/ child' = child
           \/ \E w \in Workers : child[w] = "zombie" /\ child' = [child EXCEPT ![w] = "reaped"]
        /\ UNCHANGED <<taskVars, task_id, killed>>
    BY <1>6 DEF WaitPid
  <2> QED BY <1>0, <2>1, KeepersKept DEF Live
<1>7. CASE Forget
  <2>1. UNCHANGED taskVars
    <3>1. ASSUME NEW i \in Listed, Remove({i}) PROVE UNCHANGED taskVars
      BY <1>0, <3>1, RemoveEffect DEF taskVars
    <3> QED BY <1>7, <3>1 DEF Forget
  <2>2. UNCHANGED <<task_id, child, killed>>
    BY <1>7 DEF Forget, childVars
  <2> QED BY <1>0, <2>1, <2>2, KeepersKept DEF Live
<1> QED BY <1>1, <1>2, <1>3, <1>4, <1>5, <1>6, <1>7 DEF Main, Handler

LEMMA HandleClientKeeps ==
  ASSUME LInv, NEW w \in Workers, HandleClient(w)
  PROVE  OnlyTheKilledKeepTasks'
<1>0. /\ IInv /\ TypeOK /\ OnlyTheKilledKeepTasks
      /\ child \in [Workers -> ChildStates] /\ killed \subseteq Workers
      /\ task_id \in [Workers -> {NoTask} \cup Tasks]
      /\ completed \in [Tasks -> BOOLEAN] /\ assigned \in [Tasks -> BOOLEAN]
      /\ \A v \in killed : child[v] \in {"zombie", "reaped"}
      /\ NoTask \notin Tasks
  BY DEF LInv, IInv, TypeOK, ListIsTrue, KilledPart, NoTask, Tasks
<1>1. CASE ServeGetTask(w)
  <2>1. Live(w) /\ child' = child /\ killed' = killed /\ completed' = completed
    BY <1>1 DEF ServeGetTask, Serve, Live
  <2>2. CASE UNCHANGED <<assigned, assigned_to, task_id>>
    BY <1>0, <2>1, <2>2, KeepersKept DEF Live, taskVars
  <2>3. ASSUME task_id[w] = NoTask, NEW t \in Tasks,
               assigned' = [assigned EXCEPT ![t] = TRUE],
               task_id' = [task_id EXCEPT ![w] = t]
        PROVE  OnlyTheKilledKeepTasks'
    <3> SUFFICES ASSUME NEW u \in Tasks, assigned'[u], ~ completed[u]
                 PROVE  \E v \in Workers : task_id'[v] = u /\ (child[v] \in {"live", "adrift"} \/ v \in killed)
      BY <2>1 DEF OnlyTheKilledKeepTasks, Live
    <3>1. CASE u = t
      BY <1>0, <2>1, <2>3, <3>1 DEF Live
    <3>2. CASE u # t
      <4>1. assigned[u]
        BY <1>0, <2>3, <3>2
      <4>2. PICK v \in Workers : task_id[v] = u /\ (Live(v) \/ v \in killed)
        BY <1>0, <4>1 DEF OnlyTheKilledKeepTasks
      <4> QED BY <1>0, <2>3, <4>2 DEF Live
    <3> QED BY <3>1, <3>2
  <2> QED BY <1>1, <2>2, <2>3 DEF ServeGetTask
<1>2. CASE ServeResult(w)
  <2>1. Live(w) /\ UNCHANGED <<assigned, assigned_to, child, killed>>
    BY <1>2 DEF ServeResult, Serve, Live
  <2>2. CASE UNCHANGED <<completed, task_id>>
    BY <1>0, <2>1, <2>2, KeepersKept DEF Live, taskVars
  <2>3. ASSUME completed' = [completed EXCEPT ![task_id[w]] = TRUE],
               task_id' = [task_id EXCEPT ![w] = NoTask]
        PROVE  OnlyTheKilledKeepTasks'
    <3> SUFFICES ASSUME NEW u \in Tasks, assigned[u], ~ completed'[u]
                 PROVE  \E v \in Workers : task_id'[v] = u /\ (child[v] \in {"live", "adrift"} \/ v \in killed)
      BY <2>1 DEF OnlyTheKilledKeepTasks, Live
    <3>1. ~ completed[u] /\ u # task_id[w]
      BY <1>0, <2>3
    <3>2. PICK v \in Workers : task_id[v] = u /\ (Live(v) \/ v \in killed)
      BY <1>0, <3>1 DEF OnlyTheKilledKeepTasks
    <3> QED BY <1>0, <2>3, <3>1, <3>2 DEF Live
  <2> QED BY <1>2, <2>2, <2>3 DEF ServeResult
<1>3. CASE ServeExit(w)
  <2>1. /\ Live(w) /\ GiveBack({task_id[w]}) /\ killed' = killed
        /\ child' = [child EXCEPT ![w] = "zombie"]
        /\ task_id' = [task_id EXCEPT ![w] = NoTask]
    BY <1>3 DEF ServeExit, LeavesReturning, Ends, Serve, Live
  <2>2. completed' = completed /\ \A t \in Tasks : assigned'[t] =>
          assigned[t] /\ (t # task_id[w] \/ completed[t])
    BY <2>1 DEF GiveBack
  <2> SUFFICES ASSUME NEW u \in Tasks, assigned'[u], ~ completed[u]
               PROVE  \E v \in Workers : task_id'[v] = u /\ (child'[v] \in {"live", "adrift"} \/ v \in killed)
    BY <2>1, <2>2 DEF OnlyTheKilledKeepTasks, Live
  <2>3. PICK v \in Workers : task_id[v] = u /\ (Live(v) \/ v \in killed)
    BY <1>0, <2>2 DEF OnlyTheKilledKeepTasks
  <2>4. v # w
    BY <2>2, <2>3
  <2> QED BY <1>0, <2>1, <2>3, <2>4 DEF Live
<1>4. CASE Fails(w)
  <2>1. /\ child' = [child EXCEPT ![w] = "zombie"] /\ killed' = killed \cup {w}
        /\ UNCHANGED <<taskVars, task_id>>
    BY <1>4 DEF Fails, Ends
  <2> QED BY <1>0, <2>1, KeepersKept DEF Live
<1> QED BY <1>1, <1>2, <1>3, <1>4 DEF HandleClient

LEMMA NextKeeps == LInv /\ [Next]_vars => OnlyTheKilledKeepTasks'
<1> SUFFICES ASSUME LInv, [Next]_vars PROVE OnlyTheKilledKeepTasks'
  OBVIOUS
<1>1. CASE Main \/ Handler
  BY <1>1, ParentKeeps
<1>2. ASSUME NEW w \in Workers, HandleClient(w) PROVE OnlyTheKilledKeepTasks'
  BY <1>2, HandleClientKeeps
<1>3. ASSUME NEW w \in Workers, WorkerClient(w) PROVE OnlyTheKilledKeepTasks'
  <2>1. Worker(w)
    BY <1>3 DEF WorkerClient, Connect, AskTask, SendResult, Receive, Misparse, Leave, Sends
  <2> QED BY <2>1, KeepersKept DEF LInv, Worker, childVars, Live
<1>4. CASE UNCHANGED vars
  BY <1>4, KeepersKept DEF LInv, vars, childVars, Live
<1> QED BY <1>1, <1>2, <1>3, <1>4 DEF Next

(* Once main has left its loop it takes no step, and nothing is listed.    *)
LEMMA NextDone == LInv /\ [Next]_vars => DonePart'
<1> SUFFICES ASSUME LInv, [Next]_vars, srv' = "over" PROVE Finished'
  BY DEF DonePart
<1>0. completed \in [Tasks -> BOOLEAN]
  BY DEF LInv, IInv, TypeOK
<1>1. CASE Main
  <2>1. CountTasks /\ Finished
    BY <1>1 DEF Main, Lock, LockInterrupted, CheckTimeouts, UnlockChecked, CountTasks,
                Accept, Register, NewEntry, Fork, ForkFails, Unregister, Record, Sections,
                Inside, Running
  <2> QED BY <2>1 DEF CountTasks, Finished, taskVars, listVars
<1>2. CASE Handler
  <2>1. srv = "over"
    BY <1>2 DEF Handler, SigChld, WaitPid, Forget, mainVars
  <2>2. hpc = "out"
    BY <2>1 DEF LInv, ListIsTrue, ParentPart, Stopped
  <2> QED BY <1>2, <2>1, <2>2 DEF Handler, SigChld, WaitPid, Forget, Stopped
<1>3. ASSUME NEW w \in Workers, HandleClient(w) PROVE Finished'
  <2>1. UNCHANGED <<listVars, mainVars>>
    BY <1>3 DEF HandleClient, ServeGetTask, ServeResult, ServeExit, Fails
  <2>2. \A t \in Tasks : completed[t] => completed'[t]
    BY <1>0, <1>3 DEF HandleClient, ServeGetTask, ServeResult, ServeExit, LeavesReturning,
                      GiveBack, Fails, taskVars
  <2> QED BY <2>1, <2>2 DEF LInv, DonePart, Finished, listVars, mainVars
<1>4. ASSUME NEW w \in Workers, WorkerClient(w) PROVE Finished'
  <2>1. Worker(w)
    BY <1>4 DEF WorkerClient, Connect, AskTask, SendResult, Receive, Misparse, Leave, Sends
  <2> QED BY <2>1 DEF LInv, DonePart, Finished, Worker, taskVars, listVars, mainVars
<1>5. CASE UNCHANGED vars
  BY <1>5 DEF LInv, DonePart, Finished, vars, taskVars, listVars, mainVars
<1> QED BY <1>1, <1>2, <1>3, <1>4, <1>5 DEF Next

LEMMA NextLInv == LInv /\ [Next]_vars => LInv'
<1>1. LInv => IInv
  BY DEF LInv
<1> QED BY <1>1, NextIInv, NextList, NextKeeps, NextDone DEF LInv

-----------------------------------------------------------------------------
(* What main, its SIGCHLD handler and clients[] know of the handler        *)
(* processes is true between any two steps, for any number of workers,     *)
(* tasks and entries, until SIGCHLD comes while main has the mutex or is   *)
(* adding an entry.                                                        *)
THEOREM ParentKnows == Spec => []ListIsTrue
<1>1. LInv => ListIsTrue
  BY DEF LInv
<1> QED BY <1>1, InitLInv, NextLInv, PTL DEF Spec

(* Whatever SIGCHLD interrupts: an unfinished task stays assigned only to  *)
(* a handler that is running, or to one that was killed or failed.         *)
THEOREM TasksComeBack == Spec => []OnlyTheKilledKeepTasks
<1>1. LInv => OnlyTheKilledKeepTasks
  BY DEF LInv
<1> QED BY <1>1, InitLInv, NextLInv, PTL DEF Spec

(* The entries are the open connections, one each, and every handler that  *)
(* runs can be found by its pid: what check_timeouts and SIGCHLD rely on.  *)
THEOREM ClientsAreTracked == Spec => []ClientsTracked
<1>1. LInv => ClientsTracked
  <2> SUFFICES ASSUME LInv, ~ exposed, srv \notin {"unregister", "aborted"}
               PROVE  /\ \A i, k \in Listed : i # k => clients[i].socket # clients[k].socket
                      /\ \A i \in Listed : clients[i].socket \in fds
                      /\ \A w \in Workers : Live(w) => \E i \in Listed :
                           /\ clients[i].socket = w
                           /\ srv = "record" \/ clients[i].pid_handler = w
    BY DEF ClientsTracked
  <2>1. ASSUME NEW w \in Workers, Live(w)
        PROVE  \E i \in Listed : /\ clients[i].socket = w
                                 /\ srv = "record" \/ clients[i].pid_handler = w
    <3>1. PICK i \in Listed : clients[i].socket = w
      BY <2>1 DEF LInv, ListIsTrue, ListPart
    <3>2. CASE srv = "fork" /\ i = client_idx
      <4>1. clients[i].socket = accepted /\ child[accepted] = "unborn"
        BY <3>2 DEF LInv, ListIsTrue, ListPart, ParentPart, Fresh, Adding
      <4> QED BY <2>1, <3>1, <4>1 DEF Live
    <3>3. CASE srv = "record"
      BY <3>1, <3>3
    <3>4. CASE ~ Fresh(i)
      <4>1. clients[i].pid_handler = clients[i].socket
        BY <3>4 DEF LInv, ListIsTrue, ListPart
      <4> QED BY <3>1, <4>1
    <3> QED BY <3>2, <3>3, <3>4 DEF Fresh, Adding
  <2> QED BY <2>1 DEF LInv, ListIsTrue, ListPart
<1> QED BY <1>1, InitLInv, NextLInv, PTL DEF Spec

(* main leaves its loop only when every task is completed and no handler   *)
(* is running: the semaphore it removes is nobody's any more.              *)
THEOREM ShutdownAlwaysClean == Spec => []ShutdownIsClean
<1>1. LInv => ShutdownIsClean
  <2> SUFFICES ASSUME LInv, srv = "over", ~ exposed
               PROVE  (\A t \in Tasks : completed[t]) /\ (\A w \in Workers : ~ Live(w))
    BY DEF ShutdownIsClean
  <2>1. (\A t \in Tasks : completed[t]) /\ Listed = {}
    BY DEF LInv, DonePart, Finished, Listed
  <2>2. \A w \in Workers : Live(w) => \E i \in Listed : clients[i].socket = w
    BY DEF LInv, ListIsTrue, ListPart
  <2> QED BY <2>1, <2>2
<1> QED BY <1>1, InitLInv, NextLInv, PTL DEF Spec

(* However many handlers end for one SIGCHLD, each is reaped or still to   *)
(* be reaped, and no entry of a reaped one stays.                          *)
THEOREM NoneForgotten == Spec => []NoHandlerForgotten
<1>1. LInv => NoHandlerForgotten
  <2> SUFFICES ASSUME LInv, NEW w \in Workers
               PROVE  /\ child[w] = "zombie" => sig \/ hpc # "out" \/ srv \in Stopped
                      /\ child[w] = "reaped" /\ hpid # w /\ ~ exposed =>
                           \A i \in Listed : clients[i].socket # w
    BY DEF NoHandlerForgotten
  <2> QED BY DEF LInv, ListIsTrue, ParentPart, ReapedPart
<1> QED BY <1>1, InitLInv, NextLInv, PTL DEF Spec
=============================================================================
