----------------------------- MODULE TaskQueue -----------------------------
(***************************************************************************)
(* The task queue server of week_8: the parent process that accepts the    *)
(* workers and forks a handler for each, its SIGCHLD handler, the handler  *)
(* processes, and the workers of worker_client.c.                          *)
(*                                                                         *)
(* tasks[] is shared memory under one System V mutex.  clients[] is not    *)
(* shared: each handler works on the copy that fork gave it, of which only *)
(* the has_task and task_id of its own client are ever read, and the       *)
(* parent's copy keeps what the parent wrote.  A critical section of a     *)
(* handler process is one action; one of the parent is a Lock and a body,  *)
(* because SIGCHLD can arrive in between and its handler locks as well.    *)
(***************************************************************************)
EXTENDS Integers, FiniteSets

CONSTANTS
  Workers,       \* worker processes; each is also the socket it gets
  NTasks,        \* task_count
  MAX_CLIENTS,   \* entries of clients[]
  None           \* no worker, no pid

ASSUME QueueAssumption ==
  /\ NTasks \in Nat \ {0} /\ MAX_CLIENTS \in Nat \ {0}
  /\ IsFiniteSet(Workers) /\ None \notin Workers

VARIABLES
  assigned, completed, assigned_to,       \* tasks[]
  clients, client_count,                  \* the parent's clients[]
  srv, held,      \* the parent: where main is, and whether it has the mutex
  accepted, client_idx,      \* main's client_socket and client_idx
  fds,            \* client sockets the parent has open
  sig, hpc, hpid, \* SIGCHLD pending; the parent's handler and what it reaped
  child, task_id, \* handler processes, and the task each has, in its copy
  killed,         \* history: handlers that ended with no regard to their task
  exposed,        \* history: SIGCHLD came while the parent could not bear it
  wk, req, resp   \* workers; the request and the answer on each connection

taskVars == <<assigned, completed, assigned_to>>
listVars == <<clients, client_count>>
mainVars == <<srv, held, accepted, client_idx>>
sigVars  == <<hpc, hpid, exposed>>
childVars == <<child, task_id, killed, sig>>
netVars  == <<wk, req, resp>>
vars == <<taskVars, listVars, mainVars, fds, sigVars, childVars, netVars>>

Tasks == 1 .. NTasks
NoTask == 0
Slots == 1 .. MAX_CLIENTS
Entry == [socket : Workers \cup {None}, pid_handler : Workers \cup {None},
          task : {NoTask} \cup Tasks]
Listed == 1 .. client_count
Live(w) == child[w] \in {"live", "adrift"}

Init ==
  /\ assigned = [t \in Tasks |-> FALSE]
  /\ completed = [t \in Tasks |-> FALSE]
  /\ assigned_to = [t \in Tasks |-> None]
  /\ clients = [i \in Slots |-> [socket |-> None, pid_handler |-> None,
                                 task |-> NoTask]]
  /\ client_count = 0
  /\ srv = "check" /\ held = FALSE /\ accepted = None /\ client_idx = 0
  /\ fds = {}
  /\ sig = FALSE /\ hpc = "out" /\ hpid = None
  /\ child = [w \in Workers |-> "none"]
  /\ task_id = [w \in Workers |-> NoTask]
  /\ killed = {} /\ exposed = FALSE
  /\ wk = [w \in Workers |-> "out"]
  /\ req = [w \in Workers |-> "none"]
  /\ resp = [w \in Workers |-> "none"]

-----------------------------------------------------------------------------
(* The connections of the workers ws are over with their handlers: what    *)
(* those workers still read or write reaches nobody.                       *)
HangUp(ws) ==
  /\ wk' = [w \in Workers |-> IF w \in ws THEN "fin" ELSE wk[w]]
  /\ req' = [w \in Workers |-> IF w \in ws THEN "none" ELSE req[w]]
  /\ resp' = [w \in Workers |-> IF w \in ws THEN "none" ELSE resp[w]]

(* Tasks given back: those of the set that are not completed.              *)
GiveBack(ts) ==
  LET open == {t \in ts \cap Tasks : ~ completed[t]} IN
  /\ assigned' = [t \in Tasks |-> assigned[t] /\ t \notin open]
  /\ assigned_to' = [t \in Tasks |-> IF t \in open THEN None ELSE assigned_to[t]]
  /\ UNCHANGED completed

(* clients[] without the entries gone, the others moved down one at a      *)
(* time; the slots that this frees keep the entry that was the last.       *)
Kept(gone, i) == {k \in Listed \ gone : Cardinality((1 .. k) \ gone) = i}
Remove(gone) ==
  /\ clients' = [i \in Slots |->
       clients[IF Kept(gone, i) # {} THEN CHOOSE k \in Kept(gone, i) : TRUE
               ELSE IF i \in Listed THEN client_count ELSE i]]
  /\ client_count' = Cardinality(Listed \ gone)
  /\ fds' = fds \ {clients[i].socket : i \in gone}
  /\ GiveBack({clients[i].task : i \in gone})

-----------------------------------------------------------------------------
(* main of the server.                                                     *)

Stopped == {"over", "aborted", "undefined"}
Running(here) == srv = here /\ hpc = "out"
Sections == {"check", "count", "register", "unregister", "record"}

Lock ==
  /\ srv \in Sections /\ ~ held /\ hpc = "out"
  /\ held' = TRUE
  /\ UNCHANGED <<srv, accepted, client_idx, taskVars, listVars, fds, sigVars,
                 childVars, netVars>>

(* semop is not restarted after a signal: SIGCHLD while main waits for the *)
(* mutex, which a live handler has, ends the server.                       *)
LockInterrupted ==
  /\ srv \in Sections /\ ~ held /\ hpc = "out"
  /\ sig
  /\ \E w \in Workers : Live(w)
  /\ srv' = "aborted"
  /\ UNCHANGED <<held, accepted, client_idx, taskVars, listVars, fds, sigVars,
                 childVars, netVars>>

Inside(section) == Running(section) /\ held

(* check_timeouts: last_active of the parent's copy is never refreshed, so *)
(* any client may be found idle.  Its handler is sent SIGTERM.             *)
CheckTimeouts ==
  /\ Inside("check")
  /\ \E idle \in SUBSET Listed :
       LET victims == {clients[i].pid_handler : i \in idle} \cap Workers
           dying   == {w \in victims : Live(w)}
       IN  /\ Remove(idle)
           /\ child' = [w \in Workers |-> IF w \in dying THEN "zombie" ELSE child[w]]
           /\ killed' = killed \cup dying
           /\ sig' = (sig \/ dying # {})
           /\ HangUp(dying)
  /\ srv' = "checked"
  /\ UNCHANGED <<held, accepted, client_idx, task_id, sigVars>>

UnlockChecked ==
  /\ Inside("checked")
  /\ held' = FALSE
  /\ srv' = "count"
  /\ UNCHANGED <<accepted, client_idx, taskVars, listVars, fds, sigVars,
                 childVars, netVars>>

(* All tasks completed and no client: main leaves the loop.                *)
AllDoneOnly == \A t \in Tasks : completed[t]
Finished == (\A t \in Tasks : completed[t]) /\ client_count = 0

CountTasks ==
  /\ Inside("count")
  /\ held' = FALSE
  /\ srv' = IF Finished THEN "over" ELSE "accept"
  /\ UNCHANGED <<accepted, client_idx, taskVars, listVars, fds, sigVars,
                 childVars, netVars>>

(* accept blocks: server_fd is a blocking socket.                          *)
Accept ==
  /\ Running("accept")
  /\ \E w \in Workers :
       /\ wk[w] # "out" /\ child[w] = "none"
       /\ accepted' = w
       /\ fds' = fds \cup {w}
       /\ child' = [child EXCEPT ![w] = "unborn"]
  /\ srv' = "register"
  /\ UNCHANGED <<held, client_idx, taskVars, listVars, sigVars, task_id,
                 killed, sig, netVars>>

(* client_socket and client_idx are locals of the loop's body.             *)
EndOfBody == accepted' = None /\ client_idx' = 0

(* A new entry at the end of clients[], whose pid_handler keeps the value  *)
(* the slot had; with no room the connection is closed.                    *)
NewEntry(i) ==
  /\ clients' = [clients EXCEPT ![i].socket = accepted, ![i].task = NoTask]
  /\ client_count' = i
  /\ client_idx' = i
  /\ srv' = "fork"

Refuse == /\ fds' = fds \ {accepted}
          /\ child' = [child EXCEPT ![accepted] = "refused"]
          /\ HangUp({accepted})

(* Mutant: the room is tested with > instead of >=.                        *)
RegisterOneMore ==
  /\ Inside("register")
  /\ held' = FALSE
  /\ IF client_count <= MAX_CLIENTS
     THEN NewEntry(client_count + 1) /\ UNCHANGED <<accepted, fds, child, netVars>>
     ELSE Refuse /\ srv' = "check" /\ EndOfBody /\ UNCHANGED listVars
  /\ UNCHANGED <<taskVars, sigVars, task_id, killed, sig>>

Register ==
  /\ Inside("register")
  /\ held' = FALSE
  /\ IF client_count < MAX_CLIENTS
     THEN NewEntry(client_count + 1) /\ UNCHANGED <<accepted, fds, child, netVars>>
     ELSE Refuse /\ srv' = "check" /\ EndOfBody /\ UNCHANGED listVars
  /\ UNCHANGED <<taskVars, sigVars, task_id, killed, sig>>

(* fork: the handler starts with the parent's copy of the client's entry.  *)
(* The entry may be gone, as in Unregister, and the socket was closed with *)
(* it: that handler looks for its client for ever.                         *)
Fork ==
  /\ Running("fork")
  /\ \/ /\ \E i \in Listed :
             /\ clients[i].socket = accepted
             /\ task_id' = [task_id EXCEPT ![accepted] = clients[i].task]
        /\ child' = [child EXCEPT ![accepted] = "live"]
        /\ UNCHANGED netVars
     \/ /\ \A i \in Listed : clients[i].socket # accepted
        /\ task_id' = [task_id EXCEPT ![accepted] = NoTask]
        /\ child' = [child EXCEPT ![accepted] = "adrift"]
        /\ HangUp({accepted})
  /\ srv' = "record"
  /\ UNCHANGED <<held, accepted, client_idx, taskVars, listVars, fds, sigVars,
                 killed, sig>>

ForkFails ==
  /\ Running("fork")
  /\ Refuse
  /\ srv' = "unregister"
  /\ UNCHANGED <<held, accepted, client_idx, taskVars, listVars, sigVars,
                 task_id, killed, sig>>

(* Mutant: the entry of a client without a handler stays.                  *)
UnregisterNothing ==
  /\ Inside("unregister")
  /\ held' = FALSE
  /\ srv' = "check"
  /\ EndOfBody
  /\ UNCHANGED <<listVars, taskVars, fds, sigVars,
                 childVars, netVars>>

(* The entry may be gone already, when a handler whose pid the slot still  *)
(* had was reaped meanwhile.  With client_count at -1 the next client is   *)
(* written before clients[]: the model stops there.                        *)
Unregister ==
  /\ Inside("unregister")
  /\ held' = FALSE
  /\ client_count' = client_count - 1
  /\ srv' = IF client_count = 0 THEN "undefined" ELSE "check"
  /\ EndOfBody
  /\ UNCHANGED <<clients, taskVars, fds, sigVars,
                 childVars, netVars>>

(* The pid of the handler goes to the slot the entry was given, wherever   *)
(* the entry is by now.                                                    *)
Record ==
  /\ Inside("record")
  /\ held' = FALSE
  /\ clients' = [clients EXCEPT ![client_idx].pid_handler = accepted]
  /\ srv' = "check"
  /\ EndOfBody
  /\ UNCHANGED <<client_count, taskVars, fds, sigVars,
                 childVars, netVars>>

Main == \/ Lock \/ LockInterrupted \/ CheckTimeouts \/ UnlockChecked
        \/ CountTasks \/ Accept \/ Register \/ Fork \/ ForkFails
        \/ Unregister \/ Record

-----------------------------------------------------------------------------
(* handle_sigchld, on top of main.  SIGCHLD does not queue: one signal may *)
(* stand for several children, so it reaps until there are no more.        *)

(* main holds the mutex, or a client without its handler's pid is listed.  *)
Exposed == held \/ srv \in {"fork", "unregister", "record"}

SigChld ==
  /\ sig /\ hpc = "out" /\ srv \notin Stopped
  /\ sig' = FALSE
  /\ hpc' = "wait"
  /\ exposed' = (exposed \/ Exposed)
  /\ UNCHANGED <<taskVars, listVars, mainVars, fds, hpid, child, task_id,
                 killed, netVars>>

(* waitpid with WNOHANG.                                                   *)
WaitPid ==
  /\ hpc = "wait"
  /\ \/ \E w \in Workers :
          /\ child[w] = "zombie"
          /\ child' = [child EXCEPT ![w] = "reaped"]
          /\ hpid' = w /\ hpc' = "lock"
     \/ /\ \A w \in Workers : child[w] # "zombie"
        /\ hpc' = "out"
        /\ UNCHANGED <<child, hpid>>
  /\ UNCHANGED <<taskVars, listVars, mainVars, fds, exposed, task_id, killed,
                 sig, netVars>>

(* Mutant: the handler reaps one child per signal.                         *)
AgainNever == "out"
Again == "wait"

(* The entry of the child that ended, under the mutex.                     *)
Forget ==
  /\ hpc = "lock" /\ ~ held
  /\ LET mine == {i \in Listed : clients[i].pid_handler = hpid}
     IN  IF mine = {} THEN UNCHANGED <<listVars, fds, taskVars>>
         ELSE \E i \in mine : (\A k \in mine : i <= k) /\ Remove({i})
  /\ hpc' = Again /\ hpid' = None
  /\ UNCHANGED <<mainVars, exposed, childVars, netVars>>

Handler == SigChld \/ WaitPid \/ Forget

-----------------------------------------------------------------------------
(* handle_client: the handler process of worker w.                         *)

Connected(w) == wk[w] \notin {"out", "fin", "rst"}

Serve(w, request) ==
  /\ child[w] = "live" /\ ~ held /\ srv # "over"
  /\ wk[w] # "rst" /\ req[w] = request

Answer(w, message) ==
  /\ req' = [req EXCEPT ![w] = "none"]
  /\ resp' = [resp EXCEPT ![w] = IF Connected(w) THEN message ELSE @]
  /\ UNCHANGED wk

(* A task that may be handed out; and without the test of assigned.        *)
FreeAlways(t) == ~ completed[t]
Free(t) == ~ assigned[t] /\ ~ completed[t]

ServeGetTask(w) ==
  /\ Serve(w, "get")
  /\ LET free == {t \in Tasks : Free(t)} IN
     IF task_id[w] # NoTask
     THEN Answer(w, "error") /\ UNCHANGED <<assigned, assigned_to, task_id>>
     ELSE IF free = {}
     THEN Answer(w, "notask") /\ UNCHANGED <<assigned, assigned_to, task_id>>
     ELSE \E t \in free :
            /\ \A u \in free : t <= u
            /\ assigned' = [assigned EXCEPT ![t] = TRUE]
            /\ assigned_to' = [assigned_to EXCEPT ![t] = w]
            /\ task_id' = [task_id EXCEPT ![w] = t]
            /\ Answer(w, "task")
  /\ UNCHANGED <<completed, listVars, mainVars, fds, sigVars, child, killed, sig>>

ServeResult(w) ==
  /\ Serve(w, "result")
  /\ IF task_id[w] = NoTask
     THEN Answer(w, "error") /\ UNCHANGED <<completed, task_id>>
     ELSE /\ completed' = [completed EXCEPT ![task_id[w]] = TRUE]
          /\ task_id' = [task_id EXCEPT ![w] = NoTask]
          /\ Answer(w, "ok")
  /\ UNCHANGED <<assigned, assigned_to, listVars, mainVars, fds, sigVars,
                 child, killed, sig>>

(* exit: the parent is sent SIGCHLD.                                       *)
Ends(w) == child' = [child EXCEPT ![w] = "zombie"] /\ sig' = TRUE /\ HangUp({w})

(* Mutant: a handler leaves without a look at its task.                    *)
LeavesKeeping(w) == Ends(w) /\ UNCHANGED <<taskVars, killed>>
LeavesReturning(w) == Ends(w) /\ GiveBack({task_id[w]}) /\ UNCHANGED killed

(* The worker said exit; or recv returned 0: it closed the connection, and *)
(* all it sent has been read.                                              *)
ServeExit(w) ==
  /\ \/ Serve(w, "exit")
     \/ Serve(w, "none") /\ wk[w] = "fin"
  /\ LeavesReturning(w)
  /\ task_id' = [task_id EXCEPT ![w] = NoTask]
  /\ UNCHANGED <<listVars, mainVars, fds, sigVars>>

(* recv failed, or the server has removed the semaphore: exit(1).          *)
Fails(w) ==
  /\ Live(w)
  /\ wk[w] = "rst" \/ srv = "over"
  /\ Ends(w)
  /\ killed' = killed \cup {w}
  /\ UNCHANGED <<taskVars, listVars, mainVars, fds, sigVars, task_id>>

HandleClient(w) == \/ ServeGetTask(w) \/ ServeResult(w) \/ ServeExit(w) \/ Fails(w)

-----------------------------------------------------------------------------
(* The worker process.                                                     *)

Goto(w, next) == wk' = [wk EXCEPT ![w] = next]
Worker(w) == UNCHANGED <<taskVars, listVars, mainVars, fds, sigVars, childVars>>

Connect(w) ==
  /\ wk[w] = "out" /\ srv \notin Stopped
  /\ Goto(w, "idle")
  /\ Worker(w) /\ UNCHANGED <<req, resp>>

Sends(w, request, next) == /\ req' = [req EXCEPT ![w] = request]
                           /\ Goto(w, next)
                           /\ Worker(w) /\ UNCHANGED resp

AskTask(w) == wk[w] = "idle" /\ Sends(w, "get", "wait")

SendResult(w) == wk[w] = "working" /\ Sends(w, "result", "wait")

Receive(w) ==
  /\ wk[w] = "wait" /\ resp[w] # "none"
  /\ resp' = [resp EXCEPT ![w] = "none"]
  /\ IF resp[w] = "notask"
     THEN UNCHANGED wk /\ req' = [req EXCEPT ![w] = "exit"]
     ELSE Goto(w, IF resp[w] = "task" THEN "working" ELSE "idle") /\ UNCHANGED req
  /\ Worker(w)

(* A task that the worker cannot parse: it asks for another.               *)
Misparse(w) == /\ wk[w] = "working"
               /\ Goto(w, "idle")
               /\ Worker(w) /\ UNCHANGED <<req, resp>>

(* The connection is closed by the worker: SIGINT, ten polls without an    *)
(* answer, or the end of the process.  With an answer unread the           *)
(* connection is reset.                                                    *)
Leave(w) ==
  /\ Connected(w)
  /\ Goto(w, IF resp[w] = "none" THEN "fin" ELSE "rst")
  /\ resp' = [resp EXCEPT ![w] = "none"]
  /\ Worker(w) /\ UNCHANGED req

WorkerClient(w) == \/ Connect(w) \/ AskTask(w) \/ SendResult(w) \/ Receive(w)
                   \/ Misparse(w) \/ Leave(w)

Next == Main \/ Handler \/ \E w \in Workers : HandleClient(w) \/ WorkerClient(w)

Spec == Init /\ [][Next]_vars

-----------------------------------------------------------------------------
ChildStates == {"none", "unborn", "live", "adrift", "zombie", "reaped", "refused"}
SrvStates == Sections \cup {"checked", "accept", "fork"} \cup Stopped

TypeOK ==
  /\ assigned \in [Tasks -> BOOLEAN] /\ completed \in [Tasks -> BOOLEAN]
  /\ assigned_to \in [Tasks -> Workers \cup {None}]
  /\ clients \in [Slots -> Entry] /\ client_count \in -1 .. MAX_CLIENTS
  /\ srv \in SrvStates /\ held \in BOOLEAN
  /\ accepted \in Workers \cup {None} /\ client_idx \in 0 .. MAX_CLIENTS
  /\ fds \subseteq Workers
  /\ sig \in BOOLEAN /\ exposed \in BOOLEAN
  /\ hpc \in {"out", "wait", "lock"} /\ hpid \in Workers \cup {None}
  /\ child \in [Workers -> ChildStates]
  /\ task_id \in [Workers -> {NoTask} \cup Tasks]
  /\ killed \subseteq Workers
  /\ wk \in [Workers -> {"out", "idle", "wait", "working", "fin", "rst"}]
  /\ req \in [Workers -> {"none", "get", "result", "exit"}]
  /\ resp \in [Workers -> {"none", "task", "notask", "ok", "error"}]

(* A task is assigned to one client at a time: what a live handler takes   *)
(* for its task is assigned to it in shared memory, not completed, and no  *)
(* other live handler has it, whoever died, was timed out or gave it back. *)
HolderOwnsTask ==
  \A w \in Workers : Live(w) /\ task_id[w] # NoTask =>
    /\ assigned[task_id[w]] /\ ~ completed[task_id[w]]
    /\ assigned_to[task_id[w]] = w

(* A handler that ended because its worker left or said exit has given its *)
(* task back: an unfinished task stays assigned only to a live handler or  *)
(* to one that was killed.                                                 *)
OnlyTheKilledKeepTasks ==
  \A t \in Tasks : assigned[t] /\ ~ completed[t] =>
    \E w \in Workers : task_id[w] = t /\ (Live(w) \/ w \in killed)

(* Unless SIGCHLD came at a bad moment, clients[] is the list of the open  *)
(* connections: each entry is a socket of its own that is open, and each   *)
(* handler that is running can be found by its pid.                        *)
ClientsTracked ==
  ~ exposed /\ srv \notin {"unregister", "aborted"} =>
    /\ \A i, k \in Listed : i # k => clients[i].socket # clients[k].socket
    /\ \A i \in Listed : clients[i].socket \in fds
    /\ \A w \in Workers : Live(w) /\ w \notin killed =>
         \E i \in Listed :
           clients[i].socket = w /\ (srv = "record" \/ clients[i].pid_handler = w)

(* Unless SIGCHLD came at a bad moment, the server leaves its loop only    *)
(* when every task is completed and no handler is running.                 *)
ShutdownIsClean ==
  srv = "over" /\ ~ exposed =>
    (\A t \in Tasks : completed[t]) /\ (\A w \in Workers : ~ Live(w))

(* A handler that ended is not forgotten, also when several end while the  *)
(* parent gets one SIGCHLD: it is still to be reaped, or its entry is off  *)
(* the list; unless SIGCHLD came at a bad moment.                          *)
NoHandlerForgotten ==
  \A w \in Workers :
    /\ child[w] = "zombie" => sig \/ hpc # "out" \/ srv \in Stopped
    /\ child[w] = "reaped" /\ hpid # w /\ ~ exposed =>
         \A i \in Listed : clients[i].socket # w

(* Readme.md: a client that times out or whose handler ends has its        *)
(* unfinished task returned to the queue.                                  *)
TaskNotLost ==
  \A t \in Tasks : assigned[t] /\ ~ completed[t] =>
    \E w \in Workers : task_id[w] = t /\ (child[w] \in {"live", "zombie"} \/ hpid = w)
=============================================================================
