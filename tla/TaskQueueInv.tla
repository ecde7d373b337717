---------------------------- MODULE TaskQueueInv ----------------------------
(***************************************************************************)
(* Why clients[] can be trusted, and what becomes of handlers and of their *)
(* tasks: the invariant that relates main, its SIGCHLD handler, the        *)
(* entries of clients[] and the handler processes.                         *)
(***************************************************************************)
EXTENDS TaskQueue

(* main has put an entry at the end of clients[], and not yet the pid of   *)
(* its handler in it.                                                      *)
Adding   == srv \in {"fork", "unregister", "record"}
Fresh(i) == Adding /\ i = client_idx

Forked(w) == child[w] \in {"live", "adrift", "zombie", "reaped"}

(* main knows the client it is working on, the SIGCHLD handler the child   *)
(* it has reaped, and it waits for more as long as there may be any.       *)
ParentPart ==
  /\ srv \in {"register", "fork", "unregister", "record"} => accepted \in Workers
  /\ srv \in {"register", "fork"} => child[accepted] = "unborn"
  /\ srv = "unregister" => child[accepted] = "refused"
  /\ srv = "record" => Forked(accepted)
  /\ srv \in Stopped => hpc = "out"
  /\ hpc = "lock" => hpid \in Workers /\ child[hpid] = "reaped"
  /\ hpc # "lock" => hpid = None
  /\ hpc # "out" => exposed \/ ~ Exposed
  /\ \A w \in Workers : child[w] = "zombie" => sig \/ hpc # "out" \/ srv \in Stopped

(* An entry whose handler has been reaped goes before the next is reaped.  *)
ReapedPart ==
  ~ exposed =>
    \A i \in Listed :
      /\ clients[i].socket \in Workers
      /\ child[clients[i].socket] = "reaped" => clients[i].socket = hpid

(* The entries are those of the connections, one each and with the pid of  *)
(* its handler, but for the one that is being added.                       *)
ListPart ==
  ~ exposed /\ srv # "aborted" =>
    /\ srv = "register" => accepted \in fds
    /\ Adding => client_idx = client_count /\ client_idx \in Slots
    /\ \A i \in Listed :
         /\ IF Fresh(i) THEN clients[i].socket = accepted
            ELSE clients[i].pid_handler = clients[i].socket /\ Forked(clients[i].socket)
         /\ ~ (Fresh(i) /\ srv = "unregister") => clients[i].socket \in fds
    /\ \A i, k \in Listed : clients[i].socket = clients[k].socket => i = k
    /\ \A w \in Workers : Live(w) => \E i \in Listed : clients[i].socket = w

(* Killed handlers are dead.                                               *)
KilledPart == \A w \in killed : child[w] \in {"zombie", "reaped"}

(* At every moment, with SIGCHLD and its handler between any two steps of  *)
(* main: what main, its handler and clients[] know of the handler          *)
(* processes is true of them, until SIGCHLD comes while main has the mutex *)
(* or is adding an entry.                                                  *)
ListIsTrue == ParentPart /\ ReapedPart /\ ListPart /\ KilledPart
=============================================================================
