# Verification of the Networks Laboratory programs

TLA+ models of the concurrent and distributed programs of this repository,
the TLC runs that check them on small instances, and TLAPS proofs of the
invariants that matter most. `PROJECT.json` lists every run, which lines of the
source each definition stands for, and the hazards the properties are for.

## 1. The system

The repository holds independent programs, one directory per week.

| Part | State | Operations | How the pieces meet |
|---|---|---|---|
| **KTP sliding window** (`week_5`: `ksocket.c`, `initksocket.c`) | per row: `send_window`, `send_buff`, `receive_window`, `recv_buff`; `prev_empty` of R_Thread | `k_sendto`, `k_recvfrom`, S_Thread's pass, R_Thread's time-out, data and ack handlers | shared memory under `sem_row[i]`; UDP datagrams between the two hosts, which `dropMessage(P)` discards |
| **KTP socket table** (same files) | `is_available`, `pid`, `src_sock` of each row, the daemon's sockets, `SOCK_INFO`, `sem_1`, `sem_2` | `k_socket`, `k_bind`, `k_close`, `main`'s request loop, `Garbage_Collector`, exit of a user | one request record for all processes; `table_lock`, `sock_info_lock`, row locks |
| **Task queue server** (`week_8/task_queue_server.c`) | `tasks[]` (shared memory), `clients[]` (a copy in each process), `client_count` | accept and fork, `handle_client`, `handle_sigchld`, `check_timeouts`, shut-down | System V mutex, signals, `fork`, TCP |
| **Task queue worker** (`week_8/worker_client.c`) | where it is in the conversation | ask, work, answer, leave | TCP |
| **SMTP server and client** (`week_9`) | mailbox files, `clients[]`, the static buffers of `list_emails` and `get_email`; sender, recipient and message of each thread | MAIL, RCPT, DATA, LIST, GET_MAIL, QUIT; accept, `add_client`, `remove_client` | threads in one process; TCP as a byte stream; files |
| **CLDP server and client** (`week_10`) | `query_active`, `current_transaction_id`, `choice`, `running`; the receive queue of each raw socket | announcements, the menu, `send_query`, `process_query_and_respond`, `process_response`, signals | raw IP: every socket of a host gets a copy of every packet |
| **Encrypting file server and client** (`week_4`) | the connection in service, key, temporary and encrypted file; what each user typed and has got back | accept, key, upload, `encrypt_file`, sending back, the answer Yes or No | TCP as a byte stream; the backlog |
| Word server and client (`week_3`) | position in a file | request and reply | UDP |
| Chat relay (`week_6`), echo server and UDP logger (`week_11`), tutorials | a set of sockets | relay, echo, log | select, fork |

What is hard, by part, and what correctness means there:

* **Window.** Loss, delay and duplication by retransmission; sequence numbers and
  slots that wrap with different moduli; two seq-to-slot maps rewritten piece by
  piece; a receive window that closes and must reopen; a row used again with what
  the last owner left. Correct: the reliable stream - what `k_recvfrom` hands out
  is what `k_sendto` took, once each, in order, and in the end all of it.
* **Table.** Every process shares one request record; the collector reads a row
  without a lock and acts later; processes end at any moment. Correct: each caller
  gets a row and a UDP socket nobody else has, bound to its own port; rows and
  sockets come back; calls return.
* **Task queue.** Handlers work on forked copies of `clients[]`; SIGCHLD interrupts
  the parent anywhere and moves the entries it is working on; handlers are killed.
  Correct: a task has one holder; a task is not lost; the list matches the running
  handlers; the server stops only when the work is done.
* **SMTP.** A line protocol read with one `recv` per line, DATA ended by a line of
  its own, buffers shared by threads. Correct: both sides agree where they are, a
  stored mail is the one that was sent, listings are not mixed between clients.
* **CLDP.** One thread of a client waits in `scanf` or in `select`; queries and answers
  are lost, late, dropped by full queues or meant for somebody else; several servers
  answer one query; servers are stopped in between. Correct: an answer is matched to its
  query, and a query stays open for no other reason than a loss.
* **Encrypting file server.** One connection at a time; keys, files and answers are told
  apart by what one `recv` happens to return; a client may leave with its file half sent
  or half received. Correct: a client gets the encryption of its own file, it does not
  wait for ever, and no client takes the server from the others.

## 2. Modules

| Module | Role |
|---|---|
| `KTPStream` | abstract: a bounded reliable stream between two users |
| `KTPWindow` | the sliding window protocol of one direction; implements `KTPStream` |
| `KTPWindowInv` | its inductive invariant `RowsAgree`, and what it takes of sizes and networks |
| `MCKTPWindow` | instances: which datagrams are dropped and reordered |
| `KTPWindow_proofs` | type correctness for all constants |
| `KTPReliable_proofs` | arithmetic of the rings, the invariant, the safety properties, the refinement of `KTPStream` |
| `KTPTable` | socket table, rendezvous with the daemon, collector |
| `KTPTableInv` | its inductive invariant `TableAgrees` |
| `MCKTPTable` | instances |
| `KTPTable_proofs` | types; own row, own socket, own port, no leak |
| `TaskQueue` | server, its signal handler, handler processes, workers |
| `TaskQueueInv` | its inductive invariant `ListIsTrue` |
| `MCTaskQueue` | instances |
| `TaskQueue_proofs` | types, exclusive assignment, `clients[]`, reaping, what becomes of tasks, the shut-down |
| `SMTP` | mail server threads, mailbox files, client programs |
| `SMTPInv` | its inductive invariants `SessionsAgree` and, with the files and answers, `MailAgrees` |
| `MCSMTP` | instances, and which commands each user gives |
| `SMTP_proofs` | types, answers in step, no command forgotten, entries of `clients[]` |
| `SMTPMail_proofs` | what is in the files, when it is said to be stored, what LIST and GET_MAIL answer |
| `CLDP` | discovery servers and clients on raw sockets |
| `MCCLDP` | instances: hosts, targets, restarts |
| `CLDP_proofs` | types; that clients wait with cause, and that answers match |
| `EncFile` | the encrypting file server and its clients |
| `EncFileInv` | its inductive invariant `StreamsAgree` |
| `MCEncFile` | instances: files, keys, how often a client asks |
| `EncFile_proofs` | types, the streams, the file that comes back, that No is harmless |

The window and the table are separate modules because their state meets in two
places only, both modelled: a row opened again (`Reopen` of `KTPWindow`) and a row
lock held by a process that stopped (`DieInside` of `KTPTable`).

### KTPWindow

The data handler of R_Thread writes only `receive_window` and the ack handler only
`send_window`, so one direction of a connection is modelled; the other is an
independent copy. Each handler holds `sem_row[i]` from its first read to its last
write, and is therefore one action:

| Code | Action |
|---|---|
| `k_sendto`, `k_recvfrom` | `KSendto`, `KRecvfrom` (the calls that return ENOSPACE or ENOMESSAGE change nothing) |
| S_Thread's pass over the row | `SPass(due)`: every unsent slot of the window, and some of those whose timer ran out |
| `recvfrom` that `dropMessage` discards | `DropData`, `DropAck` |
| two-character special message | `RecvEmpty` |
| data: slot occupied / next in order / in the window / outside | `RecvDuplicate`, `RecvExpected`, `RecvAhead`, `RecvOutside` |
| acknowledgement | `RecvAck` |
| `select` timed out with the buffer emptied | `RTimeout` |
| `k_close` by both, then `k_socket` on the same rows | `Reopen` |

Message number n of a session is the number n; `accepted` and `delivered` are the
histories of the two users. The two maps from sequence numbers to slots are kept as
the code keeps them, stale entries included. Not in the model: a datagram that
belongs to an earlier session (the collector has closed the socket it was sent to),
a row that only one side opens again, the network error branch of R_Thread. `Reopen` is one
step for both `k_close`, the collection of both rows, both `k_socket` and `k_bind` and the
connection of both ends; the passes that R_Thread and S_Thread make over a row that is open on one
side only, or already taken and not yet reset (`ksocket.c:73-134`), are left out, as are the
steps between the calls, which `KTPTable` has.
Message text is copied by the program with 10 octets more than a slot's name
suggests; a message is one value here.

### KTPTable

A critical section of `table_lock` or `sock_info_lock` waits for nothing and is one
action; row locks are held across actions. `SOCK_INFO` is free between a request
and its answer, and that is where other processes come in. `main` and the collector
have program counters; a user has one per process. `socket()` and `bind()` may fail.
A user that is refused a row or a socket exits, as `user1.c` and `user2.c` do.
Users end between calls, or with `DieInside` inside `k_sendto` or `k_recvfrom`; not
in the middle of the rendezvous. R_Thread's and S_Thread's use of the row locks is
not in the table module.

The constants `Serial` and `Settled` name what the program silently assumes of its
users: that they open their sockets one at a time, and not while a closed row waits
for its collection. Under both every property holds; without them they do not
(run `table_rendezvous` drops both).

### TaskQueue

`tasks[]` is shared memory and each handler's section is one action. `clients[]` is
not shared: `fork` copies it, so `clients` is the parent's copy, and `task_id[w]` is
the `has_task`/`task_id` of the one entry a handler reads of its own copy. A section
of the parent is `Lock` followed by its body, since SIGCHLD may come in between:
`SigChld`, `WaitPid` and `Forget` then run on top of main and main stands still.
If the parent has the mutex, `Forget` waits for it for ever, as the program does;
this is why the runs do not check for deadlock. `LockInterrupted` is `semop` that
returns EINTR, which ends the server.

Abstractions: time (any client may be found idle, because the parent's `last_active`
is never refreshed after the fork); what a worker reads or writes after its handler
ended (`HangUp`); the content of tasks and results. `client_count` can reach -1; the
next client would then be written in front of the array, so the model stops
(`srv = "undefined"`). `Remove` moves the later entries down one at a time, as the code does,
and leaves the last one in the slots that this frees. SIGCHLD can take away the very entry that
was just added, when its slot still has the pid of an earlier handler; main forks all the same,
and the new handler finds no client of its own and is `adrift`: it runs and can be killed, but
serves nobody. `exposed` is a history variable: SIGCHLD arrived while main had
the mutex or a client without its handler's pid was listed. The invariants about
`clients[]` are conditional on it, and so show that these are the only windows.

### SMTP

A connection is two queues, `up` and `down`, and a state: `open`, `fin` (the client has
closed), `rst` (it has reset), `hup` (the server has closed). A thread's `recv`, the work
on its own locals and its `send` are one action; what it does to shared data is a step of
its own: one `write()` of a mail (`Write`), one line read from a file and appended to a
static buffer (`ReadPart`), the answer taken from that buffer (`ReadDone`). The lock of
`clients[]` waits for nothing inside, so `AddClient` and `RemoveClient` are single steps.

The client sends its lines without their newline. Lines that arrive before the server
reads are therefore one line to it, and a dot among them is part of the text; `RecvLines`
takes any number k of waiting lines. This is always possible in the model, as over TCP.

Both programs take at most 1024 octets with one `recv`. A line of text that is cut there is
put together again by `strcat`, so `RecvLines` takes it with its end; but when what the full buffer leaves
is the last octet of all that waits, and that is a dot, the next `recv` returns a dot alone and
the message ends there (`RecvTail`), while its user types on. `composed` keeps what was typed up to that line, `cut` the
users this happened to. At the other end `ReceiveSome` leaves a part of an answer
to LIST or GET_MAIL, which may be of 100 KB, for the next `recv` to take as the answer to the next
command.

A mail is a heading, lines and an end mark; stdio writes it in pieces of `WriteLen` parts
(4096 octets in the program), so a mail longer than that is written in several steps.
The heading has a number n that the program's file has not: which of its user's messages
the mail is. No guard reads it. It lets the properties tell a message from another of the
same user, so that `StoredAsTyped` can say that none is stored twice.

A client's end is possible everywhere. A `send` after the reset has been seen raises
SIGPIPE, which ends the server (`srv = "down"`); an index that `add_client` never set may
be any, and when it names an entry of somebody else the model stops (`srv = "undefined"`).

What each property needs is recorded by history variables and not excluded from the
model: `astray` (users whose client and thread have lost step: they were refused DATA and typed
their message all the same, a dot was cut off from a line and ended it, or an answer was longer
than the client's buffer), `cut` (those of the second kind), `torn` (files in which two long mails were written at once), `mixed` (two threads used one
static buffer at once). Each condition is needed: without it the property is violated on
the same instance, or for `mixed` on one in which both users list. Left out: the text of lines (a line that looks like a mark of the file
is taken for one), blank lines (nothing is
sent for them: a blank line of a mail is lost and a blank command is never answered), and
what a user does after going astray, but for leaving and the lines and the dot of the message he
is in. Commands are short and arrive whole; a line that is cut at the command
prompt, of a user already astray, draws one more error than here. A buffer that `recv` has filled has no
end of its own: the server's `strcat` then also copies the few octets behind it, and the client
writes a zero into the first octet of `input`, which it clears before it reads it; neither
changes what the programs do next. An address is the user, and the From and Date lines
belong to the heading. A file appears with its first `write()`.

### CLDP

`net` holds the packets on their way, in no order; `queue[p]` is the receive queue of a
process's socket. A host gives each of its sockets a copy of every packet (`Deliver`), so a
server also sees the queries to its neighbour, and a client the answers to another. A pass
of a main loop from the return of `select` to the next call that waits is one action:
`ServerRecv`, `ClientRecv`, `ClientIdle`; so is a choice with what the menu does about it
(`Choose`, `ChooseAgain` when `scanf` found a word and left `choice` alone). The head of the
client's loop (`Turn`) may announce, and goes to the menu if no query is active.

`rand` is a constant sequence from which every process draws from the beginning, since no
program calls `srand`; a message draws two numbers, or one if the look-up of the own name
fails. The field `by` of a packet names the run of the program whose exchange it belongs
to; no program reads it. `lost[c]` is a history variable: the network, a full queue or a
server that stopped lost a packet of c's present query. A program that is started again
knows nothing. Broadcasting fails at the client, which does not set SO_BROADCAST. Left out:
checksums, the payload's text (`data` is the server that made it), packets of another make
than the two programs'.

### EncFile

`up[c]` and `down[c]` are the bytes of a connection that were sent and not read. `recv` takes any
non-empty part of them that fits (`Pieces`), which is what a byte stream allows. The end
marker and the two answers are two bytes each, so that they can be cut once; a byte of a file
stands for a line. Each `send` is a step, each pass of a receive loop is one, and so is
`encrypt_file`. A `send` to an end that is closed is answered by a reset, and one after that
ends the sender by SIGPIPE unless it still has the reset to report; a program that ends with
bytes unread resets at once (`rst`). Clients wait in `backlog`, and upload while they do.

`astray[c]` is a history variable: a `recv` on c's connection took a part of the key, cut the
marker, or took something else than one answer. `left[c]` says whether a client ended after
its answer No or before. `fopen` fails `MaxFaults` times, at any of its places. Left out: files that contain the
marker or a zero octet (`MarkerAssumption`), bytes that are not letters (they are copied), the
names of the files, a file that disappears between the client's two `fopen`.

## 3. Runs

| Run | Instance | Shows |
|---|---|---|
| `ktp_lossy` | 2 slots, 5 sequence numbers, 8 messages, 2 datagrams each way, everything lossy, slow network | no loss, duplication or reordering; numbers and slots wrap more than once; window never promises what the buffer lacks; the inductive invariant `RowsAgree` |
| `ktp_reopened` | 2 slots, 12 numbers, 4 messages, 2 sessions, data reordered | the reliable stream (`KTPStream`) across a reuse of the rows, while a session's numbers do not wrap |
| `ktp_liveness` | 3 slots, 7 numbers, 9 messages, no loss | every accepted message is handed out, through windows that close and reopen |
| `ktp_stall` | acks lossy | *violated*: one lost ack after a full buffer closes the window for good |
| `ktp_stale_row` | 2 sessions, numbers wrap | *violated*: the previous owner's map leads to wrong messages |
| `table_serial` | 3 processes, 2 rows, 2 descriptors, users stopped inside calls too | own row, own socket, own port; nothing leaks; calls return; a dead process's row comes back unless some row's lock died with its holder; the inductive invariant `TableAgrees` |
| `table_rendezvous` | 2 processes, concurrent opens | *violated*: a `k_socket` returns without a socket |
| `queue_all` | 3 workers, 2 tasks, 2 entries | one holder per task; only killed handlers keep tasks; list, shut-down and reaping; the inductive invariant `ListIsTrue` |
| `queue_lost` | 2 workers, 1 task | *violated*: a handler's task is not returned |
| `smtp_mail` | 2 users, 1 mailbox, 1 entry in `clients[]`, 2 lines, writes of 3 parts | a stored mail is what was typed; an answered mail is stored whole; answers in step and true, with the exceptions the properties name; entries are a thread's own; no command is forgotten; the inductive invariant of the sessions, `SessionsAgree` |
| `cldp_queries` | 1 client started twice, 2 servers on another host, one restarted, queues of 1 packet, 2 messages sent of a program's own accord | an answer is of the kind and from the host asked for, however late the other server's is; a query is open only while a packet of it is on its way or when one was lost; it ends otherwise |
| `enc_files` | 2 clients, one with two files, buffers of 3 bytes, 1 failing `fopen` | a whole file is the encryption of what was typed, unless a `recv` missed a boundary; clients that answer No never end the server; a client waits for ever only if a boundary was missed or another's user is silent; the inductive invariant `StreamsAgree` |

**Why the bounds are enough.** In `ktp_lossy` 8 messages take 2 slots through four
rounds and 5 numbers through one and a half. What counts is `2 * BUFF_SIZE <= MAX_SEQ_NUM`,
which the code's 10 and 256 and the run's 2 and 5 satisfy and 3 and 5 do not: there TLC
finds a repeated message stored where a later one belongs. 5 and 2 are coprime, so the maps pass through every
alignment. Two datagrams each way suffice for an old repetition to overtake nothing but
outlive its answer. For networks that keep their order section 5 proves the same of all
sizes. `ktp_reopened` keeps 12 numbers for 4 messages: a session on a used row is right
only while it has fewer than `MAX_SEQ_NUM` messages (with 2 slots and 5 numbers TLC
accepts 4 messages a session and refuses 5), and `ktp_stale_row` shows the rest; two
sessions are needed and enough, since a session hands to the next only what `k_socket`
does not reset. `ktp_liveness` has 3 slots, so that the window passes through every size. In
`table_serial` the third process finds the table full or opens a used row. In
`queue_all` three workers overflow the two entries and let two handlers end on one
SIGCHLD; `SYMMETRY` is sound as only invariants are checked.
In `smtp_mail` a mail is of two to five parts and so takes one or two writes; both users
write to the one mailbox, one lists it and the other reads a mail from it, each while the other
writes. No two threads use the same buffer, so `mixed` stays false, and there is one mail to
read of each user: the other cases are left to `AnswersStayTrue`, which section 5 proves of all of them.
Any line can be the one from which a dot is cut off, and any answer too long; with one entry the second connection finds the table
full, or finds the entry the first has left. `MailAgrees`, which `SMTPMail_proofs` proves, holds
there as well; the run leaves it out for its cost. More mailboxes share nothing but the buffers.
In `cldp_queries` two messages are a query and a second one that meets the late answer to the
first, of the same run or of the next with the same transaction id, or a query and an
announcement that fills a queue of one packet; two servers give two answers, and one of them
goes and comes back. The numbers `rand` gives in this run are different; the theorem `AnswersMatch`
covers sequences that repeat. The client has a host or the broadcast address for its target.
In `enc_files` a buffer of 3 bytes cuts a stream of 2 key bytes, 1 or 2 lines and a marker at
every place, and a second file follows an answer that may come in any piece; the second client
waits, leaves or is served after the first.

**Deadlock** is checked in `table_rendezvous`. The other systems may come to rest: when
`MaxMsgs` messages are through, when the mail users have left, when the task server is over,
when the collector waits for the lock of a process that is gone, when all clients have left
or wait for a packet that was lost.

**Fairness.**
* `KTPWindow!FairSpec`: the threads loop for ever; the receiving user polls (as
  `user2.c` does). A datagram sent again and again is not dropped for ever, hence
  strong fairness of the receiving actions and of the pass for each offset. The
  strong fairness of `RTimeout` supposes that the sockets are drained again and again:
  the code's one `select` for all rows needs that as well.
* `KTPTable!FairSpec`: weak fairness of main, the collector and of calls that have
  been entered; strong fairness for `sem_row`, since System V wakes waiters in the order
  they came. No fairness makes a user open, close or leave.
* `TaskQueue` has no fairness: the server's progress depends on further connections
  (`accept` blocks), so nothing is promised.
* `SMTP` has no fairness either: a dot that is hidden in a line leaves both sides waiting.
  `NoCommandForgotten` states as an invariant that every other command is on its way, with
  its thread, or answered.
* `CLDP!FairSpec`: a packet arrives or is lost in the end; servers read their queues and
  clients that are in `select` go on. Nobody has to choose, start, announce or stop, and
  losing is always allowed: `QueryEnds` therefore says that a query ends unless a packet of
  it was lost.
* `EncFile!FairSpec`: both programs go on when they can. Users need not type, answer or
  leave, which is why `Served` names the user that the one-at-a-time server waits for.

## 4. What disagrees with the documents

Each *violated* run checks one sentence of a document or comment. `PROJECT.json`
quotes them.

* `documentation.txt:194` says the special acks go on until the sender answers. A
  repetition of the last message clears `prev_empty` without any answer
  (`initksocket.c:492`), and the announcements end.
* `ksocket.c:116` resets ten entries of a map with 256.
* `documentation.txt:118` says what `k_socket` returns; two at once confuse
  `initksocket.c:730`.
* `week_8/Readme.md:49` says unfinished tasks are reassigned; `has_task` of the parent's
  copy is never set.

Seen while modelling, without a run of their own: the comment at `initksocket.c:418` says
a packet that was already received is acknowledged, but the test below it looks at the
slot, which is free once the user has read it, so that with losses a message can be
repeated for ever without an answer; `documentation.txt:312` says the row of a dead process
is made available, but `initksocket.c:239` waits for that process's lock first (the
second alternative of `DeadRowsComeBack`); `week_10/.../Readme.md:47` offers the broadcast
address as a target, but the client may not send to it; a transaction id does not tell
two runs apart, so a client can take the answer to another's query (the case `m.by # Me(c)` of
`AnswersToOwnQueriesMatch`), and two queries of one run are told apart only if `rand` does not
repeat their number (its case `Repeats(c)`); the comment at `doencfileserver.c:197` says the
complete file is received and sent back, but a marker cut in two is not found, and both
ends wait; the comment at `doencfileserver.c:168` calls the marker a triple newline.
Also: acknowledgements that overtake each
other overwrite the sender's window and map with old ones (UDP between the two ends
of a laboratory network keeps its order, and the reordered runs reorder data only);
the special ack is defined for the case that the window *was* 0, and `RTimeout` can also
announce 0 again; the answering branch of `RecvOutside` needs a reused row; the server
socket of the task queue blocks although the document calls it non-blocking; the
collector can free a row under a process that opens it (excluded in `table_serial` by
`Settled`).

## 5. Proofs

* `KTPWindow_proofs!TypeCorrect`: `Spec => []TypeOK` for every buffer size, number space
  and network. `TypeOK` is inductive by itself; the work is in the ring arithmetic
  (`Remap`, the window recomputed by `RecvExpected`) and in the queues. Lemmas type
  `After`, `Dist`, `Remap` and `Enqueue` once.
* `KTPReliable_proofs` proves `RowsStayLinked`, the four safety properties of `ktp_lossy`
  (`NothingIsFreedEarly`, `NumbersAlwaysNameMessages`, `WindowAlwaysFits`,
  `SlotsAlwaysHoldNext`) and `KTPIsReliable`, that KTP implements `KTPStream`. The code keeps
  positions modulo 10 and modulo 256 and no variable that counts, so the invariant says that
  three numbers exist which no row holds: the messages a the sender knows to be acknowledged,
  the messages r the receiver has in order and the last message h that has a slot, a <= r <= h
  (`Linked`). Everything else is said of them: which slots are taken, what the maps give, how
  old a datagram on its way can be (`Recent`), and that acknowledgements never go back. The
  lemmas on division and remainders at the start of the module turn what a handler computes from slots and numbers into what it
  would compute from messages. The hypotheses are those that the program needs:
  `NumbersSuffice` (`2 * BUFF_SIZE <= MAX_SEQ_NUM`); `InOrderNetworks`, since an old
  acknowledgement that comes late puts the sender's window back; and `NoStaleMap`, one session
  or sessions with fewer than `MAX_SEQ_NUM` messages, since `k_socket` leaves part of a map as
  it was (`RowsStayLinked` also covers the first of several long sessions). Loss, delay,
  repetition, the network's capacity and the number of messages are arbitrary.
* `KTPTable_proofs!TypeCorrect` holds for all processes, rows and descriptors, with no
  further condition. `TableAlwaysAgrees`, `SocketsAreOpen`, `BoundAsAsked` and
  `SocketsNeverLeak` suppose `Serial` and `Settled`, without which `table_rendezvous` violates
  them. The invariant `TableAgrees` follows the one request record: `MeetingPart` says at each
  step of the rendezvous what `SOCK_INFO` holds and who may read it, `RowsPart` to whom a row
  and its socket belong, for processes that close, end or stop with a lock as well.
* `TaskQueue_proofs!TypeCorrect` and `TaskAssignedOnce`: `Spec => []TypeOK` and
  `Spec => []HolderOwnsTask` for any number of workers, tasks and entries.
  `HolderOwnsTask` is not inductive alone: the parent gives back whatever its copy of
  `clients[]` names, so a step of `CheckTimeouts` could free a task somebody holds. The
  strengthening `IInv` adds that **no entry of the parent's copy ever names a task** -
  the very fact that makes tasks get lost - and that `client_count` is -1 only when the
  model has stopped. `RemoveEffect` then shows that the parent never changes `tasks[]`.
* `TaskQueue_proofs` then proves the four invariants about `clients[]` and the handlers
  (`TasksComeBack`, `ClientsAreTracked`, `ShutdownAlwaysClean`, `NoneForgotten`) from
  `ListIsTrue`, for any number of workers, tasks and entries. None is inductive: an entry is
  added in several steps while SIGCHLD may come, so the invariant says what main is adding
  (`ParentPart`, `ListPart`), that `waitpid` reaps the next child only when the last one's entry
  is gone (`ReapedPart`), and that the SIGCHLD handler is inside only where it is harmless,
  unless `exposed`.
* `SMTP_proofs` proves `TypeCorrect`, `SessionsStayInStep`, `AnswersComeInStep`,
  `CommandsAreKept` and `EntriesStayOwn` for any number of users, mailboxes, entries, lines and
  mails. No property is inductive alone, because whether an answer is the right one depends
  on what was on its way when the thread read. `SessionsAgree` says for each user where the
  request he waits on is (`Awaited`), whose turn it is in each place of the client program
  (`TurnPart`), and what a stream may hold: one command, or lines of text (`StreamPart`). A step
  of one user or thread leaves the other sessions alone (`OthersStay`); a send is one lemma
  for all commands (`ReplySent`, `AnswerCommand`, `AnswerDot`). For the users who went astray
  (refused DATA, a dot cut off, an answer too long for the buffer) the invariant says less
  (`AstrayPart`), as the properties do; who went astray by a cut dot has a message being stored while
  he types on. `TablePart` relates `clients[]` to the indexes
  that `add_client` left in the threads.
* `SMTPMail_proofs` proves `MailStaysInStep`, `StoredIsTyped`, `AnsweredMailIsStored` and
  `AnswersStayTrue` for any number of users, mailboxes, lines and mails and any size of a
  `write()`. The properties speak of files, but are right because of what had come before a
  part was written, so `MailAgrees` follows a message all the way. `MessagePart`: what the thread has
  and what is on its way are together what was typed (perhaps with a dot that came with the last
  line), and what `store_email` has not written is the rest of that mail, also when `recv` cut off
  a dot and the message ended with that line. `StampPart`: every
  heading in a file is of a message that its user has finished, and no two are of the same.
  `ContentPart` and `BegunPart`: a mail in a file that is not torn is whole, or it is the last and
  its thread has just the rest of it. `SaidPart`: "stored" has been answered for a mail that is
  there. For the readers, `ReaderPart` says what a thread has found in the part of the file that
  it has read, and that no other writes to its buffer until `mixed`, and `AnswerPart` that an
  answer is true of the file. Files only grow (`Growing`), and what was found or answered stays
  right of a longer file (`ListedStays`, `TrueMailStays`). A step of one user leaves the others'
  parts alone (`Aside`), all steps but `Write` leave the files alone (`FilesStay`) and keep what
  `Kept` lists, so `WritersKept` covers them together; `Write` itself is `WriteAgrees`. Where
  `get_email` stops rests on the writers' part: in a file that is not torn the next thing after
  the lines of a mail is its end mark (`TextEnds`).
* `CLDP_proofs!TypeCorrect` and `WaitsWithCause`: `Spec => []TypeOK` and
  `Spec => []WaitingHasCause` for any hosts, clients, servers, queue sizes and numbers from
  `rand`. `TypeInv` adds that a client has never drawn more than two numbers for a message
  (`NumbersLast`), so that `Rand` is defined where it is read. `WaitingHasCause` is not
  inductive alone: a new transaction id, or a new run, would orphan the packets of an open
  query, so `IInv` adds that **no query is active at the menu or before the start**
  (`QuietMenu`). The argument follows the packet: delivered, it is in the queue of a server or
  of the client, or its loss is remembered (`DeliverKeepsCause`); taken by a server, its answer
  is on the way (`ServerKeepsCause`); a response the client passes over was not the answer
  (`RecvKeepsAnswer`).
* `CLDP_proofs!AnswersMatch`: `Spec => AnswersToOwnQueriesMatch`, for every sequence of numbers. The
  program tells its queries apart by `rand() % 65535` (`cldp_client.c:179`) and no more: an answer
  that a client takes is of the kind and from the host it asked for, unless it answers another
  run's query, or `rand` gave this run the number of the open query twice (`Repeats`), when the
  answer to an old query can pass for the new one's. That is the only way in which a match within a run goes
  wrong, and with three messages and a sequence that repeats TLC finds it. The invariant
  `PacketsFit` speaks of every packet on its way or in a queue:
  none is of a run to come (`Past`), one of this run carries a number already drawn
  (`Numbered`), and one with the number of the active query asks for what was chosen, of the
  host that was given, or answers that, while that number has not been drawn twice (`Fitting`). A
  query is only sent from the menu, where none is active; an older packet with its number means
  that it was drawn before (`ObeyFits`); a server's answer fits because its
  query did (`ServerFits`); a restart begins a run no packet is of.
* `EncFile_proofs` proves `TypeCorrect`, `StreamsCorrect`, `AskedIsEncrypted` (`EncryptedAsAsked`)
  and `NoIsHarmless` (`AnsweringIsHarmless`) for any clients, alphabet, keys, files, size of the
  buffer, number of rounds and of faults. Neither property is inductive: what comes back is right
  because of what was on its way when a `recv` returned a part of it. `StreamsAgree` says for each
  connection that a round is one stream - Yes, key, file, marker - of which the client has sent
  so many bytes (`Sent`) and the server taken n without having found the marker (`Unfound`,
  `Taken`), or the server has found it (`Found`) and so many bytes of the encryption have been sent
  back (`Returned`). A `recv` moves n by the length of its piece; lemmas on pieces of a round say
  what the server finds in one (`PartOfRound`, `FileOfRound`, `WholeAndRest`), in
  particular that it sees a marker only where the stream has it. Of a connection that went
  `astray` the invariant keeps where the markers are, and nothing of keys and files. `Cut` and
  `QueuePart` cover the connections the server has closed or not yet accepted. For
  `NoIsHarmless` a broken `send` needs a connection that was reset; `NoPart` follows the two bytes of No,
  which a server that only gets the first takes for a key and an empty file, and shows that
  whoever answered No is sent one thing at the most, so the client that ended the server left
  before its answer.

The proofs rest on the named assumptions of the modules (`SizesAssumption`,
`TableAssumption`, `QueueAssumption`, `MailAssumption` and `MayAssumption`,
`CLDPAssumption`, `EncFileAssumption` and `MarkerAssumption`), which TLC evaluates in the runs, and on the hypotheses named above.

Only model-checked:

* the window when data is reordered (`ktp_reopened`), where an invariant would have to bound how
  old an overtaken datagram can be;
* all liveness, which is out of the prover's reach.

## 6. Not modelled, and the plan

Not modelled:

* The word server: requests and replies that alternate strictly over UDP without a timer. A
  datagram lost ends the conversation, and there is no state beyond the line number.
* The chat relay: while fewer than two clients are known its loop goes on before it reaches
  `accept`, so it never takes a connection.
* The echo server, the UDP logger and the tutorials keep no state from one request to the next.
* `user1.c` and `user2.c` beyond their calls: they send a file line by line and end it with a
  message of '$' signs, over the stream that `KTPWindow` is shown to be.
* `select` of R_Thread over the table's sockets (a descriptor closed under it, a row without a
  socket): its set of descriptors would multiply the states of `table_serial` beyond what its
  liveness properties allow.

What is left to do:

* A violation run for the mixed static buffers of `SMTP` (the comment at
  `mysmtp_server.c:109` promises the list "for a person") or for the cut marker of `EncFile`
  (`doencfileserver.c:197`), beside those of KTP.
* The window with data out of order: a bound on the age of an overtaken datagram, and with it
  `RowsStayLinked` without `InOrderNetworks` for the data.
