------------------------------ MODULE EncFile ------------------------------
(***************************************************************************)
(* The encrypting file server: it serves one connection at a time, and on  *)
(* each takes a key and a file, sends the file back with its letters       *)
(* substituted, and asks for more.  The others wait in the backlog.        *)
(*                                                                         *)
(* A connection is a stream of bytes: recv gives whatever part of what has *)
(* come it likes, up to its buffer.  The programs find the end of a file   *)
(* by strstr in one buffer, take the key from one recv and the answer, Yes *)
(* or No, from another.  A byte of a file stands for a line of it.         *)
(***************************************************************************)
EXTENDS Integers, Sequences, FiniteSets

CONSTANTS
  Clients,
  Alphabet,            \* the letters in their order: a key has as many
  Files, Keys,         \* what the users may type
  Buf,                 \* BUFFER_SIZE - 1
  MaxRounds,           \* bound: files of each client
  MaxFaults,           \* bound: fopen fails
  None

Letters == {Alphabet[i] : i \in DOMAIN Alphabet}
KeyLen == Len(Alphabet)

ASSUME EncFileAssumption ==
  /\ IsFiniteSet(Clients) /\ None \notin Clients
  /\ Alphabet \in Seq(STRING) /\ Files \subseteq Seq(Letters)
  /\ Keys \subseteq [1 .. KeyLen -> Letters]
  /\ Buf \in Nat \ {0} /\ MaxRounds \in [Clients -> Nat] /\ MaxFaults \in Nat

VARIABLES
  phase, serving,      \* the server: where it is in its loops, and client_fd
  skey, sfile, sout,   \* key, the temporary file, what is left to be sent of the other
  backlog,             \* connections not yet accepted
  at,                  \* where each client is in its loop
  key, file, out,      \* what its user typed, and what is left to be sent
  got, whole,          \* the encrypted file and end_of_file
  up, down,            \* the bytes on their way, of each connection
  shut, rst,           \* connections the server has closed; connections reset
  rounds, faults,      \* files of each client; calls of fopen that failed
  astray, left         \* history: a recv has missed a boundary; how a client left

serverVars == <<phase, serving, skey, sfile, sout, backlog>>
clientVars == <<at, key, file, out, got, whole, rounds, left>>
vars == <<serverVars, clientVars, up, down, shut, rst, faults, astray>>

Marker == <<"###", "EOF###">>
Yes == <<"Y", "es">>
No == <<"N", "o">>
Nul == "NUL"
Symbols == Letters \cup {Marker[1], Marker[2], Yes[1], Yes[2], No[1], No[2]}

(* No file or key holds a piece of the marker, or a zero.                  *)
ASSUME MarkerAssumption == Letters \cap {Marker[1], Marker[2], Nul} = {}

Init ==
  /\ phase = "accept" /\ serving = None /\ backlog = <<>>
  /\ skey = <<>> /\ sfile = <<>> /\ sout = <<>>
  /\ at = [c \in Clients |-> "off"] /\ left = [c \in Clients |-> "no"]
  /\ key = [c \in Clients |-> <<>>] /\ file = [c \in Clients |-> <<>>]
  /\ out = [c \in Clients |-> <<>>]
  /\ got = [c \in Clients |-> <<>>] /\ whole = [c \in Clients |-> FALSE]
  /\ up = [c \in Clients |-> <<>>] /\ down = [c \in Clients |-> <<>>]
  /\ shut = {} /\ rst = {} /\ faults = 0
  /\ rounds = [c \in Clients |-> 0] /\ astray = [c \in Clients |-> FALSE]

-----------------------------------------------------------------------------
(* Streams and buffers.                                                    *)

(* What a recv with room for n bytes may give of a stream.                 *)
Pieces(stream, n) == {SubSeq(stream, 1, k) : k \in {j \in 1 .. n : j <= Len(stream)}}
Rest(stream, piece) == SubSeq(stream, Len(piece) + 1, Len(stream))

(* strstr: where the marker begins, and the buffer cut off there.          *)
MarkedAt(piece) == {i \in 1 .. Len(piece) - 1 : SubSeq(piece, i, i + 1) = Marker}
Ends(piece) == MarkedAt(piece) # {}
Before(piece) ==
  IF Ends(piece) THEN SubSeq(piece, 1, (CHOOSE i \in MarkedAt(piece) : TRUE) - 1) ELSE piece

(* The marker is cut in two.                                               *)
Splits(piece) == piece[Len(piece)] = Marker[1]

(* A recv of connection c has missed a boundary.                           *)
Astray(c, missed) == astray' = [astray EXCEPT ![c] = @ \/ missed]

Fault == faults < MaxFaults /\ faults' = faults + 1

(* encrypt_file.  A key that came short is filled with zeros, and a line   *)
(* that begins with one has no length for strlen: nothing of it is sent.   *)
Substitute(k, x) == LET i == CHOOSE j \in DOMAIN Alphabet : Alphabet[j] = x IN
                    IF x \notin Letters THEN x ELSE IF i <= Len(k) THEN k[i] ELSE Nul
Encryption(k, f) == [i \in DOMAIN f |-> Substitute(k, f[i])]
Lines(f) == [i \in DOMAIN f |-> IF f[i] = Nul THEN <<>> ELSE <<f[i]>>]

-----------------------------------------------------------------------------
(* retrieveencfileclient.                                                  *)

(* The client ends, by itself or by a signal, and its socket is closed:    *)
(* with a reset when there is something it has not read.                   *)
Leave(c, how) ==
  /\ at' = [at EXCEPT ![c] = "gone"]
  /\ left' = [left EXCEPT ![c] = how]
  /\ key' = [key EXCEPT ![c] = <<>>] /\ file' = [file EXCEPT ![c] = <<>>]
  /\ out' = [out EXCEPT ![c] = <<>>]
  /\ got' = [got EXCEPT ![c] = <<>>] /\ whole' = [whole EXCEPT ![c] = FALSE]
  /\ rst' = IF down[c] # <<>> THEN rst \cup {c} ELSE rst
  /\ down' = [down EXCEPT ![c] = <<>>]
  /\ UNCHANGED rounds

Connect(c) ==
  /\ at[c] = "off" /\ phase # "down"
  /\ at' = [at EXCEPT ![c] = "prompt"]
  /\ backlog' = Append(backlog, c)
  /\ UNCHANGED <<phase, serving, skey, sfile, sout, key, file, out, got, whole, rounds, left,
                 up, down, shut, rst, faults, astray>>

(* The user gives a file that exists and a key that validate_key takes.    *)
Enter(c, f, k) ==
  /\ at[c] = "prompt" /\ rounds[c] < MaxRounds[c]
  /\ at' = [at EXCEPT ![c] = "upload"]
  /\ rounds' = [rounds EXCEPT ![c] = @ + 1]
  /\ file' = [file EXCEPT ![c] = f] /\ key' = [key EXCEPT ![c] = k]
  /\ out' = [out EXCEPT ![c] = <<k>> \o Lines(f) \o <<Marker>>]
  /\ UNCHANGED <<serverVars, got, whole, left, up, down, shut, rst, faults, astray>>

(* send, to an end that is open; or to one that is closed, which answers   *)
(* the first time by a reset.  After that send fails, with SIGPIPE unless  *)
(* it has the reset itself to report.                                      *)
Received(c, piece) == c \notin shut /\ up' = [up EXCEPT ![c] = @ \o piece] /\ UNCHANGED rst
Ignored(c) == c \in shut /\ rst' = rst \cup {c} /\ UNCHANGED up
Killed(c) == c \in shut \cap rst /\ Leave(c, "early")

(* The key, a line or the marker is sent.                                  *)
Upload(c) ==
  /\ at[c] = "upload"
  /\ \/ /\ Received(c, Head(out[c])) \/ Ignored(c)
        /\ out' = [out EXCEPT ![c] = Tail(@)]
        /\ at' = [at EXCEPT ![c] = IF Tail(out[c]) = <<>> THEN "store" ELSE @]
        /\ UNCHANGED <<key, file, got, whole, rounds, left, down>>
     \/ Killed(c) /\ UNCHANGED up
  /\ UNCHANGED <<serverVars, shut, faults, astray>>

(* The file for the result is created, or the client gives up.             *)
Store(c) ==
  /\ at[c] = "store"
  /\ \/ /\ at' = [at EXCEPT ![c] = "recv"]
        /\ got' = [got EXCEPT ![c] = <<>>] /\ whole' = [whole EXCEPT ![c] = FALSE]
        /\ UNCHANGED <<key, file, out, rounds, left, down, rst, faults>>
     \/ Fault /\ Leave(c, "early")
  /\ UNCHANGED <<serverVars, up, shut, astray>>

(* One recv of the result; the loop ends with the marker or the stream.    *)
ClientRecv(c) ==
  /\ at[c] = "recv"
  /\ \/ \E piece \in Pieces(down[c], Buf) :
          /\ down' = [down EXCEPT ![c] = Rest(@, piece)]
          /\ got' = [got EXCEPT ![c] = @ \o Before(piece)]
          /\ whole' = [whole EXCEPT ![c] = Ends(piece)]
          /\ at' = [at EXCEPT ![c] = IF Ends(piece) THEN "ask" ELSE @]
          /\ Astray(c, Splits(piece))
     \/ /\ down[c] = <<>> /\ c \in shut
        /\ at' = [at EXCEPT ![c] = "ask"]
        /\ UNCHANGED <<down, got, whole, astray>>
  /\ UNCHANGED <<serverVars, key, file, out, rounds, left, up, shut, rst, faults>>

(* "File encrypted successfully!" has been printed; the user answers.      *)
Answer(c, reply) ==
  /\ at[c] = "ask"
  /\ \/ /\ Received(c, reply) \/ Ignored(c)
        /\ reply = Yes
        /\ at' = [at EXCEPT ![c] = "prompt"]
        /\ UNCHANGED <<key, file, out, got, whole, rounds, left, down>>
     \/ /\ reply = No
        /\ up' = IF c \in shut THEN up ELSE [up EXCEPT ![c] = @ \o No]
        /\ Leave(c, "answered")
     \/ Killed(c) /\ UNCHANGED up
  /\ UNCHANGED <<serverVars, shut, faults, astray>>

(* The user ends the program while it is at anything.                      *)
Interrupt(c) ==
  /\ at[c] \notin {"off", "gone"}
  /\ Leave(c, "early")
  /\ UNCHANGED <<serverVars, up, shut, faults, astray>>

-----------------------------------------------------------------------------
(* doencfileserver.                                                        *)

Accept ==
  /\ phase = "accept" /\ backlog # <<>>
  /\ serving' = Head(backlog) /\ backlog' = Tail(backlog)
  /\ phase' = "key"
  /\ UNCHANGED <<skey, sfile, sout, clientVars, up, down, shut, rst, faults, astray>>

(* Nothing more will come on a connection.                                 *)
AtEnd(c) == at[c] = "gone" /\ up[c] = <<>>

(* close(client_fd).                                                       *)
Close(c) ==
  /\ phase' = "accept" /\ serving' = None
  /\ skey' = <<>> /\ sfile' = <<>> /\ sout' = <<>>
  /\ shut' = shut \cup {c}
  /\ rst' = IF up[c] # <<>> THEN rst \cup {c} ELSE rst
  /\ up' = [up EXCEPT ![c] = <<>>]
  /\ UNCHANGED backlog

(* The server ends, and with it the connections it has and those that wait. *)
GoDown ==
  /\ phase' = "down" /\ serving' = None /\ backlog' = <<>>
  /\ skey' = <<>> /\ sfile' = <<>> /\ sout' = <<>>
  /\ shut' = {c \in Clients : at[c] # "off"}
  /\ rst' = rst \cup {c \in Clients : up[c] # <<>>}
  /\ up' = [c \in Clients |-> <<>>]

(* Mutant: recv may fill the key and the byte after it.                    *)
KeyRoomAndOne == KeyLen + 1

KeyRoom == KeyLen

(* One recv for the key, and the temporary file is created.                *)
RecvKey(c) ==
  /\ phase = "key" /\ serving = c
  /\ \/ \E piece \in Pieces(up[c], KeyRoom) :
          /\ skey' = piece /\ sfile' = <<>>
          /\ phase' = "file"
          /\ up' = [up EXCEPT ![c] = Rest(@, piece)]
          /\ Astray(c, Len(piece) < KeyLen)
          /\ UNCHANGED <<serving, sout, backlog, shut, rst, faults>>
     \/ up[c] # <<>> /\ Fault /\ Close(c) /\ UNCHANGED astray
     \/ AtEnd(c) /\ Close(c) /\ UNCHANGED <<faults, astray>>
  /\ UNCHANGED <<clientVars, down>>

(* Mutant: the buffer is kept as it is when it holds the marker.           *)
KeepAll(piece) == sfile' = sfile \o piece

Keep(piece) == sfile' = sfile \o Before(piece)

(* One recv for the file; the loop ends with the marker or the stream.     *)
RecvFile(c) ==
  /\ phase = "file" /\ serving = c
  /\ \/ \E piece \in Pieces(up[c], Buf) :
          /\ Keep(piece)
          /\ phase' = IF Ends(piece) THEN "encrypt" ELSE phase
          /\ up' = [up EXCEPT ![c] = Rest(@, piece)]
          /\ Astray(c, Splits(piece))
     \/ AtEnd(c) /\ phase' = "encrypt" /\ UNCHANGED <<sfile, up, astray>>
  /\ UNCHANGED <<serving, skey, sout, backlog, clientVars, down, shut, rst, faults>>

(* Mutant: the marker is sent with length 0.                               *)
UnmarkedResult == Lines(Encryption(skey, sfile)) \o << <<>> >>

Result == Lines(Encryption(skey, sfile)) \o <<Marker>>

(* encrypt_file, which ends the server when it cannot open its files, and  *)
(* the result opened for reading.                                          *)
Encrypt(c) ==
  /\ phase = "encrypt" /\ serving = c
  /\ \/ /\ sout' = Result
        /\ phase' = "reply"
        /\ UNCHANGED <<serving, skey, sfile, backlog, up, shut, rst, faults>>
     \/ Fault /\ (GoDown \/ Close(c))
  /\ UNCHANGED <<clientVars, down, astray>>

(* Mutant: the server ends when a send fails at all.                       *)
BreaksEagerly(c) == at[c] = "gone"

(* A send into a connection that was reset raises SIGPIPE.                 *)
Breaks(c) == at[c] = "gone" /\ c \in rst

(* A line or the marker is sent back; with the last the files are removed. *)
(* A line without length draws no reset from a client that is gone.        *)
SendBack(c) ==
  /\ phase = "reply" /\ serving = c
  /\ \/ /\ IF at[c] = "gone"
           THEN rst' = (IF Head(sout) = <<>> THEN rst ELSE rst \cup {c}) /\ UNCHANGED down
           ELSE down' = [down EXCEPT ![c] = @ \o Head(sout)] /\ UNCHANGED rst
        /\ sout' = Tail(sout)
        /\ IF sout' = <<>> THEN phase' = "more" /\ skey' = <<>> /\ sfile' = <<>>
           ELSE UNCHANGED <<phase, skey, sfile>>
        /\ UNCHANGED <<serving, backlog, up, shut>>
     \/ Breaks(c) /\ GoDown /\ UNCHANGED down
  /\ UNCHANGED <<clientVars, faults, astray>>

(* Anything but exactly No, up to the size of the buffer, means yes.       *)
RecvMore(c) ==
  /\ phase = "more" /\ serving = c
  /\ \/ \E piece \in Pieces(up[c], Buf) :
          /\ Astray(c, piece \notin {Yes, No})
          /\ IF piece = No THEN Close(c)
             ELSE /\ phase' = "key"
                  /\ up' = [up EXCEPT ![c] = Rest(@, piece)]
                  /\ UNCHANGED <<serving, skey, sfile, sout, backlog, shut, rst>>
     \/ AtEnd(c) /\ Close(c) /\ UNCHANGED astray
  /\ UNCHANGED <<clientVars, down, faults>>

-----------------------------------------------------------------------------
Client(c) == \/ Connect(c) \/ Interrupt(c)
             \/ \E f \in Files, k \in Keys : Enter(c, f, k)
             \/ Upload(c) \/ Store(c) \/ ClientRecv(c)
             \/ \E reply \in {Yes, No} : Answer(c, reply)

Serve(c) == RecvKey(c) \/ RecvFile(c) \/ Encrypt(c) \/ SendBack(c) \/ RecvMore(c)

Next == Accept \/ \E c \in Clients : Client(c) \/ Serve(c)

Spec == Init /\ [][Next]_vars

(* The programs go on; nothing is promised of the users.                   *)
FairSpec == /\ Spec /\ WF_vars(Accept)
            /\ \A c \in Clients : WF_vars(Serve(c)) /\ WF_vars(Upload(c) \/ Store(c) \/ ClientRecv(c))

-----------------------------------------------------------------------------
TypeOK ==
  /\ phase \in {"accept", "key", "file", "encrypt", "reply", "more", "down"}
  /\ serving \in Clients \cup {None} /\ (serving = None <=> phase \in {"accept", "down"})
  /\ skey \in Seq(Symbols) /\ Len(skey) <= KeyLen
  /\ sfile \in Seq(Symbols) /\ sout \in Seq(Seq(Symbols)) /\ backlog \in Seq(Clients)
  /\ at \in [Clients -> {"off", "prompt", "upload", "store", "recv", "ask", "gone"}]
  /\ key \in [Clients -> Seq(Letters)] /\ file \in [Clients -> Seq(Letters)]
  /\ out \in [Clients -> Seq(Seq(Symbols))]
  /\ got \in [Clients -> Seq(Symbols)] /\ whole \in [Clients -> BOOLEAN]
  /\ up \in [Clients -> Seq(Symbols)] /\ down \in [Clients -> Seq(Symbols)]
  /\ shut \subseteq Clients /\ rst \subseteq Clients
  /\ rounds \in [Clients -> Nat] /\ faults \in 0 .. MaxFaults
  /\ astray \in [Clients -> BOOLEAN] /\ left \in [Clients -> {"no", "answered", "early"}]

(* A client that says it has its file has the encryption of what its user  *)
(* typed, however the bytes were cut up on their way, unless a recv missed *)
(* the end of the key, of the marker or of the answer; and if it has less, *)
(* which it does not notice, the server has ended or could not open a file. *)
EncryptedAsAsked ==
  \A c \in Clients : at[c] = "ask" /\ ~astray[c] =>
    IF whole[c] THEN got[c] = Encryption(key[c], file[c]) ELSE phase = "down" \/ faults > 0

(* The server is only ended by a client that leaves before its answer, or  *)
(* by its own files; a client that says No is never sent more than one     *)
(* thing afterwards, even when the answer is cut in two.                   *)
AnsweringIsHarmless ==
  phase = "down" => faults > 0 \/ \E c \in Clients : left[c] = "early"

(* A client that waits for its file does not wait for ever, unless a recv  *)
(* missed a boundary and both ends wait, or the server waits for another   *)
(* client's user.                                                          *)
Served ==
  \A c \in Clients :
    at[c] = "recv" ~> \/ at[c] # "recv" \/ \E d \in Clients : astray[d]
                      \/ serving \notin {c, None} /\ at[serving] \in {"prompt", "ask"}
=============================================================================
