----------------------------- MODULE EncFileInv -----------------------------
(***************************************************************************)
(* Where the bytes of a connection are: the inductive invariant behind     *)
(* EncryptedAsAsked and AnsweringIsHarmless.  A round of a connection is   *)
(* one stream, the answer Yes, the key, the file and the marker; of the    *)
(* first round only Yes has not been sent.  The server has not found the   *)
(* marker of the round yet, or it has, and what follows is the encrypted   *)
(* file and its marker on their way to the client.  Of a connection that   *)
(* went astray the invariant still says where the markers are.             *)
(***************************************************************************)
EXTENDS EncFile

Alive(c) == at[c] \notin {"off", "gone"}
Queued(c) == \E i \in DOMAIN backlog : backlog[i] = c

Stream(c) == Yes \o key[c] \o file[c] \o Marker
Chunks(c) == <<key[c]>> \o Lines(file[c]) \o <<Marker>>

(* How much of its stream a client has sent.                               *)
Sent(c) ==
  IF at[c] = "prompt" \/ (at[c] = "upload" /\ Len(out[c]) = Len(Chunks(c))) THEN 2
  ELSE IF at[c] = "upload" THEN 2 + KeyLen + Len(file[c]) + 1 - Len(out[c])
  ELSE Len(Stream(c))

(* What a client that receives has of its file.                            *)
Arrived(c) == IF at[c] = "recv" THEN got[c] ELSE <<>>

Plain(s) == \A i \in DOMAIN s : s[i] \notin {Marker[1], Marker[2]}

(* Each connection waits, is served or is closed; the server has ended     *)
(* with all of them, and a client that is gone has left somehow.           *)
QueuePart ==
  /\ \A i, j \in DOMAIN backlog : backlog[i] = backlog[j] => i = j
  /\ \A c \in Clients :
       /\ at[c] = "off" => ~Queued(c) /\ serving # c /\ c \notin shut
       /\ at[c] # "off" => Queued(c) \/ serving = c \/ c \in shut
       /\ Queued(c) => serving # c /\ c \notin shut
       /\ serving = c => c \notin shut
       /\ left[c] = "no" <=> at[c] # "gone"
  /\ phase = "down" => backlog = <<>>

(* What a client has typed, and what is left of it to send.                *)
TypedPart(c) ==
  /\ at[c] \in {"upload", "store", "recv", "ask"} =>
       key[c] \in [1 .. KeyLen -> Letters] /\ file[c] \in Seq(Letters)
  /\ at[c] = "upload" =>
       \E n \in 1 .. Len(Chunks(c)) : out[c] = SubSeq(Chunks(c), n, Len(Chunks(c)))
  /\ at[c] = "recv" => ~whole[c]

(* A connection that was never accepted has an empty stream.               *)
OffPart(c) == at[c] = "off" => up[c] = <<>> /\ down[c] = <<>> /\ c \notin rst

(* The server has closed the connection of a client that goes on.          *)
Cut(c) ==
  /\ down[c] = <<>> /\ (phase = "down" \/ faults > 0)
  /\ at[c] = "ask" => ~whole[c]

(* The server has taken n bytes of the stream, and not its marker.         *)
Taken(c, n) ==
  /\ up[c] = SubSeq(Stream(c), n + 1, Sent(c))
  /\ Queued(c) => n = 2
  /\ serving = c =>
       /\ phase \in {"key", "file", "more"}
       /\ phase = "more" => n = 0
       /\ phase = "key" /\ ~astray[c] => n = 2
       /\ phase = "file" =>
            /\ n <= Len(Stream(c)) - 2 => Plain(skey) /\ Plain(sfile)
            /\ ~astray[c] =>
                 /\ at[c] # "prompt" /\ skey = key[c]
                 /\ Len(sfile) <= Len(file[c]) /\ sfile = SubSeq(file[c], 1, Len(sfile))
                 /\ n = 2 + KeyLen + Len(sfile)

Unfound(c) ==
  /\ at[c] \in {"prompt", "upload", "store", "recv"}
  /\ down[c] = <<>> /\ Arrived(c) = <<>>
  /\ \E n \in 0 .. Sent(c) : Taken(c, n)

(* The server has the whole stream, and sends back what it made of it.     *)
Returned(c, n) ==
  /\ sout = SubSeq(Result, n + 1, Len(Result))
  /\ Plain(down[c])
  /\ ~astray[c] => Arrived(c) \o down[c] = SubSeq(Encryption(key[c], file[c]), 1, n)

MarkerLast(s) == \A i \in DOMAIN s : /\ s[i] = Marker[1] => i = Len(s) - 1
                                     /\ s[i] = Marker[2] => i = Len(s)

Found(c) ==
  /\ serving = c /\ phase \in {"encrypt", "reply", "more"}
  /\ at[c] \in {"store", "recv", "ask"} /\ up[c] = <<>>
  /\ phase # "more" =>
       /\ at[c] # "ask" /\ Plain(skey) /\ Plain(sfile)
       /\ ~astray[c] => skey = key[c] /\ sfile = file[c]
  /\ phase = "encrypt" => down[c] = <<>> /\ Arrived(c) = <<>>
  /\ phase = "reply" => \E n \in 0 .. Len(sfile) : Returned(c, n)
  /\ phase = "more" =>
       IF at[c] = "ask"
       THEN down[c] = <<>> /\ (~astray[c] => whole[c] /\ got[c] = Encryption(key[c], file[c]))
       ELSE /\ MarkerLast(down[c])
            /\ ~astray[c] => /\ Len(Arrived(c)) <= Len(file[c])
                             /\ Arrived(c) \o down[c] = Encryption(key[c], file[c]) \o Marker

(* The server deals with the No of a client that is gone; when it has only *)
(* got the N, it takes the o for a key and an empty file for the rest.     *)
NoPart(c) ==
  at[c] = "gone" /\ left[c] = "answered" /\ c \notin shut =>
    /\ serving = c
    /\ phase = "key" => up[c] = <<No[2]>>
    /\ phase \in {"file", "encrypt", "reply"} => up[c] = <<>>
    /\ phase \in {"file", "encrypt"} => sfile = <<>>
    /\ phase = "reply" => sout = <<Marker>>
    /\ phase = "more" => up[c] \in {<<>>, No}
    /\ c \in rst => phase = "more" /\ up[c] = <<>>

Connection(c) ==
  /\ TypedPart(c) /\ OffPart(c) /\ NoPart(c)
  /\ Alive(c) /\ c \in shut => Cut(c)
  /\ Alive(c) /\ c \notin shut => c \notin rst /\ (Unfound(c) \/ Found(c))

(* Each client, its connection and the server agree on how far its key,    *)
(* file and answer have come and what has come back: this is what makes a  *)
(* client's file right and a client's No harmless.                         *)
StreamsAgree == QueuePart /\ \A c \in Clients : Connection(c)
=============================================================================
