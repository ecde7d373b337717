------------------------------- MODULE MCSMTP -------------------------------
(***************************************************************************)
(* SMTP on a small instance.                                               *)
(***************************************************************************)
EXTENDS SMTPInv

CONSTANTS u1, u2, b1, b2

TwoUsers == {u1, u2}
TwoBoxes == {b1, b2}
OneBox   == {b1}

(* Both users write; one of them lists mails meanwhile, the other reads    *)
(* them.                                                                   *)
Some == [u \in Users |->
           {r \in Commands : r.cmd \notin IF u = u1 THEN {"get"} ELSE {"list", "quit"}}]
=============================================================================
