----------------------------- MODULE MCEncFile -----------------------------
(***************************************************************************)
(* The encrypting file server with two clients, an alphabet of two letters *)
(* and a buffer of three bytes, in which a marker is cut in two as easily  *)
(* as in the hundred of the code.                                          *)
(***************************************************************************)
EXTENDS EncFileInv

CONSTANTS c1, c2

TwoClients == {c1, c2}
AB == <<"a", "b">>
Swap == {<<"b", "a">>}
Twice == [c \in TwoClients |-> IF c = c1 THEN 2 ELSE 1]
TwoFiles == {<<"b">>, <<"a", "b">>}
=============================================================================
