---------------------------- MODULE MCKTPWindow ----------------------------
(***************************************************************************)
(* The networks the runs of KTPWindow are made on: which datagrams         *)
(* dropMessage discards, and which overtake each other.                    *)
(***************************************************************************)
EXTENDS KTPWindowInv

None      == {}
DataOnly  == {"data"}
AcksOnly  == {"ack"}
Everything == {"data", "ack"}
=============================================================================
