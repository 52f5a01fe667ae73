----------------------------- MODULE MCSession -----------------------------
(* Instances of Session for TLC: the server's --track list overlaps the    *)
(* clients', who also have tracks of their own and the unnamed track.      *)
EXTENDS Session

CONSTANTS t1, t2, t3

ListA == <<t1, t2>>
ListB == <<t3, t1>>
ListU == <<Unnamed, t3, t1>>
ListS == <<t1>>
=============================================================================
