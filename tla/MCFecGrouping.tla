--------------------------- MODULE MCFecGrouping ---------------------------
(* Instances of FecGrouping for TLC.                                       *)
EXTENDS FecGrouping

CONSTANTS h1, h2, t1, t2

(* Both helpers serve one track, or each has its own.                      *)
OneTrack == [h \in Helpers |-> t1]
OwnTrack == [h \in Helpers |-> IF h = h1 THEN t1 ELSE t2]
=============================================================================
