----------------------------- MODULE MCDataUds -----------------------------
(* Instances of DataUds for TLC.                                           *)
EXTENDS DataUds

CONSTANTS t1, t2

(* The connections are one helper's, before and after it reconnects.       *)
OneHelper == [k \in Socks |-> t1]
=============================================================================
