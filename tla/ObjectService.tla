--------------------------- MODULE ObjectService ---------------------------
(***************************************************************************)
(* What the datagram receive path promises its application, without        *)
(* symbols, rings or retransmission.  An object is taken up when the first *)
(* of it arrives and is pending until it is raised; a raised object is     *)
(* remembered, so that it is not raised again.  One object at a time may   *)
(* be forgotten for a new one, and a pending object that is forgotten is   *)
(* reported lost.  Only a forgotten object can be taken up again.          *)
(***************************************************************************)
EXTENDS Naturals

CONSTANT Objects

VARIABLES
    pending,     \* objects taken up and not raised yet
    remembered,  \* objects raised and not forgotten yet
    raised,      \* OBJECT events per object
    reported     \* OBJECT_LOST events: <<object, how often it had been raised>>

serviceVars == <<pending, remembered, raised, reported>>

Init ==
    /\ pending = {}
    /\ remembered = {}
    /\ raised \in [Objects -> {0}]
    /\ reported = {}

(* o is new, and the victims (one or none) are forgotten for it.           *)
MakeRoom(o, victims) ==
    /\ o \notin pending \cup remembered
    /\ \A v, w \in victims : v = w
    /\ reported' = reported \cup {<<v, raised[v]>> : v \in victims \cap pending}

Count(o) == raised' = [raised EXCEPT ![o] = raised[o] + 1]

(* The first symbol of o arrives ...                                       *)
TakeUp(o) ==
    \E victims \in SUBSET (pending \cup remembered) :
        /\ MakeRoom(o, victims)
        /\ pending' = (pending \ victims) \cup {o}
        /\ remembered' = remembered \ victims
        /\ UNCHANGED raised

(* ... or it is all of o.                                                  *)
TakeUpWhole(o) ==
    \E victims \in SUBSET (pending \cup remembered) :
        /\ MakeRoom(o, victims)
        /\ pending' = pending \ victims
        /\ remembered' = (remembered \ victims) \cup {o}
        /\ Count(o)

(* A pending object is complete.                                           *)
Raise(o) ==
    /\ o \in pending
    /\ pending' = pending \ {o}
    /\ remembered' = remembered \cup {o}
    /\ Count(o)
    /\ UNCHANGED reported

Next == \E o \in Objects : TakeUp(o) \/ TakeUpWhole(o) \/ Raise(o)

Spec == Init /\ [][Next]_serviceVars
=============================================================================
