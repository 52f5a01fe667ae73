------------------------ MODULE FecLinkServiceProofs ------------------------
(***************************************************************************)
(* What the FEC link does for its application and to the network: its      *)
(* receive path implements ObjectService, and its NACKs do not amplify     *)
(* traffic.  Both rest on the invariant of FecLinkProofs.                  *)
(***************************************************************************)
EXTENDS FecLinkProofs, SequenceTheorems

-----------------------------------------------------------------------------
(* The refinement.  The abstract state changes only with the ring and the  *)
(* events.                                                                 *)
LEMMA ServiceStutters ==
    ASSUME UNCHANGED <<assemblers, delivered, lost>>
    PROVE  UNCHANGED Service!serviceVars
  BY DEF Service!serviceVars, Assembled

(* Slot i now holds frame h of object o, which no other slot names ...     *)
Fills(i, h, o) ==
    /\ h.total > 0 /\ h.obj = o
    /\ assemblers' = [assemblers EXCEPT ![i] = h]
    /\ \A j \in Slots \ {i} : assemblers[j].obj # o

(* ... and no longer this one.                                             *)
Emptied(i) == IF assemblers[i].total > 0 THEN {assemblers[i].obj} ELSE {}

(* What that makes of the abstract sets.                                   *)
LEMMA SlotStepMaps ==
    ASSUME IInv, NEW o \in Objects, NEW i \in Slots, NEW h \in Frame,
           Fills(i, h, o)
    PROVE  /\ Assembled(FALSE)' = (Assembled(FALSE) \ (Emptied(i) \cup {o}))
                                      \cup (IF h.decoded = FALSE THEN {o} ELSE {})
           /\ Assembled(TRUE)' = (Assembled(TRUE) \ (Emptied(i) \cup {o}))
                                      \cup (IF h.decoded = TRUE THEN {o} ELSE {})
  <1> DEFINE gone == Emptied(i)
  <1> USE DEF Fills, Emptied
  <1>1. /\ \A j \in Slots : assemblers'[j] = IF j = i THEN h ELSE assemblers[j]
        /\ assemblers \in [Slots -> Frame]
    BY DEF IInv, TypeOK
  <1>2. ASSUME NEW j \in Slots, j # i, assemblers[j].total > 0
        PROVE  assemblers[j].obj \notin gone
    <2>1. FrameOK(assemblers[j]) /\ UniqueFrame
      BY DEF IInv
    <2>2. assemblers[j].obj # None
      BY <1>2, <2>1, DatagramAssumption DEF FrameOK
    <2> QED  BY <1>2, <2>1, <2>2 DEF UniqueFrame
  <1>3. ASSUME NEW d \in BOOLEAN
        PROVE  Assembled(d)' = (Assembled(d) \ (gone \cup {o}))
                                   \cup (IF h.decoded = d THEN {o} ELSE {})
    <2>1. ASSUME NEW q \in Objects
          PROVE  q \in Assembled(d)' <=> \E j \in Slots : /\ assemblers'[j].total > 0
                                                         /\ assemblers'[j].obj = q
                                                         /\ assemblers'[j].decoded = d
      BY DEF Assembled
    <2>2. ASSUME NEW q \in Objects, q # o
          PROVE  q \in Assembled(d)' <=> q \in Assembled(d) /\ q \notin gone
      <3>1. ASSUME q \in Assembled(d)' PROVE q \in Assembled(d) /\ q \notin gone
        <4>1. PICK j \in Slots : /\ assemblers'[j].total > 0
                                 /\ assemblers'[j].obj = q
                                 /\ assemblers'[j].decoded = d
          BY <2>1, <3>1
        <4>2. j # i /\ assemblers'[j] = assemblers[j]
          BY <1>1, <2>2, <4>1
        <4>3. q \notin gone
          BY <1>2, <4>1, <4>2
        <4> QED  BY <4>1, <4>2, <4>3 DEF Assembled
      <3>2. ASSUME q \in Assembled(d), q \notin gone PROVE q \in Assembled(d)'
        <4>1. PICK j \in Slots : /\ assemblers[j].total > 0
                                 /\ assemblers[j].obj = q
                                 /\ assemblers[j].decoded = d
          BY <3>2 DEF Assembled
        <4>2. j # i
          BY <3>2, <4>1
        <4> QED  BY <1>1, <2>1, <4>1, <4>2
      <3> QED  BY <3>1, <3>2
    <2>3. o \in Assembled(d)' <=> h.decoded = d
      <3>1. \A j \in Slots : assemblers'[j].obj = o => j = i
        BY <1>1
      <3>2. assemblers'[i] = h
        BY <1>1
      <3> QED  BY <2>1, <3>1, <3>2
    <2>4. Assembled(d) \subseteq Objects /\ Assembled(d)' \subseteq Objects
      BY DEF Assembled
    <2> HIDE DEF gone
    <2>5. ASSUME NEW q
          PROVE  q \in Assembled(d)' <=>
                    q \in (Assembled(d) \ (gone \cup {o}))
                              \cup (IF h.decoded = d THEN {o} ELSE {})
      <3>1. CASE q = o
        BY <2>3, <3>1
      <3>2. CASE q # o /\ q \in Objects
        BY <2>2, <3>2
      <3>3. CASE q \notin Objects
        BY <2>4, <3>3
      <3> QED  BY <3>1, <3>2, <3>3
    <2> QED  BY <2>5
  <1> HIDE DEF gone
  <1> QED  BY <1>3 DEF gone

(* A symbol for a frame that waits raises the object or changes nothing.   *)
LEMMA ContinuedMaps ==
    ASSUME IInv, NEW o \in Objects, Continued(o)
    PROVE  Service!Raise(o) \/ UNCHANGED Service!serviceVars
  <1> DEFINE P == Assembled(FALSE)
             R == Assembled(TRUE)
  <1>1. PICK i \in Slots, h \in Frame :
           /\ assemblers[i].total > 0 /\ assemblers[i].obj = o
           /\ assemblers[i].decoded = FALSE
           /\ Absorbed(i, assemblers[i], h)
           /\ UNCHANGED <<assembler_index, lost, allocs>>
    BY DEF Continued
  <1>2. /\ h.total > 0 /\ h.obj = o
        /\ assemblers' = [assemblers EXCEPT ![i] = h]
        /\ \/ h.decoded = TRUE /\ delivered' = [delivered EXCEPT ![o] = delivered[o] + 1]
           \/ h.decoded = FALSE /\ delivered' = delivered
    BY <1>1 DEF Absorbed, Completed
  <1>3. \A j \in Slots \ {i} : assemblers[j].obj # o
    BY <1>1, DatagramAssumption DEF IInv, UniqueFrame
  <1>4. o \in P
    BY <1>1 DEF Assembled
  <1>5. o \notin R
    BY <1>1, <1>3 DEF Assembled
  <1>6. /\ P' = (P \ ({o} \cup {o})) \cup (IF h.decoded = FALSE THEN {o} ELSE {})
        /\ R' = (R \ ({o} \cup {o})) \cup (IF h.decoded = TRUE THEN {o} ELSE {})
    <2>1. Fills(i, h, o)
      BY <1>2, <1>3 DEF Fills
    <2>2. /\ P' = (P \ (Emptied(i) \cup {o})) \cup (IF h.decoded = FALSE THEN {o} ELSE {})
          /\ R' = (R \ (Emptied(i) \cup {o})) \cup (IF h.decoded = TRUE THEN {o} ELSE {})
      BY <2>1, SlotStepMaps
    <2>3. Emptied(i) = {o}
      BY <1>1 DEF Emptied
    <2> HIDE DEF P, R
    <2> QED  BY <2>2, <2>3
  <1> HIDE DEF P, R
  <1>7. CASE h.decoded = TRUE
    <2>1. P' = P \ {o} /\ R' = R \cup {o}
      BY <1>5, <1>6, <1>7
    <2>2. delivered' = [delivered EXCEPT ![o] = delivered[o] + 1] /\ lost' = lost
      BY <1>1, <1>2, <1>7
    <2> QED  BY <1>4, <2>1, <2>2 DEF Service!Raise, Service!Count, P, R
  <1>8. CASE h.decoded = FALSE
    <2>1. P' = P /\ R' = R
      BY <1>4, <1>5, <1>6, <1>8
    <2>2. delivered' = delivered /\ lost' = lost
      BY <1>1, <1>2, <1>8
    <2> QED  BY <2>1, <2>2 DEF Service!serviceVars, P, R
  <1> QED  BY <1>2, <1>7, <1>8

(* The first symbol of an object takes it up, whole or not, and at most    *)
(* the object in the slot it takes is forgotten.                           *)
LEMMA StartedMaps ==
    ASSUME IInv, NEW o \in Objects, Started(o)
    PROVE  Service!TakeUp(o) \/ Service!TakeUpWhole(o)
  <1> DEFINE P == Assembled(FALSE)
             R == Assembled(TRUE)
             i == assembler_index
             old == assemblers[i]
             gone == Emptied(i)
  <1>1. PICK f \in Frame, h \in Frame :
           /\ f.total > 0 /\ f.obj = o
           /\ \A j \in Slots : assemblers[j].obj # o
           /\ Absorbed(i, f, h)
           /\ lost' = IF ReportLost(old)
                      THEN lost \cup {<<old.obj, delivered[old.obj]>>}
                      ELSE lost
    BY DEF Started
  <1>2. /\ h.total > 0 /\ h.obj = o
        /\ assemblers' = [assemblers EXCEPT ![i] = h]
        /\ \/ h.decoded = TRUE /\ delivered' = [delivered EXCEPT ![o] = delivered[o] + 1]
           \/ h.decoded = FALSE /\ delivered' = delivered
    BY <1>1 DEF Absorbed, Completed
  <1>3. i \in Slots /\ old \in Frame /\ FrameOK(old)
    BY DEF IInv, TypeOK
  <1>4. o \notin P /\ o \notin R
    BY <1>1 DEF Assembled
  <1>5. /\ P' = (P \ (gone \cup {o})) \cup (IF h.decoded = FALSE THEN {o} ELSE {})
        /\ R' = (R \ (gone \cup {o})) \cup (IF h.decoded = TRUE THEN {o} ELSE {})
    <2>1. Fills(i, h, o)
      BY <1>1, <1>2 DEF Fills
    <2> HIDE DEF i
    <2> QED  BY <1>3, <2>1, SlotStepMaps
  <1>6. /\ gone \in SUBSET (P \cup R)
        /\ \A v, w \in gone : v = w
        /\ old.total > 0 /\ ~old.decoded => old.obj \in P
        /\ old.total > 0 /\ old.decoded => old.obj \notin P
    <2>1. old.total > 0 => old.obj \in Objects /\ old.obj # None
      BY <1>3, DatagramAssumption DEF FrameOK
    <2>2. old.decoded \in BOOLEAN
      BY <1>3 DEF Frame
    <2>3. old.total > 0 /\ old.decoded = FALSE => old.obj \in P
      BY <1>3, <2>1 DEF Assembled
    <2>4. old.total > 0 /\ old.decoded = TRUE => old.obj \in R
      BY <1>3, <2>1 DEF Assembled
    <2>5. ASSUME old.total > 0, old.decoded = TRUE, old.obj \in P
          PROVE  FALSE
      <3>1. PICK j \in Slots : assemblers[j].obj = old.obj /\ assemblers[j].decoded = FALSE
        BY <2>5 DEF Assembled
      <3>2. j = i
        BY <1>3, <2>1, <2>5, <3>1 DEF IInv, UniqueFrame
      <3> QED  BY <2>5, <3>1, <3>2
    <2> QED  BY <2>2, <2>3, <2>4, <2>5 DEF Emptied
  <1>7. lost' = lost \cup {<<v, delivered[v]>> : v \in gone \cap P}
    <2> HIDE DEF P, old
    <2>1. CASE ReportLost(old)
      <3>1. gone \cap P = {old.obj}
        BY <1>6, <2>1 DEF ReportLost, Emptied, old
      <3>2. {<<v, delivered[v]>> : v \in gone \cap P} = {<<old.obj, delivered[old.obj]>>}
        BY <3>1
      <3> QED  BY <1>1, <2>1, <3>2 DEF old
    <2>2. CASE ~ReportLost(old)
      <3>1. gone \cap P = {}
        BY <1>6, <2>2 DEF ReportLost, Emptied, old
      <3>2. {<<v, delivered[v]>> : v \in gone \cap P} = {}
        BY <3>1
      <3> QED  BY <1>1, <2>2, <3>2 DEF old
    <2> QED  BY <2>1, <2>2
  <1> HIDE DEF P, R, gone
  <1>8. /\ o \notin P \cup R
        /\ \A v, w \in gone : v = w
        /\ lost' = lost \cup {<<v, delivered[v]>> : v \in gone \cap P}
    BY <1>4, <1>6, <1>7
  <1>9. Service!MakeRoom(o, gone)
    BY <1>8 DEF Service!MakeRoom, P, R
  <1>10. CASE h.decoded = TRUE
    <2>1. P' = P \ gone /\ R' = (R \ gone) \cup {o}
      BY <1>4, <1>5, <1>10
    <2>2. Service!Count(o)
      BY <1>2, <1>10 DEF Service!Count
    <2> QED  BY <1>6, <1>9, <2>1, <2>2 DEF Service!TakeUpWhole, P, R
  <1>11. CASE h.decoded = FALSE
    <2>1. P' = (P \ gone) \cup {o} /\ R' = R \ gone
      BY <1>4, <1>5, <1>11
    <2>2. delivered' = delivered
      BY <1>2, <1>11
    <2> QED  BY <1>6, <1>9, <2>1, <2>2 DEF Service!TakeUp, P, R
  <1> QED  BY <1>2, <1>10, <1>11

(* Every step of publisher, network and receiver is a step of the service  *)
(* or none: each first symbol takes its object up, at most one object is   *)
(* forgotten for it, an unfinished one is reported, and nothing is raised  *)
(* twice before it is forgotten.                                           *)
THEOREM LinkImplementsService == Spec => ImplementsService
  <1>1. Init => Service!Init
    <2> SUFFICES ASSUME Init PROVE Service!Init
      OBVIOUS
    <2>1. Assembled(FALSE) = {} /\ Assembled(TRUE) = {}
      BY DEF Init, AssemblerInit, Assembled, UnusedFrame
    <2>2. delivered \in [Objects -> {0}] /\ lost = {}
      BY DEF Init, AssemblerInit
    <2> QED  BY <2>1, <2>2 DEF Service!Init
  <1>2. IInv /\ [Next]_vars => [Service!Next]_(Service!serviceVars)
    <2> SUFFICES ASSUME IInv, [Next]_vars
                 PROVE  Service!Next \/ UNCHANGED Service!serviceVars
      OBVIOUS
    <2>1. CASE \E o \in Objects : PublishObject(o)
      BY <2>1, ServiceStutters DEF PublishObject, assemblerVars
    <2>2. ASSUME NEW o \in Objects, NEW s \in Syms, DeliverDatagram(o, s)
          PROVE  Service!Next \/ UNCHANGED Service!serviceVars
      <3>1. Ignored \/ Continued(o) \/ Started(o)
        BY <2>2, ReceiveOutcome
      <3>2. CASE Ignored
        BY <3>2, ServiceStutters DEF Ignored
      <3>3. CASE Continued(o)
        BY <3>3, ContinuedMaps DEF Service!Next
      <3>4. CASE Started(o)
        BY <3>4, StartedMaps DEF Service!Next
      <3> QED  BY <3>1, <3>2, <3>3, <3>4
    <2>3. CASE \E o \in Objects, s \in Syms : LoseDatagram(o, s)
      BY <2>3, ServiceStutters DEF LoseDatagram, assemblerVars
    <2>4. CASE DeliverNack
      BY <2>4, ServiceStutters DEF DeliverNack
    <2>5. CASE UNCHANGED vars
      BY <2>5, ServiceStutters DEF vars, assemblerVars
    <2> QED  BY <2>1, <2>2, <2>3, <2>4, <2>5 DEF Next
  <1> QED  BY <1>1, <1>2, Invariance, PTL DEF Spec, ImplementsService, Service!Spec

-----------------------------------------------------------------------------
(* The NACKs on their way for an object.                                   *)
Entries(seq, o) == {k \in 1 .. Len(seq) : seq[k].obj = o}

(* Every copy of a symbol in flight and every NACK on its way is paid for  *)
(* by the publication or by a residency in the ring, and a frame that has  *)
(* not asked yet has not used its own; nobody asks for what was not        *)
(* published.                                                              *)
Budget ==
    /\ \A o \in Objects, s \in Syms :
          net[o][s] + Cardinality(Entries(nacks, o)) <= 1 + allocs[o]
    /\ \A i \in Slots, s \in Syms :
          LET f == assemblers[i]
          IN  f.total > 0 /\ f.nack_sent = FALSE =>
                 net[f.obj][s] + Cardinality(Entries(nacks, f.obj)) <= allocs[f.obj]
    /\ \A o \in Objects : hdr[o] = NoHeader => Entries(nacks, o) = {}

Nack == [obj : Objects, missing : SUBSET Syms]

(* How the number of an object's NACKs changes when one is written, ...    *)
LEMMA EntriesFinite ==
    ASSUME NEW seq \in Seq(Nack), NEW o
    PROVE  IsFiniteSet(Entries(seq, o)) /\ Cardinality(Entries(seq, o)) \in Nat
  <1>1. Len(seq) \in Nat
    OBVIOUS
  <1>2. IsFiniteSet(1 .. Len(seq))
    BY <1>1, FS_Interval
  <1>3. Entries(seq, o) \subseteq 1 .. Len(seq)
    BY DEF Entries
  <1> QED  BY <1>2, <1>3, FS_Subset, FS_CardinalityType

LEMMA EntriesAppend ==
    ASSUME NEW seq \in Seq(Nack), NEW n \in Nack, NEW o
    PROVE  Cardinality(Entries(Append(seq, n), o))
              = Cardinality(Entries(seq, o)) + (IF n.obj = o THEN 1 ELSE 0)
  <1> DEFINE t == Append(seq, n)
             S == Entries(seq, o)
             k == Len(seq) + 1
  <1>1. Len(seq) \in Nat /\ Len(t) = k /\ t[k] = n /\ \A i \in 1 .. Len(seq) : t[i] = seq[i]
    BY AppendProperties
  <1> HIDE DEF t
  <1>2. Entries(t, o) = S \cup (IF n.obj = o THEN {k} ELSE {})
    BY <1>1 DEF Entries
  <1>3. k \notin S
    BY <1>1 DEF Entries
  <1>4. IsFiniteSet(S) /\ Cardinality(S) \in Nat
    BY EntriesFinite
  <1> HIDE DEF S, k
  <1>5. Cardinality(S \cup {k}) = Cardinality(S) + 1
    BY <1>3, <1>4, FS_AddElement
  <1>6. CASE n.obj = o
    BY <1>2, <1>5, <1>6 DEF t, S
  <1>7. CASE n.obj # o
    <2>1. Entries(t, o) = S
      BY <1>2, <1>7
    <2> QED  BY <1>4, <1>7, <2>1 DEF t, S
  <1> QED  BY <1>6, <1>7

(* ... and when the oldest is read.                                        *)
LEMMA EntriesTail ==
    ASSUME NEW seq \in Seq(Nack), seq # <<>>, NEW o
    PROVE  Cardinality(Entries(Tail(seq), o))
              <= Cardinality(Entries(seq, o)) - (IF Head(seq).obj = o THEN 1 ELSE 0)
  <1> DEFINE t == Tail(seq)
             S == Entries(seq, o)
             T == Entries(t, o)
             f == [k \in T |-> k + 1]
  <1>1. /\ Len(seq) \in Nat /\ Len(seq) >= 1 /\ Len(t) = Len(seq) - 1
        /\ \A i \in 1 .. Len(seq) - 1 : t[i] = seq[i + 1]
        /\ Head(seq) = seq[1]
    OBVIOUS
  <1> HIDE DEF t
  <1>2. f \in Injection(T, S \ {1})
    <2>1. \A k \in T : k + 1 \in S \ {1}
      BY <1>1 DEF Entries
    <2>2. \A j, k \in T : j + 1 = k + 1 => j = k
      BY <1>1 DEF Entries
    <2> HIDE DEF T, S
    <2> QED  BY <2>1, <2>2 DEF Injection, IsInjective
  <1>3. IsFiniteSet(S) /\ Cardinality(S) \in Nat
    BY EntriesFinite
  <1>4. 1 \in S <=> Head(seq).obj = o
    BY <1>1 DEF Entries
  <1> HIDE DEF S, T, f
  <1>5. /\ IsFiniteSet(S \ {1})
        /\ Cardinality(S \ {1}) = IF 1 \in S THEN Cardinality(S) - 1 ELSE Cardinality(S)
    BY <1>3, FS_RemoveElement
  <1>6. Cardinality(T) <= Cardinality(S \ {1})
    BY <1>2, <1>5, FS_Injection
  <1>7. Cardinality(T) <= Cardinality(S) - (IF Head(seq).obj = o THEN 1 ELSE 0)
    BY <1>3, <1>4, <1>5, <1>6
  <1> QED  BY <1>7 DEF S, T, t

(* Numbers in the budget are natural numbers.                              *)
LEMMA BudgetTypes ==
    ASSUME IInv
    PROVE  /\ nacks \in Seq(Nack)
           /\ \A o \in Objects : /\ Cardinality(Entries(nacks, o)) \in Nat
                                 /\ allocs[o] \in Nat
           /\ \A o \in Objects, s \in Syms : net[o][s] \in Nat
           /\ \A i \in Slots : assemblers[i].total > 0 => assemblers[i].obj \in Objects
  <1>1. nacks \in Seq(Nack)
    BY DEF IInv, TypeOK, Nack
  <1>2. \A o \in Objects : Cardinality(Entries(nacks, o)) \in Nat
    BY <1>1, EntriesFinite
  <1>3. \A o \in Objects : allocs[o] \in Nat
    BY DEF IInv, TypeOK
  <1>4. \A o \in Objects, s \in Syms : net[o][s] \in Nat
    BY DEF IInv, TypeOK
  <1>5. \A i \in Slots : assemblers[i].total > 0 => assemblers[i].obj \in Objects
    BY DEF IInv, FrameOK
  <1> QED  BY <1>1, <1>2, <1>3, <1>4, <1>5

LEMMA InitBudget == Init => Budget
  <1> SUFFICES ASSUME Init PROVE Budget
    OBVIOUS
  <1>1. \A o \in Objects : Entries(nacks, o) = {}
    BY DEF Init, AssemblerInit, Entries
  <1>2. \A o \in Objects : Cardinality(Entries(nacks, o)) = 0
    BY <1>1, FS_EmptySet
  <1>3. \A i \in Slots : ~(assemblers[i].total > 0)
    BY DEF Init, AssemblerInit, UnusedFrame
  <1>4. \A o \in Objects, s \in Syms : net[o][s] = 0 /\ allocs[o] = 0
    BY DEF Init, AssemblerInit, SenderInit
  <1> QED  BY <1>1, <1>2, <1>3, <1>4 DEF Budget

(* Publishing puts one copy of each symbol in flight: there is no NACK for *)
(* the object and no frame of it yet.                                      *)
LEMMA PublishBudget ==
    ASSUME IInv, Budget, NEW o \in Objects, PublishObject(o)
    PROVE  Budget'
  <1>0. PICK data \in 1 .. MaxData, track \in Profiles :
           \E parity \in ParityChoices(track.fec_enabled, data) :
              /\ hdr[o] = NoHeader
              /\ hdr' = [hdr EXCEPT ![o] = [data |-> data, total |-> data + parity,
                                            isData |-> track.isData]]
              /\ net' = [net EXCEPT ![o] =
                            [s \in Syms |-> IF s < data + parity THEN 1 ELSE 0]]
    BY DEF PublishObject, Publish
  <1>1. PICK parity \in ParityChoices(track.fec_enabled, data) :
           /\ hdr[o] = NoHeader
           /\ hdr' = [hdr EXCEPT ![o] = [data |-> data, total |-> data + parity,
                                         isData |-> track.isData]]
           /\ net' = [net EXCEPT ![o] =
                         [s \in Syms |-> IF s < data + parity THEN 1 ELSE 0]]
    BY <1>0
  <1>2. UNCHANGED <<assemblers, nacks, allocs>>
    BY DEF PublishObject, assemblerVars
  <1>3. /\ \A q \in Objects \ {o} : hdr'[q] = hdr[q] /\ net'[q] = net[q]
        /\ \A s \in Syms : net'[o][s] \in {0, 1}
    BY <1>1 DEF IInv, TypeOK
  <1>4. Entries(nacks, o) = {} /\ Cardinality(Entries(nacks, o)) = 0
    BY <1>1, FS_EmptySet DEF Budget
  <1>5. \A i \in Slots : assemblers[i].total > 0 => assemblers[i].obj \in Objects \ {o}
    BY <1>1 DEF IInv, FrameOK, NoHeader
  <1>6. \A q \in Objects, s \in Syms :
           net'[q][s] + Cardinality(Entries(nacks, q)) <= 1 + allocs[q]
    <2> TAKE q \in Objects, s \in Syms
    <2>1. CASE q = o
      <3>1. allocs[o] \in Nat
        BY BudgetTypes
      <3> QED  BY <1>3, <1>4, <2>1, <3>1
    <2>2. CASE q # o
      BY <1>3, <2>2 DEF Budget
    <2> QED  BY <2>1, <2>2
  <1>7. \A i \in Slots, s \in Syms :
           assemblers[i].total > 0 /\ assemblers[i].nack_sent = FALSE =>
              net'[assemblers[i].obj][s] + Cardinality(Entries(nacks, assemblers[i].obj))
                 <= allocs[assemblers[i].obj]
    BY <1>3, <1>5 DEF Budget
  <1>8. \A q \in Objects : hdr'[q] = NoHeader => Entries(nacks, q) = {}
    BY <1>3, <1>4 DEF Budget
  <1> QED  BY <1>2, <1>6, <1>7, <1>8 DEF Budget, Entries

(* A step that leaves every sum where it was or lowers it.                 *)
LEMMA LowerBudget ==
    ASSUME IInv, Budget, UNCHANGED <<assemblers, allocs, hdr>>,
           \A q \in Objects, s \in Syms :
              /\ net'[q][s] \in Nat /\ Cardinality(Entries(nacks', q)) \in Nat
              /\ net'[q][s] + Cardinality(Entries(nacks', q))
                    <= net[q][s] + Cardinality(Entries(nacks, q)),
           \A q \in Objects : Entries(nacks, q) = {} => Entries(nacks', q) = {}
    PROVE  Budget'
  <1>1. \A q \in Objects, s \in Syms :
           net'[q][s] + Cardinality(Entries(nacks', q)) <= 1 + allocs[q]
    <2> TAKE q \in Objects, s \in Syms
    <2>1. /\ net[q][s] \in Nat /\ Cardinality(Entries(nacks, q)) \in Nat
          /\ allocs[q] \in Nat
      BY BudgetTypes
    <2>2. net[q][s] + Cardinality(Entries(nacks, q)) <= 1 + allocs[q]
      BY DEF Budget
    <2> QED  BY <2>1, <2>2
  <1>2. \A i \in Slots, s \in Syms :
           assemblers[i].total > 0 /\ assemblers[i].nack_sent = FALSE =>
              net'[assemblers[i].obj][s] + Cardinality(Entries(nacks', assemblers[i].obj))
                 <= allocs[assemblers[i].obj]
    <2> SUFFICES ASSUME NEW i \in Slots, NEW s \in Syms, assemblers[i].total > 0,
                        assemblers[i].nack_sent = FALSE
                 PROVE  net'[assemblers[i].obj][s]
                           + Cardinality(Entries(nacks', assemblers[i].obj))
                              <= allocs[assemblers[i].obj]
      OBVIOUS
    <2> DEFINE q == assemblers[i].obj
    <2>1. q \in Objects
      BY BudgetTypes
    <2>2. net[q][s] + Cardinality(Entries(nacks, q)) <= allocs[q]
      BY DEF Budget
    <2> HIDE DEF q
    <2>3. /\ net[q][s] \in Nat /\ Cardinality(Entries(nacks, q)) \in Nat
          /\ allocs[q] \in Nat
      BY <2>1, BudgetTypes
    <2>4. net'[q][s] + Cardinality(Entries(nacks', q)) <= allocs[q]
      BY <2>1, <2>2, <2>3
    <2> QED  BY <2>4 DEF q
  <1>3. \A q \in Objects : hdr[q] = NoHeader => Entries(nacks', q) = {}
    BY DEF Budget
  <1> QED  BY <1>1, <1>2, <1>3 DEF Budget, Entries

LEMMA LoseBudget ==
    ASSUME IInv, Budget, NEW o \in Objects, NEW s \in Syms, LoseDatagram(o, s)
    PROVE  Budget'
  <1>1. net' = [net EXCEPT ![o][s] = @ - 1] /\ net[o][s] > 0
    BY DEF LoseDatagram
  <1>2. UNCHANGED <<assemblers, nacks, allocs, hdr>>
    BY DEF LoseDatagram, assemblerVars
  <1>3. \A q \in Objects, r \in Syms : net'[q][r] \in Nat /\ net'[q][r] <= net[q][r]
    BY <1>1 DEF IInv, TypeOK
  <1>4. \A q \in Objects, r \in Syms :
              /\ net'[q][r] \in Nat /\ Cardinality(Entries(nacks', q)) \in Nat
              /\ net'[q][r] + Cardinality(Entries(nacks', q))
                    <= net[q][r] + Cardinality(Entries(nacks, q))
    <2> TAKE q \in Objects, r \in Syms
    <2>1. Cardinality(Entries(nacks, q)) \in Nat /\ net[q][r] \in Nat
      BY BudgetTypes
    <2>2. nacks' = nacks
      BY <1>2
    <2> QED  BY <1>3, <2>1, <2>2
  <1> QED  BY <1>2, <1>4, LowerBudget

(* A NACK that is answered leaves the queue and puts at most one copy of a *)
(* symbol in flight.                                                       *)
LEMMA NackBudget ==
    ASSUME IInv, Budget, DeliverNack
    PROVE  Budget'
  <1> DEFINE n == Head(nacks)
             again == [s \in Syms |-> IF s \in n.missing /\ s < hdr[n.obj].total
                                     THEN net[n.obj][s] + 1 ELSE net[n.obj][s]]
  <1>1. /\ nacks # <<>> /\ nacks' = Tail(nacks)
        /\ UNCHANGED <<assemblers, allocs, hdr>>
        /\ net' = net \/ net' = [net EXCEPT ![n.obj] = again]
    BY DEF DeliverNack, HandleNack
  <1>2. nacks \in Seq(Nack)
    BY BudgetTypes
  <1>3. nacks' \in Seq(Nack) /\ n \in Nack
    BY <1>1, <1>2
  <1>4. n.obj \in Objects
    BY <1>3 DEF Nack
  <1>5. \A s \in Syms : again[s] \in Nat /\ again[s] <= net[n.obj][s] + 1
    <2>1. \A s \in Syms : net[n.obj][s] \in Nat
      BY <1>4, BudgetTypes
    <2> HIDE DEF n
    <2> QED  BY <2>1
  <1> HIDE DEF n, again
  <1>6. \A q \in Objects, s \in Syms :
           net'[q][s] \in Nat /\ net'[q][s] <= net[q][s] + (IF n.obj = q THEN 1 ELSE 0)
    <2> TAKE q \in Objects, s \in Syms
    <2>1. net[q][s] \in Nat /\ net \in [Objects -> [Syms -> Nat]]
      BY BudgetTypes DEF IInv, TypeOK
    <2> QED  BY <1>1, <1>4, <1>5, <2>1
  <1>7. \A q \in Objects, s \in Syms :
              /\ net'[q][s] \in Nat /\ Cardinality(Entries(nacks', q)) \in Nat
              /\ net'[q][s] + Cardinality(Entries(nacks', q))
                    <= net[q][s] + Cardinality(Entries(nacks, q))
    <2> TAKE q \in Objects, s \in Syms
    <2>1. Cardinality(Entries(nacks, q)) \in Nat /\ net[q][s] \in Nat
      BY BudgetTypes
    <2>2. Cardinality(Entries(nacks', q)) \in Nat
      BY <1>3, EntriesFinite
    <2>3. Cardinality(Entries(nacks', q))
             <= Cardinality(Entries(nacks, q)) - (IF n.obj = q THEN 1 ELSE 0)
      BY <1>1, <1>2, EntriesTail DEF n
    <2>4. net'[q][s] \in Nat /\ net'[q][s] <= net[q][s] + (IF n.obj = q THEN 1 ELSE 0)
      BY <1>6
    <2> QED  BY <2>1, <2>2, <2>3, <2>4
  <1>8. \A q \in Objects : Entries(nacks, q) = {} => Entries(nacks', q) = {}
    <2>1. /\ Len(nacks) \in Nat /\ Len(nacks') = Len(nacks) - 1
          /\ \A k \in 1 .. Len(nacks) - 1 : nacks'[k] = nacks[k + 1]
      BY <1>1, <1>2
    <2> SUFFICES ASSUME NEW q \in Objects, NEW k \in Entries(nacks', q)
                 PROVE  k + 1 \in Entries(nacks, q)
      OBVIOUS
    <2>2. k \in 1 .. Len(nacks) - 1 /\ nacks'[k].obj = q
      BY <2>1 DEF Entries
    <2> QED  BY <2>1, <2>2 DEF Entries
  <1> QED  BY <1>1, <1>7, <1>8, LowerBudget

(* A frame that asks spends what its residency paid for.                   *)
LEMMA AbsorbBudget ==
    ASSUME IInv, Budget, NEW o \in Objects, NEW i \in Slots,
           NEW f \in Frame, NEW h \in Frame, f.obj = o, Absorbed(i, f, h),
           \A j \in Slots \ {i} : assemblers[j].obj # o,
           hdr' = hdr, hdr[o] # NoHeader,
           \A q \in Objects, r \in Syms : net'[q][r] \in Nat /\ net'[q][r] <= net[q][r],
           allocs' \in [Objects -> Nat], allocs[o] <= allocs'[o],
           \A q \in Objects \ {o} : allocs'[q] = allocs[q],
           f.nack_sent = FALSE =>
              \A r \in Syms : net[o][r] + Cardinality(Entries(nacks, o)) <= allocs'[o]
    PROVE  Budget'
  <1>1. /\ h.obj = o /\ assemblers' = [assemblers EXCEPT ![i] = h]
        /\ nacks' \in Seq(Nack) /\ Asked(f, h)
    BY DEF Absorbed, Nack
  <1>2. \A j \in Slots : assemblers'[j] = IF j = i THEN h ELSE assemblers[j]
    BY <1>1 DEF IInv, TypeOK
  <1>3. nacks \in Seq(Nack)
    BY BudgetTypes
  <1>4. ASSUME NEW q \in Objects \ {o}
        PROVE  /\ Cardinality(Entries(nacks', q)) = Cardinality(Entries(nacks, q))
               /\ Entries(nacks, q) = {} => Entries(nacks', q) = {}
    <2>1. CASE nacks' = nacks
      BY <2>1
    <2>2. ASSUME NEW m \in SUBSET Syms, nacks' = Append(nacks, [obj |-> o, missing |-> m])
          PROVE  /\ Cardinality(Entries(nacks', q)) = Cardinality(Entries(nacks, q))
                 /\ Entries(nacks, q) = {} => Entries(nacks', q) = {}
      <3> DEFINE n == [obj |-> o, missing |-> m]
      <3>1. n \in Nack /\ n.obj # q
        BY DEF Nack
      <3> HIDE DEF n
      <3>2. Cardinality(Entries(nacks', q)) = Cardinality(Entries(nacks, q)) + 0
        BY <1>3, <2>2, <3>1, EntriesAppend DEF n
      <3>3. Cardinality(Entries(nacks, q)) \in Nat
        BY BudgetTypes
      <3>4. /\ Len(nacks) \in Nat /\ Len(nacks') = Len(nacks) + 1
            /\ nacks'[Len(nacks) + 1] = n
            /\ \A k \in 1 .. Len(nacks) : nacks'[k] = nacks[k]
        BY <1>3, <2>2, <3>1, AppendProperties DEF n
      <3>5. Entries(nacks', q) \subseteq Entries(nacks, q)
        BY <3>1, <3>4 DEF Entries
      <3> QED  BY <3>2, <3>3, <3>5
    <2> QED  BY <1>1, <2>1, <2>2 DEF Asked
  <1>5. /\ Cardinality(Entries(nacks, o)) \in Nat /\ Cardinality(Entries(nacks', o)) \in Nat
        /\ \/ /\ Cardinality(Entries(nacks', o)) = Cardinality(Entries(nacks, o))
              /\ h.nack_sent = f.nack_sent
           \/ /\ Cardinality(Entries(nacks', o)) = Cardinality(Entries(nacks, o)) + 1
              /\ f.nack_sent = FALSE /\ h.nack_sent = TRUE
    <2>1. Cardinality(Entries(nacks, o)) \in Nat /\ Cardinality(Entries(nacks', o)) \in Nat
      BY <1>1, <1>3, EntriesFinite
    <2>2. CASE nacks' = nacks /\ h.nack_sent = f.nack_sent
      BY <2>1, <2>2
    <2>3. ASSUME f.nack_sent = FALSE, h.nack_sent = TRUE,
                 NEW m \in SUBSET Syms, nacks' = Append(nacks, [obj |-> o, missing |-> m])
          PROVE  Cardinality(Entries(nacks', o)) = Cardinality(Entries(nacks, o)) + 1
      <3> DEFINE n == [obj |-> o, missing |-> m]
      <3>1. n \in Nack /\ n.obj = o
        BY DEF Nack
      <3> HIDE DEF n
      <3> QED  BY <1>3, <2>3, <3>1, EntriesAppend DEF n
    <2> QED  BY <1>1, <2>1, <2>2, <2>3 DEF Asked
  <1>6. \A q \in Objects, r \in Syms :
           net'[q][r] + Cardinality(Entries(nacks', q)) <= 1 + allocs'[q]
    <2> TAKE q \in Objects, r \in Syms
    <2>1. /\ net[q][r] \in Nat /\ Cardinality(Entries(nacks, q)) \in Nat
          /\ allocs[q] \in Nat /\ allocs'[q] \in Nat
      BY BudgetTypes
    <2>2. net[q][r] + Cardinality(Entries(nacks, q)) <= 1 + allocs[q]
      BY DEF Budget
    <2>3. CASE q # o
      <3>1. Cardinality(Entries(nacks', q)) = Cardinality(Entries(nacks, q))
        BY <1>4, <2>3
      <3> QED  BY <2>1, <2>2, <2>3, <3>1
    <2>4. CASE q = o
      <3>1. CASE Cardinality(Entries(nacks', o)) = Cardinality(Entries(nacks, o))
        BY <1>5, <2>1, <2>2, <2>4, <3>1
      <3>2. CASE /\ Cardinality(Entries(nacks', o)) = Cardinality(Entries(nacks, o)) + 1
                 /\ f.nack_sent = FALSE
        BY <1>5, <2>1, <2>4, <3>2
      <3> QED  BY <1>5, <3>1, <3>2
    <2> QED  BY <2>3, <2>4
  <1>7. ASSUME NEW j \in Slots, NEW r \in Syms, assemblers'[j].total > 0,
               assemblers'[j].nack_sent = FALSE
        PROVE  net'[assemblers'[j].obj][r] + Cardinality(Entries(nacks', assemblers'[j].obj))
                  <= allocs'[assemblers'[j].obj]
    <2>1. CASE j = i
      <3>1. assemblers'[j] = h /\ assemblers'[j].obj = o /\ h.nack_sent = FALSE
        BY <1>1, <1>2, <1>7, <2>1
      <3>2. /\ Cardinality(Entries(nacks', o)) = Cardinality(Entries(nacks, o))
            /\ f.nack_sent = FALSE
        BY <1>5, <3>1
      <3>3. net[o][r] \in Nat /\ allocs'[o] \in Nat
        BY BudgetTypes
      <3>4. net'[o][r] + Cardinality(Entries(nacks', o)) <= allocs'[o]
        BY <1>5, <3>2, <3>3
      <3> QED  BY <3>1, <3>4
    <2>2. CASE j # i
      <3> DEFINE q == assemblers[j].obj
      <3>1. assemblers'[j] = assemblers[j] /\ q # o
        BY <1>2, <2>2
      <3>2. q \in Objects /\ net[q][r] + Cardinality(Entries(nacks, q)) <= allocs[q]
        BY <1>7, <3>1, BudgetTypes DEF Budget
      <3> HIDE DEF q
      <3>3. /\ net[q][r] \in Nat /\ Cardinality(Entries(nacks, q)) \in Nat
            /\ allocs[q] \in Nat
        BY <3>2, BudgetTypes
      <3>4. Cardinality(Entries(nacks', q)) = Cardinality(Entries(nacks, q))
        BY <1>4, <3>1, <3>2
      <3>5. net'[q][r] + Cardinality(Entries(nacks', q)) <= allocs'[q]
        BY <3>1, <3>2, <3>3, <3>4
      <3> QED  BY <3>1, <3>5 DEF q
    <2> QED  BY <2>1, <2>2
  <1>8. \A q \in Objects : hdr[q] = NoHeader => Entries(nacks', q) = {}
    <2> TAKE q \in Objects
    <2>1. CASE q = o
      BY <2>1
    <2>2. CASE q # o
      BY <1>4, <2>2 DEF Budget
    <2> QED  BY <2>1, <2>2
  <1> QED  BY <1>6, <1>7, <1>8 DEF Budget, Entries

LEMMA DeliverBudget ==
    ASSUME IInv, Budget, NEW o \in Objects, NEW s \in Syms, DeliverDatagram(o, s)
    PROVE  Budget'
  <1>1. net' = [net EXCEPT ![o][s] = @ - 1] /\ net[o][s] > 0 /\ hdr' = hdr
    BY DEF DeliverDatagram
  <1>2. \A q \in Objects, r \in Syms : net'[q][r] \in Nat /\ net'[q][r] <= net[q][r]
    BY <1>1 DEF IInv, TypeOK
  <1>3. hdr[o] # NoHeader /\ (Ignored \/ Continued(o) \/ Started(o))
    BY ReceiveOutcome DEF NoHeader
  <1>4. CASE Ignored
    <2>1. UNCHANGED <<assemblers, nacks, allocs, hdr>>
      BY <1>1, <1>4 DEF Ignored
    <2>2. \A q \in Objects, r \in Syms :
              /\ net'[q][r] \in Nat /\ Cardinality(Entries(nacks', q)) \in Nat
              /\ net'[q][r] + Cardinality(Entries(nacks', q))
                    <= net[q][r] + Cardinality(Entries(nacks, q))
      <3> TAKE q \in Objects, r \in Syms
      <3>1. Cardinality(Entries(nacks, q)) \in Nat /\ net[q][r] \in Nat
        BY BudgetTypes
      <3>2. nacks' = nacks
        BY <2>1
      <3> QED  BY <1>2, <3>1, <3>2
    <2> QED  BY <2>1, <2>2, LowerBudget
  <1>5. CASE Continued(o)
    <2>1. PICK i \in Slots, h \in Frame :
             /\ assemblers[i].total > 0 /\ assemblers[i].obj = o
             /\ Absorbed(i, assemblers[i], h)
             /\ UNCHANGED allocs
      BY <1>5 DEF Continued
    <2>2. assemblers[i] \in Frame /\ allocs \in [Objects -> Nat]
      BY DEF IInv, TypeOK
    <2>3. \A j \in Slots \ {i} : assemblers[j].obj # o
      BY <2>1, DatagramAssumption DEF IInv, UniqueFrame
    <2>4. assemblers[i].nack_sent = FALSE =>
             \A r \in Syms : net[o][r] + Cardinality(Entries(nacks, o)) <= allocs[o]
      BY <2>1 DEF Budget
    <2>5. allocs[o] \in Nat /\ allocs[o] <= allocs[o]
      BY <2>2
    <2> QED  BY <1>1, <1>2, <1>3, <2>1, <2>2, <2>3, <2>4, <2>5, AbsorbBudget
  <1>6. CASE Started(o)
    <2>1. PICK f \in Frame, h \in Frame :
             /\ f.obj = o
             /\ \A j \in Slots : assemblers[j].obj # o
             /\ Absorbed(assembler_index, f, h)
             /\ allocs' = [allocs EXCEPT ![o] = @ + 1]
      BY <1>6 DEF Started
    <2>2. assembler_index \in Slots /\ allocs \in [Objects -> Nat]
      BY DEF IInv, TypeOK
    <2>3. /\ allocs' \in [Objects -> Nat] /\ allocs'[o] = allocs[o] + 1
          /\ allocs[o] <= allocs'[o] /\ \A q \in Objects \ {o} : allocs'[q] = allocs[q]
      BY <2>1, <2>2
    <2>4. \A r \in Syms : net[o][r] + Cardinality(Entries(nacks, o)) <= allocs'[o]
      <3>1. \A r \in Syms : net[o][r] + Cardinality(Entries(nacks, o)) <= 1 + allocs[o]
        BY DEF Budget
      <3>2. 1 + allocs[o] = allocs'[o]
        BY <2>2, <2>3
      <3> QED  BY <3>1, <3>2
    <2> QED  BY <1>1, <1>2, <1>3, <2>1, <2>2, <2>3, <2>4, AbsorbBudget
  <1> QED  BY <1>3, <1>4, <1>5, <1>6

(* Retransmission does not amplify traffic: for every ring size and every  *)
(* interleaving of packets, losses and NACKs, a symbol has at most one     *)
(* copy in flight per residency of its object beside the published one.    *)
THEOREM TrafficBounded == Spec => []RetransmissionBounded
  <1>1. Init => Budget
    BY InitBudget
  <1>2. IInv /\ Budget /\ [Next]_vars => Budget'
    <2> SUFFICES ASSUME IInv, Budget, [Next]_vars PROVE Budget'
      OBVIOUS
    <2>1. CASE UNCHANGED vars
      BY <2>1 DEF vars, assemblerVars, senderVars, Budget, Entries
    <2> QED  BY <2>1, PublishBudget, DeliverBudget, LoseBudget, NackBudget DEF Next
  <1>3. IInv /\ Budget => RetransmissionBounded
    <2> SUFFICES ASSUME IInv, Budget, NEW o \in Objects, NEW s \in Syms
                 PROVE  net[o][s] <= 1 + allocs[o]
      BY DEF RetransmissionBounded
    <2>1. /\ net[o][s] \in Nat /\ Cardinality(Entries(nacks, o)) \in Nat
          /\ allocs[o] \in Nat
      BY BudgetTypes
    <2>2. net[o][s] + Cardinality(Entries(nacks, o)) <= 1 + allocs[o]
      BY DEF Budget
    <2> QED  BY <2>1, <2>2
  <1> QED  BY <1>1, <1>2, <1>3, Invariance, PTL DEF Spec
=============================================================================
