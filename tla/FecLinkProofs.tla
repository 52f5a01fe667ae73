--------------------------- MODULE FecLinkProofs ---------------------------
(***************************************************************************)
(* Proofs about FecLink, for every ring size, symbol bound and set of      *)
(* objects.                                                                *)
(***************************************************************************)
EXTENDS FecLink, FiniteSetTheorems, TLAPS

(* What holds of every frame in the ring: an unused slot names no object;  *)
(* a used one carries the geometry its object was published with, its mask *)
(* lies inside the block, every received buffer holds that object's bytes, *)
(* and received_count counts the mask.                                     *)
FrameOK(f) ==
    /\ f.total = 0 => f.obj = None
    /\ f.total > 0 =>
          /\ f.obj \in Objects
          /\ f.data = hdr[f.obj].data
          /\ f.total = hdr[f.obj].total
          /\ \A s \in f.mask : s < f.total /\ f.buf[s] = f.obj
          /\ f.received_count = Cardinality(f.mask)

(* Only symbols of a published block are in flight.                        *)
NetOK == \A o \in Objects, s \in Syms : net[o][s] > 0 => s < hdr[o].total

(* A decoded frame has been raised; one that is not still has its delivery *)
(* to come.                                                                *)
CountOK ==
    /\ \A o \in Objects : delivered[o] <= allocs[o]
    /\ \A i \in Slots :
          LET f == assemblers[i]
          IN  f.total > 0 => /\ f.decoded => delivered[f.obj] > 0
                             /\ ~f.decoded => delivered[f.obj] < allocs[f.obj]

(* The inductive invariant.                                                *)
IInv ==
    /\ TypeOK
    /\ \A i \in Slots : FrameOK(assemblers[i])
    /\ NetOK
    /\ UniqueFrame
    /\ CountOK
    /\ DeliveredIntact
    /\ NoSilentDrop
    /\ NoStuckFrame

-----------------------------------------------------------------------------
(* Block geometry: a header of a published object is a record with         *)
(* 1 <= data <= total <= MaxSymbols.                                       *)
LEMMA HeaderFacts ==
    ASSUME TypeOK, NEW o \in Objects, hdr[o].total > 0
    PROVE  /\ hdr[o] \in Header
           /\ hdr[o].data \in 1 .. MaxSymbols
           /\ hdr[o].total \in 1 .. MaxSymbols
           /\ hdr[o].data <= hdr[o].total
           /\ hdr[o].isData \in BOOLEAN
  BY DatagramAssumption DEF TypeOK, Header, NoHeader

(* Publisher, retransmitter and receiver always choose the same codec for  *)
(* a block: DATA tracks use RaptorQ exactly above the Reed-Solomon limit.  *)
LEMMA CodecAgreement ==
    ASSUME NEW isData \in BOOLEAN, NEW total \in Nat
    PROVE  /\ PublishCodec(isData, total) = AssembleCodec(isData, total)
           /\ isData => RetransmitCodec(total) = AssembleCodec(isData, total)
  BY RSMaxAssumption DEF PublishCodec, AssembleCodec, RetransmitCodec

(* Storing a symbol of the frame's own block keeps the frame well formed.  *)
LEMMA StoreKeepsFrame ==
    ASSUME TypeOK, NEW f \in Frame, FrameOK(f), f.total > 0,
           NEW s \in Syms, s < hdr[f.obj].total
    PROVE  LET g == StoreSymbol(f, Packet(f.obj, s, hdr[f.obj]))
           IN  /\ g \in Frame
               /\ FrameOK(g)
               /\ g.total = f.total /\ g.obj = f.obj /\ g.data = f.data
               /\ g.decoded = f.decoded /\ g.nack_sent = f.nack_sent
  <1> DEFINE p == Packet(f.obj, s, hdr[f.obj])
             g == StoreSymbol(f, p)
  <1>1. f.obj \in Objects /\ p.obj = f.obj /\ p.sym = s
    BY DEF FrameOK, Packet
  <1>2. CASE s \in f.mask
    BY <1>1, <1>2 DEF StoreSymbol
  <1>3. CASE s \notin f.mask
    <2>1. g = [f EXCEPT !.buf[s] = f.obj, !.mask = f.mask \cup {s},
                        !.received_count = f.received_count + 1]
      BY <1>1, <1>3 DEF StoreSymbol
    <2>2. g \in Frame
      <3>1. [f.buf EXCEPT ![s] = f.obj] \in [Syms -> Objects \cup {None}]
        BY <1>1 DEF Frame
      <3>2. f.mask \cup {s} \in SUBSET Syms /\ f.received_count + 1 \in Nat
        BY DEF Frame
      <3> QED  BY <2>1, <3>1, <3>2 DEF Frame
    <2>3. IsFiniteSet(f.mask)
      <3>1. IsFiniteSet(Syms) /\ f.mask \subseteq Syms
        BY DatagramAssumption, FS_Interval DEF Syms, Frame
      <3> QED  BY <3>1, FS_Subset
    <2>4. Cardinality(f.mask \cup {s}) = Cardinality(f.mask) + 1
      BY <1>3, <2>3, FS_AddElement
    <2>5. /\ g.total = f.total /\ g.obj = f.obj /\ g.data = f.data
          /\ g.decoded = f.decoded /\ g.nack_sent = f.nack_sent
          /\ g.mask = f.mask \cup {s}
          /\ g.received_count = f.received_count + 1
          /\ \A r \in Syms : g.buf[r] = IF r = s THEN f.obj ELSE f.buf[r]
      BY <2>1 DEF Frame
    <2>6. FrameOK(g)
      BY <2>4, <2>5 DEF FrameOK, Frame
    <2> QED  BY <2>2, <2>5, <2>6
  <1> QED  BY <1>2, <1>3

(* Asking for the missing symbols changes nothing but nack_sent.           *)
LEMMA MarkKeepsFrame ==
    ASSUME NEW g \in Frame, FrameOK(g), NEW p
    PROVE  LET h == MarkNacked(g, p)
           IN  /\ h \in Frame
               /\ FrameOK(h)
               /\ h.total = g.total /\ h.obj = g.obj /\ h.data = g.data
               /\ h.decoded = g.decoded /\ h.mask = g.mask
               /\ NackDue(g, p) => g.nack_sent = FALSE /\ h.nack_sent = TRUE
               /\ ~NackDue(g, p) => h.nack_sent = g.nack_sent
  <1> DEFINE h == MarkNacked(g, p)
  <1>1. CASE NackDue(g, p)
    <2>1. h = [g EXCEPT !.nack_sent = TRUE]
      BY <1>1 DEF MarkNacked
    <2>2. /\ h \in Frame /\ h.total = g.total /\ h.obj = g.obj
          /\ h.data = g.data /\ h.decoded = g.decoded /\ h.mask = g.mask
          /\ h.buf = g.buf /\ h.received_count = g.received_count
          /\ h.nack_sent = TRUE
      BY <2>1 DEF Frame
    <2>3. FrameOK(h)
      BY <2>2 DEF FrameOK
    <2>4. g.nack_sent = FALSE
      BY <1>1 DEF NackDue, Frame
    <2> QED  BY <1>1, <2>2, <2>3, <2>4
  <1>2. CASE ~NackDue(g, p)
    BY <1>2 DEF MarkNacked
  <1> QED  BY <1>1, <1>2

(* A frame that enough symbols of its block have reached, with no codec to *)
(* wait for, decodes.                                                      *)
LEMMA UndecodedShort ==
    ASSUME TypeOK, NEW h \in Frame, FrameOK(h), h.total > 0, NEW s \in Syms,
           FALSE \in DecodeOutcomes(h, Packet(h.obj, s, hdr[h.obj])),
           h.total <= RSMax
    PROVE  Cardinality(h.mask) < h.data
  <1> DEFINE p == Packet(h.obj, s, hdr[h.obj])
  <1>1. /\ h.obj \in Objects /\ hdr[h.obj].total > 0
        /\ p.data = h.data /\ p.total = h.total
        /\ h.data = hdr[h.obj].data /\ h.total = hdr[h.obj].total
        /\ h.received_count = Cardinality(h.mask)
        /\ \A r \in h.mask : r < h.total
        /\ FALSE \in DecodeOutcomes(h, p)
    BY DEF FrameOK, Packet
  <1> HIDE DEF p
  <1>2. h.data \in 1 .. MaxSymbols /\ h.total \in 1 .. MaxSymbols
        /\ h.data <= h.total
    BY <1>1, HeaderFacts
  <1>3. IsFiniteSet(h.mask) /\ Cardinality(h.mask) \in Nat
        /\ h.mask \subseteq Syms
    <2>1. IsFiniteSet(Syms) /\ h.mask \subseteq Syms
      BY DatagramAssumption, FS_Interval DEF Syms, Frame
    <2> QED  BY <2>1, FS_Subset, FS_CardinalityType
  <1> SUFFICES ASSUME Cardinality(h.mask) >= h.data
               PROVE  FALSE
    BY <1>2, <1>3
  <1>4. ~GotAllData(h, p)
    <2>1. ~(h.received_count < p.data)
      BY <1>1, <1>2, <1>3
    <2>2. GotAllData(h, p) => DecodeOutcomes(h, p) = {TRUE}
      BY <2>1 DEF DecodeOutcomes
    <2> QED  BY <1>1, <2>2
  <1>5. AssembleCodec(p.isData, p.total) = "rs" /\ FecCreated("rs", p.total)
    BY <1>1, <1>2, RSMaxAssumption DEF AssembleCodec, FecCreated
  <1>6. CASE p.total > p.data
    <2>1. ~(h.received_count < p.data)
      BY <1>1, <1>2, <1>3
    <2>2. DecodeOutcomes(h, p) = FecDecode("rs", p.data, h.mask)
      BY <1>4, <1>5, <1>6, <2>1 DEF DecodeOutcomes
    <2>3. FALSE \in FecDecode("rs", p.data, h.mask)
      BY <1>1, <2>2
    <2> QED  BY <1>1, <2>3 DEF FecDecode
  <1>7. CASE p.total = p.data
    <2>1. h.mask \subseteq 0 .. h.data - 1
      BY <1>1, <1>2, <1>3, <1>7 DEF Syms
    <2>2. IsFiniteSet(0 .. h.data - 1) /\ Cardinality(0 .. h.data - 1) = h.data
      <3>1. h.data \in Nat \ {0} /\ 0 \in Int /\ h.data - 1 \in Int
        BY <1>2, DatagramAssumption
      <3>2. IsFiniteSet(0 .. (h.data - 1))
            /\ Cardinality(0 .. (h.data - 1))
                 = IF 0 > h.data - 1 THEN 0 ELSE (h.data - 1) - 0 + 1
        BY ONLY <3>1, FS_Interval, Zenon
      <3> QED  BY <3>1, <3>2
    <2>3. h.mask = 0 .. h.data - 1
      <3>1. Cardinality(h.mask) <= Cardinality(0 .. h.data - 1)
            /\ (Cardinality(0 .. h.data - 1) = Cardinality(h.mask)
                  => 0 .. h.data - 1 = h.mask)
        BY <2>1, <2>2, FS_Subset
      <3> QED  BY <1>2, <1>3, <2>2, <3>1
    <2> QED  BY <1>1, <1>2, <1>4, <2>3 DEF GotAllData, Syms
  <1> QED  BY <1>1, <1>2, <1>6, <1>7

(* What is delivered is the object: every buffer the decoder reads holds   *)
(* its bytes, encoded by the codec it is decoded with.                     *)
LEMMA DecodedIntact ==
    ASSUME TypeOK, NEW h \in Frame, FrameOK(h), h.total > 0, NEW s \in Syms
    PROVE  Intact(h, Packet(h.obj, s, hdr[h.obj]))
  <1> DEFINE p == Packet(h.obj, s, hdr[h.obj])
  <1>1. /\ h.obj \in Objects /\ hdr[h.obj].total > 0 /\ p.obj = h.obj
        /\ p.total = hdr[h.obj].total /\ p.isData = hdr[h.obj].isData
        /\ \A r \in h.mask : h.buf[r] = h.obj
    BY DEF FrameOK, Packet
  <1>2. /\ PublishCodec(p.isData, p.total) = AssembleCodec(p.isData, p.total)
        /\ p.isData => RetransmitCodec(p.total) = AssembleCodec(p.isData, p.total)
    BY <1>1, HeaderFacts, CodecAgreement
  <1> QED  BY <1>1, <1>2 DEF Intact, GotAllData

(* What absorbing a packet does to frame f, which becomes h in slot i: it  *)
(* is asked for at most once, and it is either decoded and raised, or      *)
(* short of symbols.                                                       *)
Asked(f, h) ==
    \/ nacks' = nacks /\ h.nack_sent = f.nack_sent
    \/ /\ f.nack_sent = FALSE /\ h.nack_sent = TRUE
       /\ \E m \in SUBSET Syms : nacks' = Append(nacks, [obj |-> f.obj, missing |-> m])

Completed(f, h) ==
    \/ /\ h.decoded = TRUE
       /\ delivered' = [delivered EXCEPT ![f.obj] = @ + 1]
    \/ /\ h.decoded = FALSE
       /\ delivered' = delivered
       /\ h.total <= RSMax => Cardinality(h.mask) < h.data

Absorbed(i, f, h) ==
    /\ FrameOK(h)
    /\ h.total = f.total /\ h.obj = f.obj
    /\ assemblers' = [assemblers EXCEPT ![i] = h]
    /\ nacks' \in Seq([obj : Objects, missing : SUBSET Syms])
    /\ corrupted' = corrupted
    /\ Asked(f, h)
    /\ Completed(f, h)

(* One packet absorbed by an undecoded frame: the frame in its slot is     *)
(* still well formed.                                                      *)
LEMMA AbsorbOutcome ==
    ASSUME TypeOK, NEW i \in Slots, NEW f \in Frame, FrameOK(f), f.total > 0,
           f.decoded = FALSE, NEW s \in Syms, s < hdr[f.obj].total,
           AbsorbSymbol(i, f, Packet(f.obj, s, hdr[f.obj]))
    PROVE  \E h \in Frame : Absorbed(i, f, h)
  <1> DEFINE p == Packet(f.obj, s, hdr[f.obj])
             g == StoreSymbol(f, p)
             h == MarkNacked(g, p)
             h2 == [h EXCEPT !.decoded = TRUE]
  <1>1. /\ g \in Frame /\ FrameOK(g) /\ g.total = f.total /\ g.obj = f.obj
        /\ g.decoded = FALSE /\ g.nack_sent = f.nack_sent
    BY StoreKeepsFrame
  <1>2. /\ h \in Frame /\ FrameOK(h) /\ h.total = f.total /\ h.obj = f.obj
        /\ h.decoded = FALSE
        /\ NackDue(g, p) => f.nack_sent = FALSE /\ h.nack_sent = TRUE
        /\ ~NackDue(g, p) => h.nack_sent = f.nack_sent
    BY <1>1, MarkKeepsFrame
  <1>3. nacks' \in Seq([obj : Objects, missing : SUBSET Syms]) /\ Asked(f, h)
    <2>1. p.obj = f.obj /\ f.obj \in Objects
      BY DEF FrameOK, Packet
    <2> DEFINE N == [obj : Objects, missing : SUBSET Syms]
               m == [obj |-> f.obj, missing |-> Missing(g)]
    <2>2. m \in N /\ Missing(g) \in SUBSET Syms
      BY <2>1 DEF Missing
    <2>3. nacks' = IF NackDue(g, p) THEN Append(nacks, m) ELSE nacks
      BY <2>1 DEF AbsorbSymbol
    <2>4. nacks \in Seq(N)
      BY DEF TypeOK
    <2>5. nacks' \in Seq(N)
      <3> HIDE DEF N, m
      <3> QED  BY <2>2, <2>3, <2>4
    <2>6. Asked(f, h)
      <3> HIDE DEF g, h, p
      <3>1. CASE NackDue(g, p)
        BY <1>2, <2>2, <2>3, <3>1 DEF Asked
      <3>2. CASE ~NackDue(g, p)
        BY <1>2, <2>3, <3>2 DEF Asked
      <3> QED  BY <3>1, <3>2
    <2> QED  BY <2>5, <2>6
  <1>4. CASE /\ FALSE \in DecodeOutcomes(h, p)
             /\ assemblers' = [assemblers EXCEPT ![i] = h]
             /\ UNCHANGED <<delivered, corrupted>>
    <2>1. h.total <= RSMax => Cardinality(h.mask) < h.data
      BY <1>2, <1>4, UndecodedShort
    <2> HIDE DEF h
    <2>2. Completed(f, h)
      BY <1>2, <1>4, <2>1 DEF Completed
    <2> QED  BY <1>2, <1>3, <1>4, <2>2 DEF Absorbed
  <1>5. CASE /\ TRUE \in DecodeOutcomes(h, p)
             /\ assemblers' = [assemblers EXCEPT ![i] = h2]
             /\ delivered' = [delivered EXCEPT ![p.obj] = @ + 1]
             /\ corrupted' = IF Intact(h, p) THEN corrupted
                             ELSE corrupted \cup {p.obj}
    <2>1. Intact(h, p)
      BY <1>2, DecodedIntact
    <2>2. /\ h2 \in Frame /\ h2.total = h.total /\ h2.obj = h.obj
          /\ h2.data = h.data /\ h2.mask = h.mask /\ h2.buf = h.buf
          /\ h2.received_count = h.received_count /\ h2.decoded = TRUE
          /\ h2.nack_sent = h.nack_sent
      <3> HIDE DEF h
      <3> QED  BY <1>2 DEF Frame
    <2>3. FrameOK(h2)
      <3> HIDE DEF h, h2
      <3> QED  BY <1>2, <2>2 DEF FrameOK
    <2>4. p.obj = f.obj
      BY DEF Packet
    <2> HIDE DEF h, h2
    <2>5. Completed(f, h2)
      BY <1>5, <2>2, <2>4 DEF Completed
    <2>6. Asked(f, h2)
      BY <1>3, <2>2 DEF Asked
    <2> QED  BY <1>2, <1>3, <1>5, <2>1, <2>2, <2>3, <2>5, <2>6 DEF Absorbed
  <1> QED  BY <1>4, <1>5 DEF AbsorbSymbol

-----------------------------------------------------------------------------
(* Nothing published, every slot unused: the invariant holds initially.    *)
LEMMA InitIInv == Init => IInv
  <1> SUFFICES ASSUME Init PROVE IInv
    OBVIOUS
  <1> USE DEF Init, AssemblerInit, SenderInit
  <1>1. UnusedFrame \in Frame
    BY DatagramAssumption DEF UnusedFrame, Frame
  <1>2. TypeOK
    BY <1>1, AssemblerAssumption, SenderAssumption
       DEF TypeOK, Slots, CacheSlots
  <1>3. \A i \in Slots : FrameOK(assemblers[i])
    BY DEF FrameOK, UnusedFrame
  <1>4. NetOK
    BY DEF NetOK
  <1>5. UniqueFrame
    BY DEF UniqueFrame, UnusedFrame
  <1>6. CountOK
    BY DEF CountOK, UnusedFrame
  <1>7. DeliveredIntact /\ NoSilentDrop /\ NoStuckFrame
    BY DEF DeliveredIntact, NoSilentDrop, NoStuckFrame, UnusedFrame
  <1> QED  BY <1>2, <1>3, <1>4, <1>5, <1>6, <1>7 DEF IInv

(* Publishing touches no frame: the object had none.                       *)
LEMMA PublishKeeps ==
    ASSUME IInv, NEW o \in Objects, PublishObject(o)
    PROVE  IInv'
  <1> USE DEF IInv
  <1>0. PICK data \in 1 .. MaxData, track \in Profiles :
           \E parity \in ParityChoices(track.fec_enabled, data) :
              /\ hdr[o] = NoHeader
              /\ hdr' = [hdr EXCEPT ![o] =
                            [data |-> data, total |-> data + parity,
                             isData |-> track.isData]]
              /\ net' = [net EXCEPT ![o] =
                            [s \in Syms |-> IF s < data + parity THEN 1 ELSE 0]]
              /\ sent_cache' = IF track.isData
                               THEN [sent_cache EXCEPT ![sent_cache_index] = o]
                               ELSE sent_cache
              /\ sent_cache_index' = IF track.isData
                                     THEN (sent_cache_index + 1) % SENT_CACHE_SIZE
                                     ELSE sent_cache_index
    BY DEF PublishObject, Publish
  <1>1. PICK parity \in ParityChoices(track.fec_enabled, data) :
           /\ hdr[o] = NoHeader
           /\ hdr' = [hdr EXCEPT ![o] = [data |-> data, total |-> data + parity,
                                         isData |-> track.isData]]
           /\ net' = [net EXCEPT ![o] =
                         [s \in Syms |-> IF s < data + parity THEN 1 ELSE 0]]
           /\ sent_cache' = IF track.isData
                            THEN [sent_cache EXCEPT ![sent_cache_index] = o]
                            ELSE sent_cache
           /\ sent_cache_index' = IF track.isData
                                  THEN (sent_cache_index + 1) % SENT_CACHE_SIZE
                                  ELSE sent_cache_index
    BY <1>0
  <1>2. UNCHANGED <<assemblers, assembler_index, nacks, delivered, corrupted,
                    lost, allocs, losses>>
    BY DEF PublishObject, assemblerVars
  <1>3. parity \in Nat /\ data + parity \in 1 .. MaxSymbols /\ data \in 1 .. MaxSymbols
    BY SenderAssumption, DatagramAssumption DEF ParityChoices
  <1>4. [data |-> data, total |-> data + parity, isData |-> track.isData] \in Header
    BY <1>3, SenderAssumption DEF Header
  <1>5. TypeOK'
    <2>1. hdr' \in [Objects -> Header \cup {NoHeader}]
      BY <1>1, <1>4 DEF TypeOK
    <2>2. net' \in [Objects -> [Syms -> Nat]]
      BY <1>1 DEF TypeOK
    <2>3. sent_cache' \in [CacheSlots -> Objects \cup {None}]
          /\ sent_cache_index' \in CacheSlots
      BY <1>1, SenderAssumption DEF TypeOK, CacheSlots
    <2> QED  BY <1>2, <2>1, <2>2, <2>3 DEF TypeOK
  <1>6. \A q \in Objects : q # o => hdr'[q] = hdr[q]
    BY <1>1 DEF TypeOK
  <1>7. \A i \in Slots : FrameOK(assemblers[i])'
    <2> TAKE i \in Slots
    <2>1. assemblers[i] \in Frame /\ FrameOK(assemblers[i])
      BY DEF TypeOK
    <2>2. assemblers[i].total > 0 => assemblers[i].obj # o
      BY <1>1, <2>1 DEF FrameOK, NoHeader
    <2> QED  BY <1>2, <1>6, <2>1, <2>2 DEF FrameOK
  <1>8. NetOK'
    <2> SUFFICES ASSUME NEW q \in Objects, NEW s \in Syms, net'[q][s] > 0
                 PROVE  s < hdr'[q].total
      BY DEF NetOK
    <2>1. CASE q = o
      BY <1>1, <2>1 DEF TypeOK
    <2>2. CASE q # o
      BY <1>1, <1>6, <2>2 DEF TypeOK, NetOK
    <2> QED  BY <2>1, <2>2
  <1>9. (UniqueFrame /\ CountOK /\ DeliveredIntact /\ NoSilentDrop /\ NoStuckFrame)'
    BY <1>2 DEF UniqueFrame, CountOK, DeliveredIntact, NoSilentDrop, Resident,
                NoStuckFrame
  <1> QED  BY <1>5, <1>7, <1>8, <1>9

(* A step that only moves datagrams and NACKs.                             *)
LEMMA NetStepKeeps ==
    ASSUME IInv, TypeOK', NetOK',
           UNCHANGED <<assemblers, delivered, corrupted, lost, allocs, hdr>>
    PROVE  IInv'
  <1> USE DEF IInv
  <1>1. \A i \in Slots : FrameOK(assemblers[i])'
    BY DEF FrameOK
  <1>2. (UniqueFrame /\ CountOK /\ DeliveredIntact /\ NoSilentDrop /\ NoStuckFrame)'
    BY DEF UniqueFrame, CountOK, DeliveredIntact, NoSilentDrop, Resident,
           NoStuckFrame
  <1> QED  BY <1>1, <1>2

(* Losing a datagram leaves every header and frame as it was.              *)
LEMMA LoseKeeps ==
    ASSUME IInv, NEW o \in Objects, NEW s \in Syms, LoseDatagram(o, s)
    PROVE  IInv'
  <1> USE DEF IInv
  <1>1. net' = [net EXCEPT ![o][s] = @ - 1] /\ net[o][s] > 0 /\ losses' = losses + 1
    BY DEF LoseDatagram
  <1>2. UNCHANGED <<assemblers, assembler_index, nacks, delivered, corrupted, lost,
                    allocs, hdr, sent_cache, sent_cache_index>>
    BY DEF LoseDatagram, assemblerVars
  <1>3. net[o] \in [Syms -> Nat] /\ net[o][s] - 1 \in Nat
    BY <1>1 DEF TypeOK
  <1>4. TypeOK'
    BY <1>1, <1>2, <1>3 DEF TypeOK
  <1>5. NetOK'
    BY <1>1, <1>2, <1>3 DEF NetOK, TypeOK
  <1> QED  BY <1>2, <1>4, <1>5, NetStepKeeps

(* Answering a NACK only puts symbols of published objects back in flight: *)
(* it never resends past the end of a block.                               *)
LEMMA NackKeeps ==
    ASSUME IInv, DeliverNack
    PROVE  IInv'
  <1> USE DEF IInv
  <1> DEFINE n == Head(nacks)
             N == [obj : Objects, missing : SUBSET Syms]
  <1>1. /\ nacks # <<>> /\ HandleNack(n) /\ nacks' = Tail(nacks)
        /\ UNCHANGED <<assemblers, assembler_index, delivered, corrupted, lost,
                       allocs, losses>>
    BY DEF DeliverNack
  <1>2. nacks \in Seq(N)
    BY DEF TypeOK
  <1>3. n \in N /\ nacks' \in Seq(N)
    <2> HIDE DEF N
    <2> QED  BY <1>1, <1>2
  <1>4. n.obj \in Objects /\ UNCHANGED <<hdr, sent_cache, sent_cache_index>>
    BY <1>1, <1>3 DEF HandleNack
  <1> DEFINE up == [s \in Syms |-> IF s \in n.missing /\ s < hdr[n.obj].total
                                   THEN net[n.obj][s] + 1 ELSE net[n.obj][s]]
  <1>5. net' = net \/ net' = [net EXCEPT ![n.obj] = up]
    BY <1>1 DEF HandleNack
  <1>6. /\ up \in [Syms -> Nat]
        /\ \A s \in Syms : up[s] = net[n.obj][s] \/ s < hdr[n.obj].total
    <2> HIDE DEF n
    <2>1. net[n.obj] \in [Syms -> Nat]
      BY <1>4 DEF TypeOK
    <2> QED  BY <2>1
  <1> HIDE DEF n, up
  <1>7. TypeOK'
    BY <1>1, <1>3, <1>4, <1>5, <1>6 DEF TypeOK
  <1>8. NetOK'
    <2> SUFFICES ASSUME NEW q \in Objects, NEW s \in Syms, net'[q][s] > 0
                 PROVE  s < hdr[q].total
      BY <1>4 DEF NetOK
    <2>1. net'[q][s] = net[q][s] \/ s < hdr[q].total
      BY <1>4, <1>5, <1>6 DEF TypeOK
    <2> QED  BY <2>1 DEF NetOK
  <1> QED  BY <1>1, <1>4, <1>7, <1>8, NetStepKeeps

(* Object o's frame, now h, in slot i: the ring invariants survive whether *)
(* the slot already was o's or has been taken from another object.         *)
LEMMA SlotStepKeeps ==
    ASSUME IInv, NEW o \in Objects, NEW i \in Slots, NEW h \in Frame,
           FrameOK(h), h.total > 0, h.obj = o, hdr' = hdr,
           assemblers' = [assemblers EXCEPT ![i] = h],
           \A j \in Slots \ {i} : assemblers[j].obj # o,
           \/ /\ h.decoded = TRUE
              /\ delivered' = [delivered EXCEPT ![o] = @ + 1]
           \/ /\ h.decoded = FALSE
              /\ delivered' = delivered
              /\ h.total <= RSMax => Cardinality(h.mask) < h.data,
           allocs' \in [Objects -> Nat], delivered[o] < allocs'[o],
           \A q \in Objects \ {o} : allocs'[q] = allocs[q],
           lost \subseteq lost',
           assemblers[i].total > 0 /\ ~assemblers[i].decoded
              => \/ assemblers[i].obj = o
                 \/ \E e \in lost' : e[1] = assemblers[i].obj
    PROVE  /\ \A j \in Slots : FrameOK(assemblers[j])'
           /\ (UniqueFrame /\ CountOK /\ NoSilentDrop /\ NoStuckFrame)'
  <1> USE DEF IInv
  <1>1. /\ \A j \in Slots : assemblers'[j] = IF j = i THEN h ELSE assemblers[j]
        /\ assemblers \in [Slots -> Frame]
        /\ delivered \in [Objects -> Nat] /\ allocs \in [Objects -> Nat]
    BY DEF TypeOK
  <1>2. /\ \A q \in Objects \ {o} : delivered'[q] = delivered[q]
        /\ delivered'[o] \in Nat /\ delivered'[o] >= delivered[o]
        /\ delivered'[o] <= allocs'[o]
        /\ h.decoded = TRUE => delivered'[o] > 0
        /\ h.decoded = FALSE => delivered'[o] < allocs'[o]
    BY <1>1
  <1>3. \A j \in Slots : FrameOK(assemblers[j])'
    <2> TAKE j \in Slots
    <2>1. CASE j = i
      BY <1>1, <2>1 DEF FrameOK
    <2>2. CASE j # i
      <3>1. FrameOK(assemblers[j]) /\ assemblers'[j] = assemblers[j]
        BY <1>1, <2>2
      <3> QED  BY <3>1 DEF FrameOK
    <2> QED  BY <2>1, <2>2
  <1>4. UniqueFrame'
    BY <1>1 DEF UniqueFrame
  <1>5. CountOK'
    <2>1. \A q \in Objects : delivered'[q] <= allocs'[q]
      BY <1>1, <1>2 DEF CountOK
    <2>2. ASSUME NEW j \in Slots, assemblers'[j].total > 0
          PROVE  /\ assemblers'[j].decoded => delivered'[assemblers'[j].obj] > 0
                 /\ ~assemblers'[j].decoded
                      => delivered'[assemblers'[j].obj] < allocs'[assemblers'[j].obj]
      <3>1. CASE j = i
        <4>1. assemblers'[j] = h /\ (h.decoded = TRUE \/ h.decoded = FALSE)
          BY <1>1, <3>1
        <4> QED  BY <4>1, <1>2
      <3>2. CASE j # i
        <4>1. assemblers'[j] = assemblers[j] /\ assemblers[j].obj # o
              /\ FrameOK(assemblers[j])
          BY <1>1, <3>2
        <4>2. assemblers[j].obj \in Objects \ {o}
          BY <2>2, <4>1 DEF FrameOK
        <4>3. /\ delivered'[assemblers[j].obj] = delivered[assemblers[j].obj]
              /\ allocs'[assemblers[j].obj] = allocs[assemblers[j].obj]
          BY <1>2, <4>2
        <4> QED  BY <2>2, <4>1, <4>3 DEF CountOK
      <3> QED  BY <3>1, <3>2
    <2> QED  BY <2>1, <2>2 DEF CountOK
  <1>6. NoSilentDrop'
    <2> SUFFICES ASSUME NEW q \in Objects, allocs'[q] > 0
                 PROVE  \/ delivered'[q] > 0
                        \/ \E e \in lost' : e[1] = q
                        \/ \E j \in Slots : /\ assemblers'[j].total > 0
                                            /\ assemblers'[j].obj = q
      BY DEF NoSilentDrop, Resident
    <2>1. CASE q = o
      BY <1>1, <2>1
    <2>2. CASE q # o
      <3>1. \/ delivered[q] > 0
            \/ \E e \in lost : e[1] = q
            \/ \E j \in Slots : assemblers[j].total > 0 /\ assemblers[j].obj = q
        BY <2>2 DEF NoSilentDrop, Resident
      <3>2. CASE delivered[q] > 0
        BY <1>2, <2>2, <3>2
      <3>3. CASE \E e \in lost : e[1] = q
        BY <3>3
      <3>4. ASSUME NEW j \in Slots, assemblers[j].total > 0, assemblers[j].obj = q
            PROVE  \/ delivered'[q] > 0
                   \/ \E e \in lost' : e[1] = q
                   \/ \E k \in Slots : /\ assemblers'[k].total > 0
                                       /\ assemblers'[k].obj = q
        <4>1. CASE j # i
          BY <1>1, <3>4, <4>1
        <4>2. CASE j = i /\ ~assemblers[i].decoded
          BY <2>2, <3>4, <4>2
        <4>3. CASE j = i /\ assemblers[i].decoded
          <5>1. delivered[q] > 0
            BY <3>4, <4>3 DEF CountOK
          <5> QED  BY <1>2, <2>2, <5>1
        <4> QED  BY <4>1, <4>2, <4>3
      <3> QED  BY <3>1, <3>2, <3>3, <3>4
    <2> QED  BY <2>1, <2>2
  <1>7. NoStuckFrame'
    <2> SUFFICES ASSUME NEW j \in Slots, assemblers'[j].total > 0,
                        ~assemblers'[j].decoded, assemblers'[j].total <= RSMax
                 PROVE  Cardinality(assemblers'[j].mask) < assemblers'[j].data
      BY DEF NoStuckFrame
    <2>1. CASE j = i
      <3>1. assemblers'[j] = h
        BY <1>1, <2>1
      <3>2. h.decoded = FALSE
        BY <3>1
      <3> QED  BY <3>1, <3>2
    <2>2. CASE j # i
      BY <1>1, <2>2 DEF NoStuckFrame
    <2> QED  BY <2>1, <2>2
  <1> QED  BY <1>3, <1>4, <1>5, <1>6, <1>7

(* What one datagram does to the ring: nothing, when its object is already *)
(* decoded; or its object's frame absorbs it; or a frame is set up for it  *)
(* in the next slot and absorbs it there.                                  *)
Ignored == UNCHANGED <<assemblers, assembler_index, nacks, delivered, corrupted,
                       lost, allocs>>

Continued(o) ==
    \E i \in Slots, h \in Frame :
        /\ assemblers[i].total > 0 /\ assemblers[i].obj = o
        /\ assemblers[i].decoded = FALSE
        /\ Absorbed(i, assemblers[i], h)
        /\ UNCHANGED <<assembler_index, lost, allocs>>

Started(o) ==
    \E f \in Frame, h \in Frame :
        LET old == assemblers[assembler_index]
        IN  /\ f.total > 0 /\ f.obj = o /\ f.nack_sent = FALSE
            /\ \A j \in Slots : assemblers[j].obj # o
            /\ Absorbed(assembler_index, f, h)
            /\ lost' = IF ReportLost(old)
                       THEN lost \cup {<<old.obj, delivered[old.obj]>>}
                       ELSE lost
            /\ assembler_index' = NextSlot(assembler_index)
            /\ allocs' = [allocs EXCEPT ![o] = @ + 1]

LEMMA ReceiveOutcome ==
    ASSUME IInv, NEW o \in Objects, NEW s \in Syms, DeliverDatagram(o, s)
    PROVE  /\ hdr[o].total > 0
           /\ Ignored \/ Continued(o) \/ Started(o)
  <1> USE DEF IInv
  <1> DEFINE p == Packet(o, s, hdr[o])
  <1>1. net[o][s] > 0 /\ OnReceiveDatagram(p)
    BY DEF DeliverDatagram
  <1>2. s < hdr[o].total /\ hdr[o].total > 0 /\ hdr[o].total \in 1 .. MaxSymbols
        /\ hdr[o].data \in 1 .. MaxSymbols /\ hdr[o].data <= hdr[o].total
    <2>1. s < hdr[o].total
      BY <1>1 DEF NetOK
    <2>2. hdr[o].total > 0
      <3>1. s \in Nat
        BY DatagramAssumption DEF Syms
      <3>2. hdr[o].total \in Nat
        BY DatagramAssumption DEF TypeOK, Header, NoHeader
      <3> QED  BY <2>1, <3>1, <3>2
    <2> QED  BY <2>1, <2>2, HeaderFacts
  <1>3. p.obj = o /\ p.data = hdr[o].data /\ p.total = hdr[o].total
    BY DEF Packet
  <1>4. CASE ReceiveResident(p)
    <2>1. PICK i \in Slots :
             /\ assemblers[i].total > 0 /\ assemblers[i].obj = o
             /\ \/ /\ assemblers[i].decoded
                   /\ UNCHANGED <<assemblers, nacks, delivered, corrupted>>
                \/ ~assemblers[i].decoded /\ AbsorbSymbol(i, assemblers[i], p)
             /\ UNCHANGED <<assembler_index, lost, allocs>>
      BY <1>3, <1>4 DEF ReceiveResident
    <2>2. CASE UNCHANGED <<assemblers, nacks, delivered, corrupted>>
      BY <1>2, <2>1, <2>2 DEF Ignored
    <2>3. CASE ~assemblers[i].decoded /\ AbsorbSymbol(i, assemblers[i], p)
      <3>1. assemblers[i] \in Frame /\ FrameOK(assemblers[i])
        BY DEF TypeOK
      <3>2. assemblers[i].decoded = FALSE
        BY <2>3, <3>1 DEF Frame
      <3>3. \E h \in Frame : Absorbed(i, assemblers[i], h)
        BY <1>2, <2>1, <2>3, <3>1, <3>2, AbsorbOutcome
      <3> QED  BY <1>2, <2>1, <3>2, <3>3 DEF Continued
    <2> QED  BY <2>1, <2>2, <2>3
  <1>5. CASE ReceiveFresh(p)
    <2> DEFINE i == assembler_index
               old == assemblers[i]
               f == ResetFrame(old, p)
    <2>1. /\ ~Resident(o)
          /\ lost' = IF ReportLost(old)
                     THEN lost \cup {<<old.obj, delivered[old.obj]>>}
                     ELSE lost
          /\ assembler_index' = NextSlot(assembler_index)
          /\ allocs' = [allocs EXCEPT ![o] = @ + 1]
          /\ AbsorbSymbol(i, f, p)
      BY <1>3, <1>5 DEF ReceiveFresh
    <2>2. i \in Slots /\ old \in Frame
      BY DEF TypeOK
    <2>3. /\ f \in Frame /\ f.total = hdr[o].total /\ f.obj = o
          /\ f.data = hdr[o].data /\ f.mask = {} /\ f.received_count = 0
          /\ f.decoded = FALSE /\ f.nack_sent = FALSE
      <3> HIDE DEF p, old
      <3>1. f = [old EXCEPT !.obj = o, !.data = hdr[o].data,
                            !.total = hdr[o].total, !.mask = {},
                            !.received_count = 0, !.decoded = FALSE,
                            !.nack_sent = FALSE]
        BY <1>3 DEF ResetFrame
      <3>2. hdr[o].data \in 0 .. MaxSymbols /\ hdr[o].total \in 0 .. MaxSymbols
        BY <1>2, DatagramAssumption
      <3>3. old \in Frame
        BY <2>2 DEF old
      <3> HIDE DEF f
      <3> QED  BY <3>1, <3>2, <3>3 DEF Frame
    <2>4. FrameOK(f) /\ f.total > 0
      <3> HIDE DEF f
      <3> QED  BY <1>2, <2>3, FS_EmptySet DEF FrameOK
    <2>5. \E h \in Frame : Absorbed(i, f, h)
      <3> HIDE DEF f
      <3> QED  BY <1>2, <2>1, <2>2, <2>3, <2>4, AbsorbOutcome
    <2>6. \A j \in Slots : assemblers[j].obj # o
      <3> SUFFICES ASSUME NEW j \in Slots, assemblers[j].obj = o
                   PROVE  FALSE
        OBVIOUS
      <3>1. assemblers[j] \in Frame /\ FrameOK(assemblers[j])
        BY DEF TypeOK
      <3>2. assemblers[j].total > 0
        BY <3>1, DatagramAssumption DEF FrameOK, Frame
      <3> QED  BY <2>1, <3>2 DEF Resident
    <2> HIDE DEF f
    <2> QED  BY <1>2, <2>1, <2>3, <2>4, <2>5, <2>6 DEF Started
  <1> QED  BY <1>1, <1>4, <1>5 DEF OnReceiveDatagram

(* Receiving a datagram keeps the invariant.                               *)
LEMMA DeliverKeeps ==
    ASSUME IInv, NEW o \in Objects, NEW s \in Syms, DeliverDatagram(o, s)
    PROVE  IInv'
  <1> USE DEF IInv
  <1>1. /\ net[o][s] > 0 /\ net' = [net EXCEPT ![o][s] = @ - 1]
        /\ UNCHANGED <<hdr, sent_cache, sent_cache_index, losses>>
    BY DEF DeliverDatagram
  <1>2. net[o] \in [Syms -> Nat] /\ net[o][s] - 1 \in Nat
    BY <1>1 DEF TypeOK
  <1>3. net' \in [Objects -> [Syms -> Nat]] /\ NetOK'
    BY <1>1, <1>2 DEF NetOK, TypeOK
  <1>4. ASSUME NEW f, NEW h, f.obj = o, Completed(f, h)
        PROVE  /\ delivered' \in [Objects -> Nat]
               /\ \/ /\ h.decoded = TRUE
                     /\ delivered' = [delivered EXCEPT ![o] = @ + 1]
                  \/ /\ h.decoded = FALSE
                     /\ delivered' = delivered
                     /\ h.total <= RSMax => Cardinality(h.mask) < h.data
    <2>1. delivered \in [Objects -> Nat] /\ delivered[o] + 1 \in Nat
      BY DEF TypeOK
    <2>2. \/ /\ h.decoded = TRUE
             /\ delivered' = [delivered EXCEPT ![o] = @ + 1]
          \/ /\ h.decoded = FALSE
             /\ delivered' = delivered
             /\ h.total <= RSMax => Cardinality(h.mask) < h.data
      BY <1>4 DEF Completed
    <2>3. delivered' = [delivered EXCEPT ![o] = @ + 1] \/ delivered' = delivered
      BY <2>2
    <2>4. delivered' \in [Objects -> Nat]
      BY ONLY <2>1, <2>3
    <2> QED  BY <2>2, <2>4
  <1>5. CASE Ignored
    <2>1. TypeOK'
      BY <1>1, <1>3, <1>5 DEF TypeOK, Ignored
    <2> QED  BY <1>1, <1>3, <1>5, <2>1, NetStepKeeps DEF Ignored
  <1>6. CASE Continued(o)
    <2>1. PICK i \in Slots, h \in Frame :
             /\ assemblers[i].total > 0 /\ assemblers[i].obj = o
             /\ assemblers[i].decoded = FALSE
             /\ Absorbed(i, assemblers[i], h)
             /\ UNCHANGED <<assembler_index, lost, allocs>>
      BY <1>6 DEF Continued
    <2>2. /\ FrameOK(h)
          /\ h.total = assemblers[i].total /\ h.obj = o
          /\ assemblers' = [assemblers EXCEPT ![i] = h]
          /\ nacks' \in Seq([obj : Objects, missing : SUBSET Syms])
          /\ corrupted' = corrupted
          /\ Completed(assemblers[i], h)
      BY <2>1 DEF Absorbed
    <2>3. TypeOK'
      <3>1. delivered' \in [Objects -> Nat]
        BY <1>4, <2>1, <2>2
      <3>2. assemblers' \in [Slots -> Frame]
        BY <2>2 DEF TypeOK
      <3>3. corrupted' \subseteq Objects
            /\ nacks' \in Seq([obj : Objects, missing : SUBSET Syms])
        BY <2>2 DEF TypeOK
      <3> QED  BY <1>1, <1>3, <2>1, <3>1, <3>2, <3>3 DEF TypeOK
    <2>4. \A j \in Slots \ {i} : assemblers[j].obj # o
      BY <2>1, DatagramAssumption DEF UniqueFrame
    <2>5. delivered[o] < allocs[o]
      BY <2>1 DEF CountOK
    <2>6. /\ \A j \in Slots : FrameOK(assemblers[j])'
          /\ (UniqueFrame /\ CountOK /\ NoSilentDrop /\ NoStuckFrame)'
      <3>1. allocs' \in [Objects -> Nat] /\ allocs' = allocs /\ lost' = lost
        BY <2>1 DEF TypeOK
      <3>2. \/ /\ h.decoded = TRUE
               /\ delivered' = [delivered EXCEPT ![o] = @ + 1]
            \/ /\ h.decoded = FALSE
               /\ delivered' = delivered
               /\ h.total <= RSMax => Cardinality(h.mask) < h.data
        BY <1>4, <2>1, <2>2
      <3> QED  BY <1>1, <2>1, <2>2, <2>4, <2>5, <3>1, <3>2, SlotStepKeeps
    <2>7. DeliveredIntact'
      BY <2>2 DEF DeliveredIntact
    <2> QED  BY <1>3, <2>3, <2>6, <2>7
  <1>7. CASE Started(o)
    <2> DEFINE i == assembler_index
               old == assemblers[i]
    <2>1. PICK f \in Frame, h \in Frame :
             /\ f.total > 0 /\ f.obj = o
             /\ \A j \in Slots : assemblers[j].obj # o
             /\ Absorbed(i, f, h)
             /\ lost' = IF ReportLost(old)
                        THEN lost \cup {<<old.obj, delivered[old.obj]>>}
                        ELSE lost
             /\ assembler_index' = NextSlot(assembler_index)
             /\ allocs' = [allocs EXCEPT ![o] = @ + 1]
      BY <1>7 DEF Started
    <2>2. i \in Slots /\ old \in Frame /\ FrameOK(old)
      BY DEF TypeOK
    <2>3. /\ FrameOK(h)
          /\ h.total = f.total /\ h.obj = o /\ h.total > 0
          /\ assemblers' = [assemblers EXCEPT ![i] = h]
          /\ nacks' \in Seq([obj : Objects, missing : SUBSET Syms])
          /\ corrupted' = corrupted
          /\ Completed(f, h)
      BY <2>1 DEF Absorbed
    <2>4. /\ delivered' \in [Objects -> Nat]
          /\ \/ /\ h.decoded = TRUE
                /\ delivered' = [delivered EXCEPT ![o] = @ + 1]
             \/ /\ h.decoded = FALSE
                /\ delivered' = delivered
                /\ h.total <= RSMax => Cardinality(h.mask) < h.data
      BY <1>4, <2>1, <2>3
    <2>5. /\ old.total > 0 => old.obj \in Objects /\ delivered[old.obj] \in Nat
          /\ lost \subseteq lost'
          /\ lost' \subseteq Objects \X Nat
          /\ old.total > 0 /\ ~old.decoded => \E e \in lost' : e[1] = old.obj
      <3>1. old.total > 0 => old.obj \in Objects /\ delivered[old.obj] \in Nat
        BY <2>2 DEF FrameOK, TypeOK
      <3> HIDE DEF old
      <3>2. lost \subseteq Objects \X Nat
        BY DEF TypeOK
      <3>3. CASE ReportLost(old)
        <4> DEFINE e == <<old.obj, delivered[old.obj]>>
        <4>1. old.total > 0
          BY <3>3 DEF ReportLost
        <4>2. e \in Objects \X Nat /\ e[1] = old.obj
          BY <3>1, <4>1
        <4>3. lost' = lost \cup {e}
          BY <2>1, <3>3 DEF old
        <4> HIDE DEF e
        <4> QED  BY <3>1, <3>2, <4>2, <4>3
      <3>4. CASE ~ReportLost(old)
        <4>1. lost' = lost
          BY <2>1, <3>4 DEF old
        <4> QED  BY <3>1, <3>2, <3>4, <4>1 DEF ReportLost
      <3> QED  BY <3>1, <3>3, <3>4
    <2>6. allocs' \in [Objects -> Nat] /\ delivered[o] < allocs'[o]
          /\ \A q \in Objects \ {o} : allocs'[q] = allocs[q]
      BY <2>1 DEF TypeOK, CountOK
    <2>7. TypeOK'
      <3>1. assembler_index' \in Slots
        BY <2>1, AssemblerAssumption DEF TypeOK, NextSlot, Slots
      <3>2. assemblers' \in [Slots -> Frame]
        BY <2>2, <2>3 DEF TypeOK
      <3>3. corrupted' \subseteq Objects
            /\ nacks' \in Seq([obj : Objects, missing : SUBSET Syms])
        BY <2>3 DEF TypeOK
      <3> QED  BY <1>1, <1>3, <2>4, <2>5, <2>6, <3>1, <3>2, <3>3 DEF TypeOK
    <2>8. /\ \A j \in Slots : FrameOK(assemblers[j])'
          /\ (UniqueFrame /\ CountOK /\ NoSilentDrop /\ NoStuckFrame)'
      BY <1>1, <2>1, <2>2, <2>3, <2>4, <2>5, <2>6, SlotStepKeeps
    <2>9. DeliveredIntact'
      BY <2>3 DEF DeliveredIntact
    <2> QED  BY <1>3, <2>7, <2>8, <2>9
  <1> QED  BY <1>5, <1>6, <1>7, ReceiveOutcome

(* The invariant is inductive.                                             *)
THEOREM Invariance == Spec => []IInv
  <1>1. Init => IInv
    BY InitIInv
  <1>2. IInv /\ [Next]_vars => IInv'
    <2> SUFFICES ASSUME IInv, [Next]_vars PROVE IInv'
      OBVIOUS
    <2>1. CASE \E o \in Objects : PublishObject(o)
      BY <2>1, PublishKeeps
    <2>2. CASE \E o \in Objects, s \in Syms : DeliverDatagram(o, s)
      BY <2>2, DeliverKeeps
    <2>3. CASE \E o \in Objects, s \in Syms : LoseDatagram(o, s)
      BY <2>3, LoseKeeps
    <2>4. CASE DeliverNack
      BY <2>4, NackKeeps
    <2>5. CASE UNCHANGED vars
      <3>1. UNCHANGED <<assemblers, assembler_index, nacks, delivered, corrupted,
                        lost, allocs, hdr, net, sent_cache, sent_cache_index,
                        losses>>
        BY <2>5 DEF vars, assemblerVars, senderVars
      <3>2. TypeOK' /\ NetOK'
        BY <3>1 DEF IInv, TypeOK, NetOK
      <3> QED  BY <3>1, <3>2, NetStepKeeps
    <2> QED  BY <2>1, <2>2, <2>3, <2>4, <2>5 DEF Next
  <1> QED  BY <1>1, <1>2, PTL DEF Spec

-----------------------------------------------------------------------------
(* Every variable keeps its type.                                          *)
THEOREM TypeCorrect == Spec => []TypeOK
  <1>1. IInv => TypeOK
    BY DEF IInv
  <1> QED  BY <1>1, Invariance, PTL

(* on_receive_datagram_frame never raises an object with another object's  *)
(* bytes in it, for any ring size and any interleaving of packets.         *)
THEOREM DeliveryIntact == Spec => []DeliveredIntact
  <1>1. IInv => DeliveredIntact
    BY DEF IInv
  <1> QED  BY <1>1, Invariance, PTL

(* The assembler lookup never leaves an object with two frames.            *)
THEOREM FramesUnique == Spec => []UniqueFrame
  <1>1. IInv => UniqueFrame
    BY DEF IInv
  <1> QED  BY <1>1, Invariance, PTL

(* TRANSPORT_EVENT_OBJECT is raised at most once per residency in the ring. *)
THEOREM OncePerResidency == Spec => []DeliveredOncePerResidency
  <1>1. IInv => DeliveredOncePerResidency
    BY DEF IInv, CountOK, DeliveredOncePerResidency
  <1> QED  BY <1>1, Invariance, PTL

(* Eviction is never silent: an object seen by the receiver was raised,    *)
(* reported lost, or is still in the ring.                                 *)
THEOREM DropsReported == Spec => []NoSilentDrop
  <1>1. IInv => NoSilentDrop
    BY DEF IInv
  <1> QED  BY <1>1, Invariance, PTL

(* A frame whose block Reed-Solomon handles decodes the moment its         *)
(* data_symbols-th distinct symbol arrives.                                *)
THEOREM FramesDecode == Spec => []NoStuckFrame
  <1>1. IInv => NoStuckFrame
    BY DEF IInv
  <1> QED  BY <1>1, Invariance, PTL
=============================================================================
