------------------------------ MODULE FecLink ------------------------------
(***************************************************************************)
(* One publisher and one subscriber joined by QUIC: datagrams may be lost  *)
(* and arrive in any order, NACKs travel on the reliable control stream.   *)
(***************************************************************************)
EXTENDS FrameAssembler, DatagramSender

CONSTANTS MaxLosses,       \* bound: datagrams the network may lose
          MaxResidencies   \* bound: times a slot is set up for one object

ASSUME LinkAssumption == MaxLosses \in Nat /\ MaxResidencies \in Nat

VARIABLE losses

vars == <<assemblerVars, senderVars, losses>>

Init == AssemblerInit /\ SenderInit /\ losses = 0

PublishObject(o) ==
    /\ Publish(o)
    /\ UNCHANGED <<assemblerVars, losses>>

DeliverDatagram(o, s) ==
    /\ net[o][s] > 0
    /\ Resident(o) \/ allocs[o] < MaxResidencies
    /\ net' = [net EXCEPT ![o][s] = @ - 1]
    /\ OnReceiveDatagram(Packet(o, s, hdr[o]))
    /\ UNCHANGED <<hdr, sent_cache, sent_cache_index, losses>>

(* The network loses a datagram, or the receiver turns it away unread.     *)
LoseDatagram(o, s) ==
    /\ net[o][s] > 0
    /\ losses < MaxLosses
    /\ losses' = losses + 1
    /\ net' = [net EXCEPT ![o][s] = @ - 1]
    /\ UNCHANGED <<assemblerVars, hdr, sent_cache, sent_cache_index>>

DeliverNack ==
    /\ nacks # <<>>
    /\ HandleNack(Head(nacks))
    /\ nacks' = Tail(nacks)
    /\ UNCHANGED <<assemblers, assembler_index, delivered, corrupted, lost,
                   allocs, losses>>

Next ==
    \/ \E o \in Objects : PublishObject(o)
    \/ \E o \in Objects, s \in Syms : DeliverDatagram(o, s) \/ LoseDatagram(o, s)
    \/ DeliverNack

Spec == Init /\ [][Next]_vars

(* transport_tick runs forever: what the network does not lose arrives.    *)
FairSpec ==
    /\ Spec
    /\ \A o \in Objects, s \in Syms : WF_vars(DeliverDatagram(o, s))
    /\ WF_vars(DeliverNack)

-----------------------------------------------------------------------------
(* Type correctness of the assembler ring, the events and the sender.      *)
TypeOK ==
    /\ assemblers \in [Slots -> Frame]
    /\ assembler_index \in Slots
    /\ nacks \in Seq([obj : Objects, missing : SUBSET Syms])
    /\ delivered \in [Objects -> Nat]
    /\ corrupted \subseteq Objects
    /\ lost \subseteq Objects \X Nat
    /\ allocs \in [Objects -> Nat]
    /\ hdr \in [Objects -> Header \cup {NoHeader}]
    /\ net \in [Objects -> [Syms -> Nat]]
    /\ sent_cache \in [CacheSlots -> Objects \cup {None}]
    /\ sent_cache_index \in CacheSlots
    /\ losses \in Nat

(* An object is never handed to the application with another object's      *)
(* bytes in it, although assembler buffers are reused without clearing and *)
(* sender and receiver choose the codec independently.                     *)
DeliveredIntact == corrupted = {}

(* No object is ever spread over two assemblers: the lookup finds the frame *)
(* of every object that has one.                                           *)
UniqueFrame ==
    \A i, j \in Slots :
        assemblers[i].obj = assemblers[j].obj /\ assemblers[i].obj # None
            => i = j

(* An object is raised at most once per residency in the ring: symbols that *)
(* arrive after decoding, retransmitted ones included, raise nothing.      *)
DeliveredOncePerResidency == \A o \in Objects : delivered[o] <= allocs[o]

(* No object any of whose symbols arrived vanishes: it was raised, reported *)
(* lost, or still sits in the ring.                                        *)
NoSilentDrop ==
    \A o \in Objects :
        allocs[o] > 0 => \/ delivered[o] > 0
                         \/ \E e \in lost : e[1] = o
                         \/ Resident(o)

(* A frame never waits for nothing: one that is not decoded has fewer than *)
(* data_symbols symbols, unless the codec is RaptorQ (which may need more)  *)
(* or the block is too large for Reed-Solomon.                             *)
NoStuckFrame ==
    \A i \in Slots :
        LET f == assemblers[i]
        IN  f.total > 0 /\ ~f.decoded /\ f.total <= RSMax
                => Cardinality(f.mask) < f.data

(* NACKs do not amplify traffic: an assembler asks once, so every residency *)
(* of an object in the ring puts at most one more copy of a symbol on the  *)
(* network, however its packets and NACKs are interleaved.                 *)
RetransmissionBounded ==
    \A o \in Objects, s \in Syms : net[o][s] <= 1 + allocs[o]

(* What transport.h says of TRANSPORT_EVENT_OBJECT_LOST: "packet group      *)
(* failed FEC recovery and was evicted".  The object was not delivered.    *)
LostOnlyIfNotRecovered == \A e \in lost : e[2] = 0

(* The refinement mapping: an object is pending while an assembler that    *)
(* has not decoded it holds symbols of it, remembered while one that has   *)
(* decoded it is still in the ring.                                        *)
Assembled(decoded) ==
    {o \in Objects : \E i \in Slots : /\ assemblers[i].total > 0
                                     /\ assemblers[i].obj = o
                                     /\ assemblers[i].decoded = decoded}

Service == INSTANCE ObjectService
             WITH pending <- Assembled(FALSE), remembered <- Assembled(TRUE),
                  raised <- delivered, reported <- lost

(* on_receive_datagram_frame implements ObjectService step by step: every  *)
(* object of which a symbol arrives is raised once or reported lost before *)
(* it can be taken up again, and no packet makes two objects go.           *)
ImplementsService == Service!Spec

(* As long as the rings do not wrap, a DATA object of two or more symbols  *)
(* is raised in the end although the network loses a datagram: parity or   *)
(* the NACK restores it.                                                   *)
EventuallyDelivered ==
    \A o \in Objects :
        (hdr[o].isData /\ hdr[o].data >= 2) ~> delivered[o] > 0
=============================================================================
