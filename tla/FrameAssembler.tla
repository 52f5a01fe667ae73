--------------------------- MODULE FrameAssembler ---------------------------
(***************************************************************************)
(* The receiving side of FEC datagrams: on_receive_datagram_frame and the  *)
(* ring of frame assemblers of one connection.  A frame collects symbols,  *)
(* asks once for the missing ones (DATA tracks), decodes as soon as enough *)
(* have arrived, and is evicted round-robin by newer objects.              *)
(***************************************************************************)
EXTENDS FecDatagram, Sequences

CONSTANT ASSEMBLER_CACHE_SIZE

ASSUME AssemblerAssumption == ASSEMBLER_CACHE_SIZE \in Nat \ {0}

VARIABLES
    assemblers,       \* the ring: slot -> frame_assembler_t
    assembler_index,  \* next slot to reuse
    nacks,            \* NACKs written to the control stream, oldest first
    delivered,        \* TRANSPORT_EVENT_OBJECT events raised per object
    corrupted,        \* objects delivered with bytes of another object
    lost,             \* TRANSPORT_EVENT_OBJECT_LOST events: <<object,
                      \* deliveries of it so far>>
    allocs            \* history: how often a slot was set up for an object

assemblerVars == <<assemblers, assembler_index, nacks, delivered, corrupted,
                   lost, allocs>>

Slots == 0 .. ASSEMBLER_CACHE_SIZE - 1

(* received_mask is the set mask; buf says whose bytes buffers[s] holds    *)
(* (they survive the reuse of a slot); total = 0 marks an unused slot.     *)
Frame == [obj : Objects \cup {None}, data : 0 .. MaxSymbols,
          total : 0 .. MaxSymbols, mask : SUBSET Syms,
          buf : [Syms -> Objects \cup {None}], received_count : Nat,
          decoded : BOOLEAN, nack_sent : BOOLEAN]

UnusedFrame == [obj |-> None, data |-> 0, total |-> 0, mask |-> {},
                buf |-> [s \in Syms |-> None], received_count |-> 0,
                decoded |-> FALSE, nack_sent |-> FALSE]

AssemblerInit ==
    /\ assemblers = [i \in Slots |-> UnusedFrame]
    /\ assembler_index = 0
    /\ nacks = <<>>
    /\ delivered = [o \in Objects |-> 0]
    /\ corrupted = {}
    /\ lost = {}
    /\ allocs = [o \in Objects |-> 0]

-----------------------------------------------------------------------------
(* Mutant: received_mask is not cleared.                                   *)
ResetFrameKeepMask(f, p) ==
    [f EXCEPT !.obj = p.obj, !.data = p.data, !.total = p.total,
              !.received_count = 0, !.decoded = FALSE, !.nack_sent = FALSE]

(* A slot taken over for the packet's object: everything but the symbol    *)
(* buffers is reset.                                                       *)
ResetFrame(f, p) ==
    [f EXCEPT !.obj = p.obj, !.data = p.data, !.total = p.total, !.mask = {},
              !.received_count = 0, !.decoded = FALSE, !.nack_sent = FALSE]

StoreSymbol(f, p) ==
    IF p.sym \in f.mask
    THEN f
    ELSE [f EXCEPT !.buf[p.sym] = p.obj,
                   !.mask = @ \cup {p.sym},
                   !.received_count = @ + 1]

Missing(f) == {s \in Syms : s < f.total} \ f.mask

(* Mutant: nack_sent is not consulted.                                     *)
NackDueAgain(f, p) ==
    /\ p.isData
    /\ f.received_count >= (f.data + 1) \div 2
    /\ Missing(f) # {}

(* Mutant: all data symbols are waited for.                                *)
NackDueLate(f, p) ==
    /\ p.isData
    /\ ~f.nack_sent
    /\ f.received_count >= f.data
    /\ Missing(f) # {}

(* Half of the data symbols are here and none was asked for yet.           *)
NackDue(f, p) ==
    /\ p.isData
    /\ ~f.nack_sent
    /\ f.received_count >= (f.data + 1) \div 2
    /\ Missing(f) # {}

GotAllData(f, p) == \A s \in Syms : s < p.data => s \in f.mask

(* Mutant: decoding starts one symbol late.                                *)
DecodeOutcomesLate(f, p) ==
    LET codec == AssembleCodec(p.isData, p.total)
    IN  IF f.received_count <= p.data THEN {FALSE}
        ELSE IF GotAllData(f, p) THEN {TRUE}
        ELSE IF p.total > p.data /\ FecCreated(codec, p.total)
             THEN FecDecode(codec, p.data, f.mask)
             ELSE {FALSE}

(* Whether this packet completes the frame.                                *)
DecodeOutcomes(f, p) ==
    LET codec == AssembleCodec(p.isData, p.total)
    IN  IF f.received_count < p.data THEN {FALSE}
        ELSE IF GotAllData(f, p) THEN {TRUE}
        ELSE IF p.total > p.data /\ FecCreated(codec, p.total)
             THEN FecDecode(codec, p.data, f.mask)
             ELSE {FALSE}

(* The delivered bytes are the object's: the data symbols when all are     *)
(* here, otherwise every symbol the decoder reads, encoded by its codec    *)
(* whether it was published or (DATA objects only) retransmitted.          *)
Intact(f, p) ==
    IF GotAllData(f, p)
    THEN \A s \in Syms : s < p.data => f.buf[s] = p.obj
    ELSE /\ \A s \in f.mask : f.buf[s] = p.obj
         /\ PublishCodec(p.isData, p.total) = AssembleCodec(p.isData, p.total)
         /\ p.isData => RetransmitCodec(p.total) = AssembleCodec(p.isData, p.total)

(* The missing symbols are asked for when that is due.  The control stream *)
(* is open by then: a client opens it before the handshake, a server drops *)
(* every datagram until AUTH came in on it, and when its sending side is   *)
(* closed so is the connection.                                            *)
MarkNacked(f, p) == IF NackDue(f, p) THEN [f EXCEPT !.nack_sent = TRUE] ELSE f

(* The packet's frame is f, in slot i: store the symbol, send the NACK that *)
(* is due, and try to decode.                                              *)
AbsorbSymbol(i, f, p) ==
    LET g == StoreSymbol(f, p)
        h == MarkNacked(g, p)
    IN  /\ nacks' = IF NackDue(g, p)
                    THEN Append(nacks, [obj |-> p.obj, missing |-> Missing(g)])
                    ELSE nacks
        /\ \/ /\ FALSE \in DecodeOutcomes(h, p)
              /\ assemblers' = [assemblers EXCEPT ![i] = h]
              /\ UNCHANGED <<delivered, corrupted>>
           \/ /\ TRUE \in DecodeOutcomes(h, p)
              /\ assemblers' = [assemblers EXCEPT ![i] =
                                   [h EXCEPT !.decoded = TRUE]]
              /\ delivered' = [delivered EXCEPT ![p.obj] = @ + 1]
              /\ corrupted' = IF Intact(h, p) THEN corrupted
                              ELSE corrupted \cup {p.obj}

(* Mutant: the lookup stops one slot short.                                *)
ResidentShort(o) ==
    \E i \in Slots \ {ASSEMBLER_CACHE_SIZE - 1} :
        assemblers[i].total > 0 /\ assemblers[i].obj = o

Resident(o) == \E i \in Slots : assemblers[i].total > 0 /\ assemblers[i].obj = o

(* Mutant: a decoded frame is not skipped.                                 *)
ReceiveResidentAgain(p) ==
    \E i \in Slots :
        /\ assemblers[i].total > 0
        /\ assemblers[i].obj = p.obj
        /\ AbsorbSymbol(i, assemblers[i], p)
        /\ UNCHANGED <<assembler_index, lost, allocs>>

(* The packet's object already has a frame; once that is decoded, late     *)
(* symbols are dropped.                                                    *)
ReceiveResident(p) ==
    \E i \in Slots :
        /\ assemblers[i].total > 0
        /\ assemblers[i].obj = p.obj
        /\ \/ /\ assemblers[i].decoded
              /\ UNCHANGED <<assemblers, nacks, delivered, corrupted>>
           \/ /\ ~assemblers[i].decoded
              /\ AbsorbSymbol(i, assemblers[i], p)
        /\ UNCHANGED <<assembler_index, lost, allocs>>

(* Mutant: only a frame that decoding was tried on is reported.            *)
ReportLostIfTried(f) == f.total > 0 /\ ~f.decoded /\ f.received_count >= f.data

ReportLost(f) == f.total > 0 /\ ~f.decoded

(* Mutant: the ring index is not reduced.                                  *)
NextSlotNoWrap(i) == i + 1

NextSlot(i) == (i + 1) % ASSEMBLER_CACHE_SIZE

(* It has none: the next slot of the ring is taken over, and the frame it  *)
(* held is reported lost unless it was decoded.                            *)
ReceiveFresh(p) ==
    LET old == assemblers[assembler_index]
    IN  /\ ~Resident(p.obj)
        /\ lost' = IF ReportLost(old)
                   THEN lost \cup {<<old.obj, delivered[old.obj]>>}
                   ELSE lost
        /\ assembler_index' = NextSlot(assembler_index)
        /\ allocs' = [allocs EXCEPT ![p.obj] = @ + 1]
        /\ AbsorbSymbol(assembler_index, ResetFrame(old, p), p)

(* A packet of an object past the checks at the top of the handler.  One   *)
(* they turn away (a server before AUTH, an alias that does not resolve, a *)
(* bad size) changes nothing, as if it had been lost on the way.           *)
OnReceiveDatagram(p) == ReceiveResident(p) \/ ReceiveFresh(p)
=============================================================================
