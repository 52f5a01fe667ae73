--------------------------- MODULE DatagramSender ---------------------------
(***************************************************************************)
(* The sending side of FEC datagrams on one connection: the unreliable     *)
(* branch of transport_publish, the cache of sent DATA objects and the     *)
(* NACK branch of parse_control_messages.                                  *)
(***************************************************************************)
EXTENDS FecDatagram

CONSTANTS Profiles,       \* delivery profiles of the tracks published to
          MaxData,        \* bound: data symbols of an object
          MaxParity,      \* bound: parity symbols the path optimizer asks for
          SENT_CACHE_SIZE

ASSUME SenderAssumption ==
    /\ Profiles \subseteq [fec_enabled : BOOLEAN, isData : BOOLEAN]
    /\ MaxData \in Nat \ {0}
    /\ MaxParity \in Nat \ {0}
    /\ MaxData + MaxParity <= MaxSymbols
    /\ SENT_CACHE_SIZE \in Nat \ {0}

VARIABLES
    hdr,               \* block geometry of each published object
    net,               \* net[o][s]: copies of symbol s of o in flight
    sent_cache,        \* ring of the DATA objects kept for retransmission
    sent_cache_index

senderVars == <<hdr, net, sent_cache, sent_cache_index>>

CacheSlots == 0 .. SENT_CACHE_SIZE - 1

SenderInit ==
    /\ hdr = [o \in Objects |-> NoHeader]
    /\ net = [o \in Objects |-> [s \in Syms |-> 0]]
    /\ sent_cache = [i \in CacheSlots |-> None]
    /\ sent_cache_index = 0

(* Without FEC, or for a single symbol, there is no parity; otherwise      *)
(* pathflow_optimize decides, but never less than one symbol.              *)
ParityChoices(fec_enabled, data) ==
    IF fec_enabled /\ data > 1 THEN 1 .. MaxParity ELSE {0}

(* The whole block goes out; a DATA object takes the oldest cache slot.    *)
Publish(o) ==
    \E data \in 1 .. MaxData, track \in Profiles :
    \E parity \in ParityChoices(track.fec_enabled, data) :
        /\ hdr[o] = NoHeader
        /\ hdr' = [hdr EXCEPT ![o] = [data |-> data, total |-> data + parity,
                                      isData |-> track.isData]]
        /\ net' = [net EXCEPT ![o] =
                      [s \in Syms |-> IF s < data + parity THEN 1 ELSE 0]]
        /\ sent_cache' = IF track.isData
                         THEN [sent_cache EXCEPT ![sent_cache_index] = o]
                         ELSE sent_cache
        /\ sent_cache_index' = IF track.isData
                               THEN (sent_cache_index + 1) % SENT_CACHE_SIZE
                               ELSE sent_cache_index

Cached(o) == \E i \in CacheSlots : sent_cache[i] = o

(* A NACK for a cached object puts the symbols it lists back in flight; one *)
(* for an object that left the cache is ignored.                           *)
HandleNack(n) ==
    /\ net' = IF Cached(n.obj)
              THEN [net EXCEPT ![n.obj] =
                      [s \in Syms |->
                          IF s \in n.missing /\ s < hdr[n.obj].total
                          THEN net[n.obj][s] + 1 ELSE net[n.obj][s]]]
              ELSE net
    /\ UNCHANGED <<hdr, sent_cache, sent_cache_index>>
=============================================================================
