---------------------------- MODULE FecDatagram ----------------------------
(***************************************************************************)
(* The FEC datagram (fec_packet_header_t): one symbol of one object.  An   *)
(* object stands for its key <<alias, group_id, object_id>>; every packet  *)
(* of an object carries the same block geometry.                           *)
(***************************************************************************)
EXTENDS FecCodec

CONSTANTS Objects,      \* the objects the publisher may send
          None,         \* no object
          MaxSymbols    \* bound on total_symbols (256: see the README)

ASSUME DatagramAssumption == MaxSymbols \in Nat \ {0} /\ None \notin Objects

Syms == 0 .. MaxSymbols - 1

(* Block geometry: data_symbols, total_symbols, and whether the alias      *)
(* resolves to a track of type MOQ_TRACK_DATA.                             *)
Header == {h \in [data : 1 .. MaxSymbols, total : 1 .. MaxSymbols,
                  isData : BOOLEAN] : h.data <= h.total}

NoHeader == [data |-> 0, total |-> 0, isData |-> FALSE]

Packet(o, s, h) == [obj |-> o, sym |-> s, data |-> h.data,
                    total |-> h.total, isData |-> h.isData]
=============================================================================
