------------------------------ MODULE FecCodec ------------------------------
(***************************************************************************)
(* Erasure coding as the transport uses it: which of the two codecs of     *)
(* fec.c a block of symbols gets, and what fec_decode can answer.  The     *)
(* codecs themselves (nanors, nanorq) are external; a symbol's bytes are   *)
(* abstracted to the object they belong to.                                *)
(***************************************************************************)
EXTENDS Naturals, FiniteSets

CONSTANT RSMax       \* largest block Reed-Solomon accepts (255 in the code)

ASSUME RSMaxAssumption == RSMax \in Nat

Codecs == {"rs", "raptorq"}

(* The publisher starts from RaptorQ on DATA tracks and falls back to      *)
(* Reed-Solomon when the block is small enough.                            *)
PublishCodec(isData, total) ==
    LET fec_type == IF isData THEN "raptorq" ELSE "rs"
    IN  IF fec_type = "raptorq" /\ total <= RSMax THEN "rs" ELSE fec_type

(* Mutant: the retransmitter does not look at the size.                    *)
RetransmitCodecSmall(total) == "rs"

(* The NACK handler re-encodes a cached block, choosing by size alone: only *)
(* DATA objects are cached.                                                *)
RetransmitCodec(total) == IF total > RSMax THEN "raptorq" ELSE "rs"

(* The receiver chooses again, from the track and the header.              *)
AssembleCodec(isData, total) ==
    IF isData /\ total > RSMax THEN "raptorq" ELSE "rs"

(* fec_create_ex: reed_solomon_new refuses an oversized block.             *)
FecCreated(codec, total) == codec = "rs" => total <= RSMax

(* The answers fec_decode may give when the symbols in mask have arrived   *)
(* out of a block with `data` source symbols.  Reed-Solomon is MDS; RaptorQ *)
(* needs a repair symbol per dropped one and may still fail to solve.      *)
FecDecode(codec, data, mask) ==
    LET drops   == (0 .. data - 1) \ mask
        repairs == {s \in mask : s >= data}
    IN  {ok \in BOOLEAN :
            /\ codec = "rs" => (ok <=> Cardinality(mask) >= data)
            /\ codec # "rs" => /\ ok => Cardinality(drops) <= Cardinality(repairs)
                               /\ drops = {} => ok}
=============================================================================
