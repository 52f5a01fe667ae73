---------------------------- MODULE FecGrouping ----------------------------
(***************************************************************************)
(* How a listening daemon turns the packets of its local helpers into      *)
(* objects: the grouping buffer of transport_publish, flush_fec_buffer, the *)
(* hold timer of transport_tick and the 3 ms loop of main; and how the     *)
(* daemon at the other end takes the objects apart again.  The transport   *)
(* in between may lose and reorder datagram objects.                       *)
(***************************************************************************)
EXTENDS Naturals, Sequences, SequencesExt, FiniteSets, FiniteSetsExt

CONSTANTS Helpers,         \* registered UDS clients
          HelperTrack,     \* the named DATA track of each
          HelperReliable,  \* those registered with MOQ_TRACK_FLAG_RELIABLE
          Conns,           \* peers
          ReliablePeers,   \* those running with --reliable
          OwnTracks,       \* tracks this daemon itself subscribes to (--track)
          ReliableHere,    \* it runs with --reliable
          GroupPackets,    \* 4 in the code
          GroupBytes,      \* 4000
          HoldTime,        \* 3 ms
          LoopTimes,       \* what one round of the loop can take: 3 ms or more
          Sizes,           \* packet sizes
          NoTrack,
          Garbled,         \* bytes that are not one helper's packet
          MaxPackets       \* bound: packets the helpers send

ASSUME GroupingAssumption ==
    /\ HelperReliable \subseteq Helpers /\ ReliablePeers \subseteq Conns
    /\ OwnTracks \subseteq {HelperTrack[h] : h \in Helpers}
    /\ ReliableHere \in BOOLEAN
    /\ GroupPackets \in Nat \ {0} /\ GroupBytes \in Nat \ {0}
    /\ HoldTime \in Nat /\ LoopTimes \subseteq Nat \ 0 .. HoldTime - 1
    /\ Sizes \subseteq Nat \ {0} /\ MaxPackets \in Nat
    /\ Garbled \notin [id : Nat, from : Helpers, size : Sizes]

VARIABLES
    asleep,          \* main is in usleep, after transport_tick
    served,          \* helpers data_uds_tick has read from in this round
    subs,            \* subs[c]: the flags of c's entries in this daemon's table
    fec_buf,         \* packets in the grouping buffer
    fec_track_id,    \* track and flags the group will be published under
    held,            \* now - fec_first_pkt_time
    fec_object_id,
    data_object_id,
    published,       \* objects handed to the wire, in order
    received,        \* received[c]: indices into published raised at c
    forwarded        \* forwarded[c]: what the daemon c hands to its helpers

vars == <<asleep, served, subs, fec_buf, fec_track_id, held, fec_object_id,
          data_object_id, published, received, forwarded>>

Tracks == {HelperTrack[h] : h \in Helpers}

Packet == [id : Nat, from : Helpers, size : Sizes]

(* The flags a daemon puts in its SUBSCRIBEs (subscribe_to_tracks).        *)
Flags(reliable) == IF reliable THEN "reliable" ELSE "fec"

TrackOf(p) == [name |-> HelperTrack[p.from],
               reliable |-> p.from \in HelperReliable]

Init ==
    /\ asleep = FALSE
    /\ served = {}
    /\ subs = [c \in Conns |-> [name \in Tracks |-> "none"]]
    /\ fec_buf = <<>>
    /\ fec_track_id = [name |-> NoTrack, reliable |-> FALSE]
    /\ held = 0
    /\ fec_object_id = 0
    /\ data_object_id = 0
    /\ published = <<>>
    /\ received = [c \in Conns |-> {}]
    /\ forwarded = [c \in Conns |-> {}]

-----------------------------------------------------------------------------
(* Two bytes of length before every packet.                                *)
GroupSize(buf) ==
    LET size[k \in 0 .. Len(buf)] ==
            IF k = 0 THEN 0 ELSE size[k - 1] + 2 + buf[k].size
    IN  size[Len(buf)]

(* The rest of transport_publish: the object goes to every subscriber, on  *)
(* a stream if its track id says reliable, else in datagrams.              *)
SendObject(track, id, grouped, packets) ==
    published' = Append(published,
        [track |-> track.name, stream |-> track.reliable, id |-> id,
         grouped |-> grouped, packets |-> packets,
         to |-> {c \in Conns : subs[c][track.name] # "none"}])

(* Mutant: the buffer is published and kept.                               *)
FlushKeep(buf, track) ==
    /\ SendObject(track, fec_object_id, TRUE, buf)
    /\ fec_object_id' = fec_object_id + 1
    /\ fec_buf' = buf
    /\ held' = 0

(* Mutant: the hold time is taken off the clock, which is not reset.       *)
FlushCarry(buf, track) ==
    /\ SendObject(track, fec_object_id, TRUE, buf)
    /\ fec_object_id' = fec_object_id + 1
    /\ fec_buf' = <<>>
    /\ held' = held - HoldTime

(* flush_fec_buffer, with the buffer and track id it finds.                *)
Flush(buf, track) ==
    /\ SendObject(track, fec_object_id, TRUE, buf)
    /\ fec_object_id' = fec_object_id + 1
    /\ fec_buf' = <<>>
    /\ held' = 0

(* Mutant: only the number of packets is looked at.                        *)
GroupFullByCount(buf) == Len(buf) >= GroupPackets

GroupFull(buf) == Len(buf) >= GroupPackets \/ GroupSize(buf) >= GroupBytes

(* Mutant: no entry for the track may ask for anything else.               *)
UseFecAll(name) == /\ \E c \in Conns : subs[c][name] = "fec"
                   /\ \A c \in Conns : subs[c][name] # "reliable"

(* Some open connection's entry for the track asks for FEC.                *)
UseFec(name) == \E c \in Conns : subs[c][name] = "fec"

(* transport_publish of a packet that is to be grouped.                    *)
GroupPacket(p) ==
    LET buf   == Append(fec_buf, p)
        track == IF fec_buf = <<>> THEN TrackOf(p) ELSE fec_track_id
    IN  /\ fec_track_id' = track
        /\ IF GroupFull(buf)
           THEN Flush(buf, track)
           ELSE /\ fec_buf' = buf
                /\ held' = IF fec_buf = <<>> THEN 0 ELSE held
                /\ UNCHANGED <<fec_object_id, published>>

(* transport_publish of any other packet.                                  *)
PublishRaw(p) ==
    /\ SendObject(TrackOf(p), p.id, FALSE, <<p>>)
    /\ UNCHANGED <<fec_buf, fec_track_id, held, fec_object_id>>

(* on_data_packet: data_uds_tick reads one packet of each helper a round.  *)
OnDataPacket(h, size) ==
    LET p == [id |-> data_object_id, from |-> h, size |-> size]
    IN  /\ ~asleep
        /\ h \notin served
        /\ data_object_id < MaxPackets
        /\ served' = served \cup {h}
        /\ data_object_id' = data_object_id + 1
        /\ IF UseFec(HelperTrack[h]) THEN GroupPacket(p) ELSE PublishRaw(p)
        /\ UNCHANGED <<asleep, subs, received, forwarded>>

(* Mutant: the timer fires one round late.                                 *)
HoldExpiredLate == held > HoldTime

HoldExpired == held >= HoldTime

(* The start of transport_tick.                                            *)
TransportTick ==
    /\ ~asleep
    /\ asleep' = TRUE
    /\ IF fec_buf # <<>> /\ HoldExpired
       THEN Flush(fec_buf, fec_track_id)
       ELSE UNCHANGED <<fec_buf, held, fec_object_id, published>>
    /\ UNCHANGED <<served, subs, fec_track_id, data_object_id, received,
                   forwarded>>

(* usleep, and the next round begins.                                      *)
Sleep(ms) ==
    /\ asleep
    /\ asleep' = FALSE
    /\ served' = {}
    /\ held' = IF fec_buf = <<>> THEN held ELSE held + ms
    /\ UNCHANGED <<subs, fec_buf, fec_track_id, fec_object_id, data_object_id,
                   published, received, forwarded>>

(* The AUTH of c, or of another peer while c's control stream is open:     *)
(* transport_subscribe makes the entries c's table lacks.                  *)
SubscribeToTracks(c) ==
    /\ asleep
    /\ \E name \in OwnTracks : subs[c][name] = "none"
    /\ subs' = [subs EXCEPT ![c] = [name \in Tracks |->
                   IF name \in OwnTracks /\ @[name] = "none"
                   THEN Flags(ReliableHere) ELSE @[name]]]
    /\ UNCHANGED <<asleep, served, fec_buf, fec_track_id, held, fec_object_id,
                   data_object_id, published, received, forwarded>>

(* A SUBSCRIBE of c, which it sends once it is authenticated, makes the    *)
(* entry or overwrites the flags of the one there is.                      *)
PeerSubscribes(c, name) ==
    /\ asleep
    /\ \A own \in OwnTracks : subs[c][own] # "none"
    /\ subs' = [subs EXCEPT ![c][name] = Flags(c \in ReliablePeers)]
    /\ UNCHANGED <<asleep, served, fec_buf, fec_track_id, held, fec_object_id,
                   data_object_id, published, received, forwarded>>

(* The connection is closed.                                               *)
PeerLeaves(c) ==
    /\ asleep
    /\ \E name \in Tracks : subs[c][name] # "none"
    /\ subs' = [subs EXCEPT ![c] = [name \in Tracks |-> "none"]]
    /\ UNCHANGED <<asleep, served, fec_buf, fec_track_id, held, fec_object_id,
                   data_object_id, published, received, forwarded>>

-----------------------------------------------------------------------------
(* The assembler of c has decoded an object with this key before and drops *)
(* the symbols of this one (FrameAssembler).                               *)
KeySeen(c, obj) ==
    \E k \in received[c] : /\ ~published[k].stream
                           /\ published[k].track = obj.track
                           /\ published[k].id = obj.id

(* The flags of c's own entry for a track, by which it takes a stream's    *)
(* objects: this daemon's where it subscribes to the track, for its        *)
(* SUBSCRIBE precedes the answer to c's AUTH and transport_subscribe leaves *)
(* an existing entry alone; else those c subscribes with.                  *)
EntryFlags(c, name) ==
    Flags(IF name \in OwnTracks THEN ReliableHere ELSE c \in ReliablePeers)

(* Mutant: only datagram objects are taken apart.                          *)
UnpacksDatagrams(c, obj) == ~obj.stream

(* Datagram objects are raised with the FEC flag set, stream objects with  *)
(* the flags of the table's entry.                                         *)
Unpacks(c, obj) == ~obj.stream \/ EntryFlags(c, obj.track) = "fec"

(* What on_transport_event hands on: the packets of a group, the object as *)
(* it is, or whatever its first bytes make of a packet taken for a group.  *)
Extracted(c, obj) ==
    IF Unpacks(c, obj) /\ obj.grouped THEN {obj.packets}
    ELSE IF Unpacks(c, obj) THEN {<<>>, <<Garbled>>}
    ELSE IF obj.grouped THEN {<<Garbled>>}
    ELSE {obj.packets}

(* TRANSPORT_EVENT_OBJECT at c.                                            *)
OnObject(c, k) ==
    LET obj == published[k]
    IN  /\ c \in obj.to
        /\ k \notin received[c]
        /\ obj.stream \/ ~KeySeen(c, obj)
        /\ received' = [received EXCEPT ![c] = @ \cup {k}]
        /\ \E out \in Extracted(c, obj) :
              forwarded' = [forwarded EXCEPT ![c] =
                  @ \cup {[track |-> obj.track, packet |-> out[j]] : j \in DOMAIN out}]
        /\ UNCHANGED <<asleep, served, subs, fec_buf, fec_track_id, held,
                       fec_object_id, data_object_id, published>>

Next ==
    \/ \E h \in Helpers, size \in Sizes : OnDataPacket(h, size)
    \/ TransportTick
    \/ \E ms \in LoopTimes : Sleep(ms)
    \/ \E c \in Conns : SubscribeToTracks(c)
    \/ \E c \in Conns, name \in Tracks : PeerSubscribes(c, name)
    \/ \E c \in Conns : PeerLeaves(c)
    \/ \E c \in Conns, k \in DOMAIN published : OnObject(c, k)

Spec == Init /\ [][Next]_vars

-----------------------------------------------------------------------------
Object == [track : Tracks, stream : BOOLEAN, id : Nat, grouped : BOOLEAN,
           packets : Seq(Packet), to : SUBSET Conns]

(* Type correctness of the buffer, the objects and what is forwarded.      *)
TypeOK ==
    /\ asleep \in BOOLEAN
    /\ served \subseteq Helpers
    /\ subs \in [Conns -> [Tracks -> {"none", "fec", "reliable"}]]
    /\ fec_buf \in Seq(Packet)
    /\ fec_track_id \in [name : Tracks \cup {NoTrack}, reliable : BOOLEAN]
    /\ held \in Nat
    /\ fec_object_id \in Nat
    /\ data_object_id \in Nat
    /\ published \in Seq(Object)
    /\ received \in [Conns -> SUBSET Nat]
    /\ forwarded \in [Conns -> SUBSET [track : Tracks, packet : Packet \cup {Garbled}]]

(* Where the packets are: in the objects, in order, and last in the buffer. *)
Batches == [k \in 1 .. Len(published) + 1 |->
               IF k <= Len(published) THEN published[k].packets ELSE fec_buf]

Grouped == [k \in 1 .. Len(published) + 1 |->
               IF k <= Len(published) THEN published[k].grouped ELSE TRUE]

(* Every packet the helpers sent is in exactly one object or in the buffer, *)
(* and the groups keep the order of arrival: filling up, timing out and    *)
(* subscribers that come and go neither drop nor repeat one.               *)
Conservation ==
    LET B == Batches
        G == Grouped
    IN  /\ \A n \in 0 .. data_object_id - 1 :
              \E k \in DOMAIN B : \E i \in DOMAIN B[k] : B[k][i].id = n
        /\ \A k, l \in DOMAIN B : \A i \in DOMAIN B[k], j \in DOMAIN B[l] :
              /\ B[k][i].id < data_object_id
              /\ B[k][i].id = B[l][j].id => k = l /\ i = j
              /\ G[k] /\ G[l] /\ (k < l \/ (k = l /\ i < j))
                    => B[k][i].id < B[l][j].id

(* No packet is held back longer than one round of the loop: when main     *)
(* goes to sleep the buffer is younger than HoldTime.                      *)
HeldOneRound == asleep /\ fec_buf # <<>> => held < HoldTime

(* A group never outgrows its limits by more than the packet that filled   *)
(* it up.                                                                  *)
GroupWithinLimits ==
    LET open(buf) == Len(buf) < GroupPackets /\ GroupSize(buf) < GroupBytes
    IN  /\ open(fec_buf)
        /\ \A k \in DOMAIN published :
              published[k].grouped => open(Front(published[k].packets))

(* "publish an object to all subscribers of a track" (transport.h): a      *)
(* packet only ever comes out at a peer under the track of its helper.     *)
ForwardedOnOwnTrack ==
    \A c \in Conns : \A f \in forwarded[c] :
        f.packet # Garbled => HelperTrack[f.packet.from] = f.track

(* A peer whose SUBSCRIBEs, and this daemon's to it, all ask for FEC on    *)
(* the track.  Other peers may be anything.                                *)
FecPeer(c, name) == c \notin ReliablePeers /\ (name \in OwnTracks => ~ReliableHere)

(* "Extract datagram packets from aggregated symbol", "Forward raw packet  *)
(* for reliable tracks" (main.c): a FEC peer takes apart exactly what the  *)
(* sender grouped, on streams and in datagrams, whatever the other peers   *)
(* make the sender do with the track.                                      *)
ForwardedWhole ==
    \A c \in Conns : \A f \in forwarded[c] :
        FecPeer(c, f.track) => f.packet # Garbled

(* object_id is a "frame/packet sequence number" (transport.h), taken from *)
(* one counter for groups and from another for single packets: a FEC peer  *)
(* is never sent two datagram objects of a track with the same one, of     *)
(* which it would drop the second as already decoded, while other peers    *)
(* switch the sender from one counter to the other.                        *)
ObjectIdsFresh ==
    \A i, j \in DOMAIN published : \A c \in published[i].to \cap published[j].to :
        /\ FecPeer(c, published[i].track)
        /\ published[i].track = published[j].track
        /\ ~published[i].stream /\ ~published[j].stream
        /\ published[i].id = published[j].id
        => i = j
=============================================================================
