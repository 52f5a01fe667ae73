---------------------------- MODULE TrackStreams ----------------------------
(***************************************************************************)
(* One reliable track between two authenticated ends whose tables both hold *)
(* it.  transport_publish writes its objects on a unidirectional stream of  *)
(* its own; the subscription entry remembers one stream, and an incoming    *)
(* stream of the track takes that place.  Streams are never finished.       *)
(***************************************************************************)
EXTENDS Naturals, Sequences, FiniteSets

CONSTANTS MaxStreamsUni,  \* transport_params.max_streams_uni: 100 in the code
          EgressLimit,    \* buffers waiting on a track that is ready: 256
          MaxObjects      \* bound: objects an end publishes

ASSUME TrackStreamsAssumption ==
    MaxStreamsUni \in Nat /\ EgressLimit \in Nat \ {0} /\ MaxObjects \in Nat

Ends == {"server", "client"}

Peer(e) == IF e = "server" THEN "client" ELSE "server"

VARIABLES
    entry,      \* subscriptions[i].stream of the track: NULL, the stream this
                \* end opened last, or one of the peer's
    streams,    \* the streams each end opened: the objects written and how
                \* many items (the alias byte, then objects) the peer parsed
    published,  \* objects published so far; the k-th is k
    raised      \* objects raised at each end, in order

vars == <<entry, streams, published, raised>>

Init ==
    /\ entry = [e \in Ends |-> "null"]
    /\ streams = [e \in Ends |-> <<>>]
    /\ published = [e \in Ends |-> 0]
    /\ raised = [e \in Ends |-> <<>>]

(* egress.vecs of a stream: two per object and one for the alias byte.     *)
Egress(s) == IF s.parsed = 0 THEN 1 + 2 * Len(s.objects)
             ELSE 2 * (Len(s.objects) + 1 - s.parsed)

Latest(e) == streams[e][Len(streams[e])]

(* Mutant: the backlog is not looked at.                                   *)
TrackReadyAlways(e) == TRUE

(* transport_is_track_ready: nothing waits on a stream of the peer's.      *)
TrackReady(e) == entry[e] = "own" => Egress(Latest(e)) <= EgressLimit

-----------------------------------------------------------------------------
(* Mutant: a stream is opened for every object.                            *)
WriteFresh(e) ==
    streams' = [streams EXCEPT ![e] = Append(@, [objects |-> <<published[e] + 1>>,
                                                 parsed |-> 0])]

(* Mutant: the object that opens the stream is not written.                *)
WriteHeaderOnly(e) ==
    streams' = IF entry[e] = "own"
               THEN [streams EXCEPT ![e][Len(streams[e])].objects =
                                        Append(@, published[e] + 1)]
               ELSE [streams EXCEPT ![e] = Append(@, [objects |-> <<>>, parsed |-> 0])]

(* quicly_open_stream always succeeds: a stream above the peer's limit is  *)
(* queued inside quicly until there is credit.                             *)
Write(e) ==
    streams' = IF entry[e] = "own"
               THEN [streams EXCEPT ![e][Len(streams[e])].objects =
                                        Append(@, published[e] + 1)]
               ELSE [streams EXCEPT ![e] = Append(@, [objects |-> <<published[e] + 1>>,
                                                      parsed |-> 0])]

(* The daemon hands a packet of its helper to transport_publish only when  *)
(* the track is ready.                                                     *)
Publish(e) ==
    /\ published[e] < MaxObjects
    /\ TrackReady(e)
    /\ Write(e)
    /\ entry' = [entry EXCEPT ![e] = "own"]
    /\ published' = [published EXCEPT ![e] = @ + 1]
    /\ UNCHANGED raised

(* quicly sends on stream k only within the peer's limit; no stream ends,  *)
(* so the limit never moves.                                               *)
Sendable(e, k) == k \in 1 .. Len(streams[e]) /\ k <= MaxStreamsUni

(* Mutant: the header is taken for the start of the first object, which is *)
(* lost with it.                                                           *)
ReceiveHeaderGreedy(e, k) ==
    LET p == Peer(e)
    IN  /\ Sendable(p, k)
        /\ streams[p][k].parsed = 0
        /\ streams' = [streams EXCEPT ![p][k].parsed = 2]
        /\ entry' = [entry EXCEPT ![e] = "incoming"]
        /\ UNCHANGED <<published, raised>>

(* parse_track_stream_messages, the alias byte: the stream becomes the     *)
(* entry's, whatever stream the entry had.                                 *)
ReceiveHeader(e, k) ==
    LET p == Peer(e)
    IN  /\ Sendable(p, k)
        /\ streams[p][k].parsed = 0
        /\ streams' = [streams EXCEPT ![p][k].parsed = 1]
        /\ entry' = [entry EXCEPT ![e] = "incoming"]
        /\ UNCHANGED <<published, raised>>

(* parse_track_stream_messages, a whole object: find_subscription_by_alias *)
(* resolves it and OBJECT is raised.                                       *)
ReceiveObject(e, k) ==
    LET p == Peer(e)
    IN  /\ Sendable(p, k)
        /\ streams[p][k].parsed \in 1 .. Len(streams[p][k].objects)
        /\ streams' = [streams EXCEPT ![p][k].parsed = @ + 1]
        /\ raised' = [raised EXCEPT
                        ![e] = Append(@, streams[p][k].objects[streams[p][k].parsed])]
        /\ UNCHANGED <<entry, published>>

Receive(e, k) == ReceiveHeader(e, k) \/ ReceiveObject(e, k)

Next == \E e \in Ends : \/ Publish(e)
                        \/ \E k \in 1 .. Len(streams[Peer(e)]) : Receive(e, k)

Spec == Init /\ [][Next]_vars

(* quicly retransmits until a stream's data has arrived, and both event    *)
(* loops run for ever; no end is obliged to publish.                       *)
FairSpec ==
    Spec /\ \A e \in Ends, k \in 1 .. MaxObjects :
                WF_vars(k \in 1 .. Len(streams[Peer(e)]) /\ Receive(e, k))
-----------------------------------------------------------------------------
Stream == [objects : Seq(Nat), parsed : Nat]

(* Type correctness of both ends and of the streams between them.          *)
TypeOK ==
    /\ entry \in [Ends -> {"null", "own", "incoming"}]
    /\ streams \in [Ends -> Seq(Stream)]
    /\ published \in [Ends -> Nat]
    /\ raised \in [Ends -> Seq(Nat)]
    /\ \A e \in Ends :
          /\ entry[e] = "own" => streams[e] # <<>>
          /\ Len(streams[e]) <= published[e]
          /\ \A k \in 1 .. Len(streams[e]) :
                /\ streams[e][k].objects # <<>>
                /\ streams[e][k].parsed <= Len(streams[e][k].objects) + 1

(* The peer's streams this end has heard of.                               *)
Heard(e) == {k \in 1 .. Len(streams[Peer(e)]) : streams[Peer(e)][k].parsed # 0}

(* Streams are a bounded resource (MaxStreamsUni) that is never given back. *)
(* Although an incoming stream displaces an end's own, an end opens a new   *)
(* one at most once per stream of the peer: one-way traffic uses one stream *)
(* and two-way traffic one for each change of direction.                   *)
OneStreamPerTurn == \A e \in Ends : Len(streams[e]) <= 1 + Cardinality(Heard(e))

(* Objects arrive in the order they were published, up to the point where  *)
(* the publisher hears of a stream of the other end.                       *)
InOrderOneWay ==
    \A e \in Ends :
        Heard(e) = {} => \A i \in 1 .. Len(raised[Peer(e)]) : raised[Peer(e)][i] = i

(* transport_is_track_ready looks at one stream only.  What an end has     *)
(* queued and the other has not parsed is bounded all the same: by the     *)
(* limit for each of its streams, displaced ones included.                 *)
BacklogBounded ==
    \A e \in Ends : \A k \in 1 .. Len(streams[e]) :
        Egress(streams[e][k]) <= EgressLimit + 2

RaisedAt(e) == {raised[e][i] : i \in 1 .. Len(raised[e])}

(* A reliable track delivers: an object that transport_publish took is     *)
(* raised at the other end.                                                *)
EventuallyRaised ==
    \A e \in Ends : \A k \in 1 .. MaxObjects :
        published[e] >= k ~> k \in RaisedAt(Peer(e))
=============================================================================
