------------------------------ MODULE Session ------------------------------
(***************************************************************************)
(* The control plane between a listening daemon and the daemons that dial  *)
(* it: authentication, subscriptions and reliable objects.  Each connection *)
(* has one control stream (FIFO both ways); reliable objects travel on     *)
(* streams of their own, in no order relative to it.                       *)
(***************************************************************************)
EXTENDS Subscriptions

CONSTANTS Clients,
          GoodToken,      \* the clients whose token the server accepts
          ServerTracks,   \* --track lists, in order
          ClientTracks,
          MaxQueue,       \* bound: messages waiting when a publish queues one
          MaxObjects      \* bound: objects in flight when a publish adds one

ASSUME SessionAssumption ==
    /\ GoodToken \subseteq Clients
    /\ ServerTracks \in Seq(Tracks) /\ ClientTracks \in Seq(Tracks)
    /\ Cardinality(ToSet(ServerTracks) \cup ToSet(ClientTracks)) <= TableSize
    /\ Len(ServerTracks) + Len(ClientTracks) <= 247   \* at most 15 each in the code
    /\ MaxQueue \in Nat /\ MaxObjects \in Nat

VARIABLES
    srv,        \* the server's transport_conn_t of each client
    cli,        \* each client's client_conn
    c2s, s2c,   \* control stream contents on the way
    c2sObjects, \* reliable objects on track streams: alias written, track
    s2cObjects, \* published on
    accepted    \* clients the server raised an OBJECT event for

vars == <<srv, cli, c2s, s2c, c2sObjects, s2cObjects, accepted>>

Init ==
    /\ srv = [c \in Clients |-> [phase |-> "none", stream |-> FALSE,
                                 authenticated |-> FALSE, subs |-> <<>>]]
    /\ cli = [c \in Clients |-> [phase |-> "connecting",
                                 authenticated |-> FALSE, subs |-> <<>>]]
    /\ c2s = [c \in Clients |-> <<>>]
    /\ s2c = [c \in Clients |-> <<>>]
    /\ c2sObjects = [c \in Clients |-> {}]
    /\ s2cObjects = [c \in Clients |-> {}]
    /\ accepted = {}

(* The handshake completes; TRANSPORT_EVENT_CONNECTED makes the client send *)
(* its token.                                                              *)
Connected(c) ==
    /\ cli[c].phase = "connecting"
    /\ cli' = [cli EXCEPT ![c].phase = "ready"]
    /\ srv' = [srv EXCEPT ![c].phase = "open"]
    /\ c2s' = [c2s EXCEPT ![c] = Append(@, [type |-> "auth", ok |-> c \in GoodToken])]
    /\ UNCHANGED <<s2c, c2sObjects, s2cObjects, accepted>>

(* The first bytes of the control stream reach the server, short of a whole *)
(* message: on_stream_open makes it the connection's stream.               *)
StreamOpened(c) ==
    /\ srv[c].phase = "open"
    /\ ~srv[c].stream
    /\ c2s[c] # <<>>
    /\ srv' = [srv EXCEPT ![c].stream = TRUE]
    /\ UNCHANGED <<cli, c2s, s2c, c2sObjects, s2cObjects, accepted>>

-----------------------------------------------------------------------------
(* parse_control_messages on the server, with the daemon's callback.       *)

(* Mutant: the answer is sent but `authenticated` is not set.              *)
ServerAuthOkReplyOnly(c) ==
    /\ srv' = [srv EXCEPT ![c].stream = TRUE]
    /\ s2c' = [s2c EXCEPT ![c] = Append(@, [type |-> "auth_ok"])]
    /\ UNCHANGED accepted

(* TRANSPORT_EVENT_AUTH with a good token: the server subscribes to its    *)
(* tracks on every connection that has a control stream, authenticated or  *)
(* not, then answers.                                                      *)
ServerAuthOk(c) ==
    LET open  == {c} \cup {d \in Clients : srv[d].phase = "open" /\ srv[d].stream}
        table == [d \in open |-> SubscribeAll(srv[d].subs, ServerTracks)]
        reply == <<[type |-> "auth_ok"]>>
    IN  /\ srv' = [d \in Clients |->
                     IF d \notin open THEN srv[d]
                     ELSE [srv[d] EXCEPT !.subs = table[d], !.stream = TRUE,
                                         !.authenticated = @ \/ d = c]]
        /\ s2c' = [d \in Clients |->
                     IF d \notin open THEN s2c[d]
                     ELSE s2c[d] \o SubscribeMessages(table[d], ServerTracks)
                                 \o (IF d = c THEN reply ELSE <<>>)]
        /\ UNCHANGED accepted

(* quicly_close: what was written and not yet sent is never sent (quicly is *)
(* external), the refusal of a token included.                             *)
ServerClose(c) ==
    /\ srv' = [srv EXCEPT ![c].phase = "closed", ![c].stream = TRUE]
    /\ UNCHANGED <<s2c, accepted>>

(* Mutant: a unicast object is raised without looking at `authenticated`.  *)
ServerUnicastUnchecked(c) ==
    /\ srv' = [srv EXCEPT ![c].stream = TRUE]
    /\ accepted' = accepted \cup {c}
    /\ UNCHANGED s2c

ServerUnicast(c) ==
    IF srv[c].authenticated
    THEN /\ accepted' = accepted \cup {c}
         /\ UNCHANGED <<srv, s2c>>
    ELSE ServerClose(c)

(* Mutant: the server keeps its own table only.                            *)
ServerSubscribeUnheard(c, m) ==
    IF srv[c].authenticated THEN UNCHANGED <<srv, s2c, accepted>> ELSE ServerClose(c)

ServerSubscribe(c, m) ==
    IF srv[c].authenticated
    THEN /\ srv' = [srv EXCEPT ![c].subs = AddSubscription(@, m.track, m.alias)]
         /\ UNCHANGED <<s2c, accepted>>
    ELSE ServerClose(c)

ServerReceive(c) ==
    /\ srv[c].phase = "open"
    /\ c2s[c] # <<>>
    /\ LET m == Head(c2s[c])
       IN  \/ m.type = "auth" /\ m.ok /\ ServerAuthOk(c)
           \/ m.type = "auth" /\ ~m.ok /\ ServerClose(c)
           \/ m.type = "unicast" /\ ServerUnicast(c)
           \/ m.type = "subscribe" /\ ServerSubscribe(c, m)
    /\ c2s' = [c2s EXCEPT ![c] = Tail(@)]
    /\ UNCHANGED <<cli, c2sObjects, s2cObjects>>

-----------------------------------------------------------------------------
(* parse_control_messages on a client, with the daemon's callback.         *)
ClientReceive(c) ==
    /\ cli[c].phase = "ready"
    /\ s2c[c] # <<>>
    /\ LET m == Head(s2c[c])
       IN  \/ /\ m.type = "subscribe"
              /\ cli' = [cli EXCEPT ![c].subs = AddSubscription(@, m.track, m.alias)]
              /\ UNCHANGED c2s
           \/ /\ m.type = "auth_ok"
              /\ LET table == SubscribeAll(cli[c].subs, ClientTracks)
                 IN  /\ cli' = [cli EXCEPT ![c].authenticated = TRUE,
                                           ![c].subs = table]
                     /\ c2s' = [c2s EXCEPT ![c] =
                                   @ \o SubscribeMessages(table, ClientTracks)]
           \/ /\ m.type = "unicast"
              /\ UNCHANGED <<cli, c2s>>
    /\ s2c' = [s2c EXCEPT ![c] = Tail(@)]
    /\ UNCHANGED <<srv, c2sObjects, s2cObjects, accepted>>

-----------------------------------------------------------------------------
(* The reliable branch of transport_publish: an entry's own stream, or the *)
(* control stream when there is no entry.  What is published to an end     *)
(* that is gone reaches nobody and is left out.                            *)
StreamObject(table, t) == [alias |-> table[SlotOf(table, t)].alias, track |-> t]

ClientPublish(c, t) ==
    /\ cli[c].phase # "closed" /\ srv[c].phase # "closed"
    /\ \/ /\ HasTrack(cli[c].subs, t)
          /\ Cardinality(c2sObjects[c]) < MaxObjects
          /\ c2sObjects' = [c2sObjects EXCEPT ![c] =
                               @ \cup {StreamObject(cli[c].subs, t)}]
          /\ UNCHANGED c2s
       \/ /\ ~HasTrack(cli[c].subs, t)
          /\ Len(c2s[c]) < MaxQueue
          /\ c2s' = [c2s EXCEPT ![c] = Append(@, [type |-> "unicast", track |-> t])]
          /\ UNCHANGED c2sObjects
    /\ UNCHANGED <<srv, cli, s2c, s2cObjects, accepted>>

(* The server publishes to every connection that is subscribed; the unnamed *)
(* track always is.                                                        *)
ServerPublish(t) ==
    LET open    == {c \in Clients : /\ srv[c].phase = "open" /\ cli[c].phase # "closed"
                                    /\ IsSubscribed(srv[c].subs, t)}
        streams == {c \in open : HasTrack(srv[c].subs, t)}
        unicast == {c \in open \ streams : srv[c].stream}
    IN  /\ \A c \in streams : Cardinality(s2cObjects[c]) < MaxObjects
        /\ \A c \in unicast : Len(s2c[c]) < MaxQueue
        /\ s2cObjects' = [c \in Clients |->
                             IF c \in streams
                             THEN s2cObjects[c] \cup {StreamObject(srv[c].subs, t)}
                             ELSE s2cObjects[c]]
        /\ s2c' = [c \in Clients |->
                      IF c \in unicast
                      THEN Append(s2c[c], [type |-> "unicast", track |-> t])
                      ELSE s2c[c]]
        /\ UNCHANGED <<srv, cli, c2s, c2sObjects, accepted>>

(* parse_track_stream_messages; an object whose alias does not resolve is  *)
(* dropped.                                                                *)
ServerReceiveObject(c) ==
    \E m \in c2sObjects[c] :
        /\ srv[c].phase = "open"
        /\ c2sObjects' = [c2sObjects EXCEPT ![c] = @ \ {m}]
        /\ IF ~srv[c].authenticated
           THEN ServerClose(c)
           ELSE /\ accepted' = IF FindTrack(srv[c].subs, m.alias) = NoTrack
                               THEN accepted ELSE accepted \cup {c}
                /\ UNCHANGED <<srv, s2c>>
        /\ UNCHANGED <<cli, c2s, s2cObjects>>

ClientReceiveObject(c) ==
    \E m \in s2cObjects[c] :
        /\ cli[c].phase = "ready"
        /\ s2cObjects' = [s2cObjects EXCEPT ![c] = @ \ {m}]
        /\ UNCHANGED <<srv, cli, c2s, s2c, c2sObjects, accepted>>

-----------------------------------------------------------------------------
(* The connection is freed on the client (CONNECTION_CLOSE from the server *)
(* or an idle timeout); client_conn stays NULL for good.                   *)
ClientFreed(c) ==
    /\ cli[c].phase = "ready"
    /\ cli' = [cli EXCEPT ![c].phase = "closed"]
    /\ UNCHANGED <<srv, c2s, s2c, c2sObjects, s2cObjects, accepted>>

ClientSeesClose(c) == srv[c].phase = "closed" /\ ClientFreed(c)

(* An idle timeout on the server.                                          *)
ServerFreed(c) ==
    /\ srv[c].phase = "open"
    /\ srv' = [srv EXCEPT ![c].phase = "closed"]
    /\ UNCHANGED <<cli, c2s, s2c, c2sObjects, s2cObjects, accepted>>

Next ==
    \/ \E c \in Clients :
          \/ Connected(c) \/ StreamOpened(c)
          \/ ServerReceive(c) \/ ClientReceive(c)
          \/ ServerReceiveObject(c) \/ ClientReceiveObject(c)
          \/ ClientFreed(c) \/ ServerFreed(c)
    \/ \E c \in Clients, t \in Tracks : ClientPublish(c, t)
    \/ \E t \in Tracks : ServerPublish(t)

Spec == Init /\ [][Next]_vars

(* Streams are reliable and both event loops run for ever.                 *)
FairSpec ==
    /\ Spec
    /\ \A c \in Clients : /\ WF_vars(ServerReceive(c))
                          /\ WF_vars(ClientReceive(c))
                          /\ WF_vars(ClientSeesClose(c))
-----------------------------------------------------------------------------
Message ==
    [type : {"auth"}, ok : BOOLEAN] \cup [type : {"auth_ok"}]
    \cup [type : {"unicast"}, track : Tracks]
    \cup [type : {"subscribe"}, track : Tracks, alias : Aliases]

(* Type correctness of both ends and of the streams between them.          *)
TypeOK ==
    /\ srv \in [Clients -> [phase : {"none", "open", "closed"}, stream : BOOLEAN,
                            authenticated : BOOLEAN, subs : Seq(Entry)]]
    /\ cli \in [Clients -> [phase : {"connecting", "ready", "closed"},
                            authenticated : BOOLEAN, subs : Seq(Entry)]]
    /\ \A c \in Clients : Len(srv[c].subs) <= TableSize /\ Len(cli[c].subs) <= TableSize
    /\ c2s \in [Clients -> Seq(Message)]
    /\ s2c \in [Clients -> Seq(Message)]
    /\ c2sObjects \in [Clients -> SUBSET [alias : Aliases, track : Tracks]]
    /\ s2cObjects \in [Clients -> SUBSET [alias : Aliases, track : Tracks]]
    /\ accepted \subseteq Clients

(* The server raises objects only for clients whose token it accepted,     *)
(* whatever they send before their token has been looked at.               *)
AcceptedOnlyAuthorized == accepted \subseteq GoodToken

(* A client that believes it is authenticated is: the server accepted its  *)
(* token on this very connection.                                          *)
AuthAgreement == \A c \in Clients : cli[c].authenticated => srv[c].authenticated

(* The two tables of a connection never disagree about a track they share, *)
(* and never use one alias for two tracks, although both ends allocate     *)
(* aliases on their own.                                                   *)
AliasAgreement ==
    \A c \in Clients :
        \A i \in 1 .. Len(srv[c].subs), j \in 1 .. Len(cli[c].subs) :
            srv[c].subs[i].track = cli[c].subs[j].track
                <=> srv[c].subs[i].alias = cli[c].subs[j].alias

(* A reliable object in flight will be raised under the track it was       *)
(* published on or dropped, never under another; and it is not dropped by  *)
(* an end that subscribed to the track itself.                             *)
ObjectsResolve ==
    \A c \in Clients :
        /\ \A m \in c2sObjects[c] :
              /\ FindTrack(srv[c].subs, m.alias) \in {m.track, NoTrack}
              /\ srv[c].authenticated /\ m.track \in ToSet(ServerTracks)
                    => FindTrack(srv[c].subs, m.alias) = m.track
        /\ \A m \in s2cObjects[c] :
              /\ FindTrack(cli[c].subs, m.alias) \in {m.track, NoTrack}
              /\ cli[c].authenticated /\ m.track \in ToSet(ClientTracks)
                    => FindTrack(cli[c].subs, m.alias) = m.track

(* What transport.h says of transport_publish: "publish an object to all   *)
(* subscribers of a track".  What it sends to the server is for a track the *)
(* server subscribed to.                                                   *)
PublishedToSubscribers ==
    \A c \in Clients : \A k \in DOMAIN c2s[c] :
        c2s[c][k].type = "unicast"
            => srv[c].authenticated /\ c2s[c][k].track \in ToSet(ServerTracks)

(* An authenticated connection ends up with every track of both daemons    *)
(* known at both ends, unless it is closed.                                *)
Meshed(c) ==
    \A t \in ToSet(ServerTracks) \cup ToSet(ClientTracks) :
        IsSubscribed(srv[c].subs, t) /\ IsSubscribed(cli[c].subs, t)

EventuallyMeshed ==
    \A c \in Clients :
        cli[c].phase = "ready"
            ~> Meshed(c) \/ cli[c].phase = "closed"
=============================================================================
