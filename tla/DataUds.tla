------------------------------ MODULE DataUds ------------------------------
(***************************************************************************)
(* The local data socket: the daemon's data_uds.c (one thread) and the     *)
(* helper processes that connect to it, which behave like tund.c.  Every   *)
(* packet is framed as length, priority and body, written piece by piece   *)
(* into a kernel buffer of limited room; the daemon gives up after 10 ms,  *)
(* a helper blocks.  A helper that loses its connection makes a new one.   *)
(***************************************************************************)
EXTENDS Naturals, Sequences, FiniteSets, FiniteSetsExt

CONSTANTS Socks,            \* connections the helpers may make, each once
          Tracks,           \* the DATA tracks of peers and helpers
          SockTrack,        \* the one a helper registers on a connection
          MAX_UDS_CLIENTS,  \* 16 in the code
          Parts,            \* pieces a frame is written in: 3, more if the
                            \* body is split
          Room,             \* pieces a socket buffer holds
          NoSock, Garbled,
          MaxUp, MaxDown    \* bounds: packets per helper connection, packets
                            \* from the peers

ASSUME UdsAssumption ==
    /\ MAX_UDS_CLIENTS \in Nat \ {0}
    /\ Parts \in Nat \ 0 .. 2 /\ Room \in Nat \ {0}
    /\ NoSock \notin Socks
    /\ SockTrack \in [Socks -> Tracks]
    /\ MaxUp \in Nat /\ MaxDown \in Nat

VARIABLES
    helper,     \* helper's end: "none", "up", "down"
    daemon,     \* daemon's end: "none", "backlog", "open", "closed"
    reg,        \* pieces of the registration written: header, then name
    clients,    \* slot -> connection
    up, down,   \* bytes on the way to the daemon, to the helper
    upNext,     \* <<packet, piece>> the helper writes next
    downGot,    \* pieces of a frame the helper has read
    callbacks,  \* packets given to on_data_packet
    tun,        \* packets the helper handed to its TUN device
    writing,    \* the data_uds_send in progress: <<connection, piece>>
    downSent,   \* packets data_uds_send was called for
    ready,      \* tracks the transport has room for
    running     \* the daemon has not been killed

vars == <<helper, daemon, reg, clients, up, down, upNext, downGot, callbacks,
          tun, writing, downSent, ready, running>>

helperVars == <<helper, reg, upNext, downGot, tun>>
daemonVars == <<daemon, clients, callbacks, writing, downSent, running>>

Slots == 0 .. MAX_UDS_CLIENTS - 1
Idle == <<NoSock, 0>>

Init ==
    /\ helper = [k \in Socks |-> "none"]
    /\ daemon = [k \in Socks |-> "none"]
    /\ reg = [k \in Socks |-> 0]
    /\ clients = [i \in Slots |-> NoSock]
    /\ up = [k \in Socks |-> <<>>]
    /\ down = [k \in Socks |-> <<>>]
    /\ upNext = [k \in Socks |-> <<1, 1>>]
    /\ downGot = [k \in Socks |-> <<>>]
    /\ callbacks = [k \in Socks |-> <<>>]
    /\ tun = [k \in Socks |-> <<>>]
    /\ writing = Idle
    /\ downSent = 0
    /\ ready = Tracks
    /\ running = TRUE

(* Mutant: the position in the frame is not reset for the next packet.     *)
AfterNoReset(p, n) == IF n = Parts THEN <<p + 1, n + 1>> ELSE <<p, n + 1>>

(* The piece after <<p, n>>.                                               *)
After(p, n) == IF n = Parts THEN <<p + 1, 1>> ELSE <<p, n + 1>>

(* What a reader makes of the next Parts pieces.                           *)
Unframed(bytes) ==
    IF \A n \in 1 .. Parts : bytes[n] = <<bytes[1][1], n>>
    THEN bytes[1][1] ELSE Garbled

-----------------------------------------------------------------------------
(* tund.c                                                                  *)

HelperConnect(k) ==
    /\ helper[k] = "none" /\ running
    /\ \A j \in Socks : SockTrack[j] = SockTrack[k] => helper[j] # "up"
    /\ helper' = [helper EXCEPT ![k] = "up"]
    /\ daemon' = [daemon EXCEPT ![k] = "backlog"]
    /\ reg' = [reg EXCEPT ![k] = 1]
    /\ UNCHANGED <<clients, up, down, upNext, downGot, callbacks, tun, writing,
                   downSent, ready, running>>

HelperRegister(k) ==
    /\ helper[k] = "up" /\ reg[k] = 1
    /\ reg' = [reg EXCEPT ![k] = 2]
    /\ UNCHANGED <<daemonVars, helper, upNext, downGot, tun, up, down, ready>>

(* A packet from the TUN device goes out piece by piece; write blocks      *)
(* while the buffer is full, and nothing is read meanwhile.                *)
HelperWrite(k) ==
    /\ helper[k] = "up" /\ reg[k] = 2
    /\ daemon[k] # "closed"
    /\ upNext[k][1] <= MaxUp
    /\ upNext[k][2] = 1 => downGot[k] = <<>>
    /\ Len(up[k]) < Room
    /\ up' = [up EXCEPT ![k] = Append(@, upNext[k])]
    /\ upNext' = [upNext EXCEPT ![k] = After(@[1], @[2])]
    /\ UNCHANGED <<daemonVars, helper, reg, downGot, tun, down, ready>>

(* read_exact: blocks inside a frame; a whole one is handed to TUN.        *)
HelperRead(k) ==
    LET got == Append(downGot[k], Head(down[k]))
    IN  /\ helper[k] = "up" /\ reg[k] = 2
        /\ upNext[k][2] = 1
        /\ down[k] # <<>>
        /\ down' = [down EXCEPT ![k] = Tail(@)]
        /\ IF Len(got) < Parts
           THEN /\ downGot' = [downGot EXCEPT ![k] = got]
                /\ UNCHANGED tun
           ELSE /\ downGot' = [downGot EXCEPT ![k] = <<>>]
                /\ tun' = [tun EXCEPT ![k] = Append(@, Unframed(got))]
        /\ UNCHANGED <<daemonVars, helper, reg, upNext, up, ready>>

(* The helper exits, or finds the daemon's end closed.                     *)
HelperClose(k) ==
    /\ helper[k] = "up"
    /\ helper' = [helper EXCEPT ![k] = "down"]
    /\ UNCHANGED <<daemonVars, reg, upNext, downGot, tun, up, down, ready>>

-----------------------------------------------------------------------------
(* data_uds.c: nothing else happens in the daemon while a send blocks.     *)

FreeSlots == {i \in Slots : clients[i] = NoSock}

(* Mutant: without a free slot the connection is left open.                *)
AcceptLeak(k) ==
    /\ running /\ writing = Idle
    /\ daemon[k] = "backlog"
    /\ daemon' = [daemon EXCEPT ![k] = IF reg[k] = 2 THEN "open" ELSE "closed"]
    /\ clients' = IF reg[k] = 2 /\ FreeSlots # {}
                  THEN [clients EXCEPT ![Min(FreeSlots)] = k]
                  ELSE clients
    /\ UNCHANGED <<helperVars, up, down, callbacks, writing, downSent, ready,
                   running>>

(* data_uds_tick, the listener: the registration must be here within 10 ms *)
(* and a slot must be free.                                                *)
Accept(k) ==
    /\ running /\ writing = Idle
    /\ daemon[k] = "backlog"
    /\ IF reg[k] = 2 /\ FreeSlots # {}
       THEN /\ daemon' = [daemon EXCEPT ![k] = "open"]
            /\ clients' = [clients EXCEPT ![Min(FreeSlots)] = k]
       ELSE /\ daemon' = [daemon EXCEPT ![k] = "closed"]
            /\ UNCHANGED clients
    /\ UNCHANGED <<helperVars, up, down, callbacks, writing, downSent, ready,
                   running>>

(* Mutant: after a timeout the connection is kept.                         *)
ReadFrameKeep(i) ==
    LET k == clients[i]
        n == Min({Parts, Len(up[k])})
        frame == SubSeq(up[k], 1, n)
    IN  /\ up' = [up EXCEPT ![k] = SubSeq(@, n + 1, Len(@))]
        /\ callbacks' = IF n = Parts
                        THEN [callbacks EXCEPT ![k] = Append(@, Unframed(frame))]
                        ELSE callbacks
        /\ UNCHANGED <<clients, daemon>>

(* One frame of a client: if it is not all there within 10 ms, or the      *)
(* helper hung up, the client is dropped.                                  *)
ReadFrame(i) ==
    LET k == clients[i]
        frame == SubSeq(up[k], 1, Parts)
    IN  IF Len(up[k]) >= Parts
        THEN /\ callbacks' = [callbacks EXCEPT ![k] = Append(@, Unframed(frame))]
             /\ up' = [up EXCEPT ![k] = SubSeq(@, Parts + 1, Len(@))]
             /\ UNCHANGED <<clients, daemon>>
        ELSE /\ clients' = [clients EXCEPT ![i] = NoSock]
             /\ daemon' = [daemon EXCEPT ![k] = "closed"]
             /\ UNCHANGED <<callbacks, up>>

(* Mutant: a client whose bytes are used up is not looked at.              *)
ReadableBytes(k) == SockTrack[k] \in ready /\ up[k] # <<>>

(* poll reports POLLIN only for tracks that are ready.                     *)
Readable(k) == SockTrack[k] \in ready /\ (up[k] # <<>> \/ helper[k] = "down")

(* data_uds_tick, a client.                                                *)
ReadClient(i) ==
    /\ running /\ writing = Idle
    /\ clients[i] # NoSock
    /\ Readable(clients[i])
    /\ ReadFrame(i)
    /\ UNCHANGED <<helperVars, down, writing, downSent, ready, running>>

(* data_uds_send: the first client of the track, else of any DATA track.   *)
Targets(t) ==
    LET exact == {i \in Slots : clients[i] # NoSock /\ SockTrack[clients[i]] = t}
    IN  IF exact # {} THEN exact ELSE Slots \ FreeSlots

SendStart(t) ==
    /\ running /\ writing = Idle
    /\ downSent < MaxDown
    /\ Targets(t) # {}
    /\ downSent' = downSent + 1
    /\ writing' = <<clients[Min(Targets(t))], 1>>
    /\ UNCHANGED <<helperVars, daemon, clients, callbacks, running, up, down,
                   ready>>

(* write_exact_timeout puts the next piece in the buffer; to a helper that *)
(* is gone, it raises SIGPIPE, which nobody handles.                       *)
SendPiece ==
    LET k == writing[1]
        n == writing[2]
    IN  /\ running /\ writing # Idle
        /\ IF helper[k] = "down"
           THEN /\ running' = FALSE
                /\ UNCHANGED <<writing, down>>
           ELSE /\ Len(down[k]) < Room
                /\ down' = [down EXCEPT ![k] = Append(@, <<downSent, n>>)]
                /\ writing' = IF n = Parts THEN Idle ELSE <<k, n + 1>>
                /\ UNCHANGED running
        /\ UNCHANGED <<helperVars, daemon, clients, callbacks, downSent, up,
                       ready>>

(* The buffer stays full for 10 ms: data_uds_send returns false.           *)
SendTimeout ==
    /\ running /\ writing # Idle
    /\ helper[writing[1]] = "up"
    /\ Len(down[writing[1]]) = Room
    /\ writing' = Idle
    /\ UNCHANGED <<helperVars, daemon, clients, callbacks, downSent, running,
                   up, down, ready>>

(* on_is_track_ready: congestion builds up and goes away.                  *)
TrackBlocked(t) ==
    /\ t \in ready
    /\ ready' = ready \ {t}
    /\ UNCHANGED <<helperVars, daemonVars, up, down>>

TrackReady(t) ==
    /\ t \in Tracks \ ready
    /\ ready' = ready \cup {t}
    /\ UNCHANGED <<helperVars, daemonVars, up, down>>

Next ==
    \/ \E k \in Socks :
          \/ HelperConnect(k) \/ HelperRegister(k) \/ HelperWrite(k)
          \/ HelperRead(k) \/ HelperClose(k) \/ Accept(k)
    \/ \E i \in Slots : ReadClient(i)
    \/ SendPiece \/ SendTimeout
    \/ \E t \in Tracks : SendStart(t) \/ TrackBlocked(t) \/ TrackReady(t)

Spec == Init /\ [][Next]_vars

(* The loop of main calls data_uds_tick for ever, so a client that is      *)
(* readable again and again is read, and sends end.  Nothing makes a track *)
(* ready: transport_is_track_ready may stay false for ever.                *)
FairSpec ==
    /\ Spec
    /\ \A i \in Slots : SF_vars(ReadClient(i))
    /\ WF_vars(SendPiece \/ SendTimeout)

-----------------------------------------------------------------------------
Piece == Nat \X (1 .. Parts)

(* Type correctness of both ends and of the bytes between them.            *)
TypeOK ==
    /\ helper \in [Socks -> {"none", "up", "down"}]
    /\ daemon \in [Socks -> {"none", "backlog", "open", "closed"}]
    /\ reg \in [Socks -> 0 .. 2]
    /\ clients \in [Slots -> Socks \cup {NoSock}]
    /\ up \in [Socks -> Seq(Piece)]
    /\ down \in [Socks -> Seq(Piece)]
    /\ upNext \in [Socks -> Piece]
    /\ downGot \in [Socks -> Seq(Piece)]
    /\ callbacks \in [Socks -> Seq(Nat \cup {Garbled})]
    /\ tun \in [Socks -> Seq(Nat \cup {Garbled})]
    /\ writing \in (Socks \X (1 .. Parts)) \cup {Idle}
    /\ downSent \in Nat
    /\ ready \subseteq Tracks
    /\ running \in BOOLEAN

(* What reaches the transport are the helper's packets, whole, in order    *)
(* and without a gap, however slowly the helper writes and whenever it     *)
(* stops.                                                                  *)
UpstreamInOrder ==
    \A k \in Socks : \A n \in DOMAIN callbacks[k] : callbacks[k][n] = n

(* The client table holds exactly the connections that are open: no slot   *)
(* refers to a closed descriptor, no descriptor is open without a slot.    *)
SlotsMatchDescriptors ==
    /\ \A k \in Socks :
          daemon[k] = "open" <=> \E i \in Slots : clients[i] = k
    /\ \A i, j \in Slots : clients[i] = clients[j] /\ clients[i] # NoSock => i = j

(* "write a length-prefixed data block with priority to the connected UDS  *)
(* client" (data_uds.h): what a helper reads are the blocks written.       *)
DownstreamFramed ==
    \A k \in Socks : \A n \in DOMAIN tun[k] : tun[k][n] # Garbled

(* The slot of a helper that hung up becomes free again, as long as the    *)
(* daemon lives and provided its track is ready again and again, however   *)
(* briefly and however often it is congested in between: a client whose    *)
(* track is not ready is not polled, and its hang-up goes unseen.          *)
SlotReclaimed ==
    \A k \in Socks :
        []<>(SockTrack[k] \in ready)
            => ((daemon[k] = "open" /\ helper[k] = "down")
                   ~> (daemon[k] = "closed" \/ ~running))
=============================================================================
