------------------------------- MODULE Links -------------------------------
(***************************************************************************)
(* The sockets of a transport, one per local address: bound as configured, *)
(* then opened and closed by transport_tick as the interface monitor's     *)
(* thread reports addresses through a pipe that never blocks.              *)
(***************************************************************************)
EXTENDS IfMon, Sequences, SequencesExt, FiniteSetsExt

CONSTANTS Table,        \* the kernel's tables when the transport is created
          BindHosts,    \* config->bind_hosts
          V4,           \* the IPv4 addresses among Ips and BindHosts
          HostByte,     \* the last byte of each of those
          PipeRoom,     \* messages the pipe holds
          TRANSPORT_MAX_PATHS,
          Closed        \* no socket behind a descriptor

ASSUME LinksAssumption ==
    /\ PipeRoom \in Nat
    /\ TRANSPORT_MAX_PATHS \in Nat \ {0}
    /\ BindHosts \in Seq(ToSet(BindHosts))
    /\ Len(BindHosts) \in 1 .. TRANSPORT_MAX_PATHS
    /\ Closed \notin Ips \cup ToSet(BindHosts)
    /\ Table \in [Ifaces -> [up : BOOLEAN, addrs : SUBSET Addr]]

VARIABLES
    out,           \* messages the callback has still to write
    pipe,          \* ifmon_pipe
    fds, local_addrs, num_fds,
    sockets,       \* the kernel: the address each descriptor is bound to
    diverged       \* history: addresses whose links stopped following

linkVars == <<fds, local_addrs, num_fds, sockets>>
vars == <<ifmonVars, out, pipe, linkVars, diverged>>

Slots == 0 .. TRANSPORT_MAX_PATHS - 1

Descriptors == 0 .. TRANSPORT_MAX_PATHS

Init ==
    /\ IfMonInit(Table)
    /\ out = <<>>
    /\ pipe = <<>>
    /\ num_fds = Len(BindHosts)
    /\ fds = [k \in Slots |-> IF k < num_fds THEN k ELSE 0]
    /\ local_addrs = [k \in Slots |-> IF k < num_fds THEN BindHosts[k + 1] ELSE Closed]
    /\ sockets = [d \in Descriptors |-> IF d < num_fds THEN BindHosts[d + 1] ELSE Closed]
    /\ diverged = {}

-----------------------------------------------------------------------------
(* How often an address is in a list, and among the links.                 *)
Entries(list, ip) ==
    Cardinality({e \in (DOMAIN list) \X Addr : e[2] \in list[e[1]] /\ e[2].ip = ip})

LinksWith(ip) == Cardinality({k \in Slots : k < num_fds /\ local_addrs[k] = ip})

Pending(added, ip) ==
    LET q == pipe \o out
    IN  Cardinality({k \in DOMAIN q : q[k].added = added /\ q[k].ip = ip})

(* The initial snapshot is ignored: its addresses have a link only where   *)
(* the configuration bound one.                                            *)
StartWatching ==
    /\ OpenEventSocket
    /\ diverged' = {ip \in Ips : LinksWith(ip) # Entries(prev_list, ip)}
    /\ UNCHANGED <<out, pipe, linkVars>>

Messages(added, addrs) ==
    LET s == SetToSeq(addrs)
    IN  [k \in 1 .. Len(s) |-> [added |-> added, ip |-> s[k].ip]]

(* on_ifmon_update: what it writes, in order.  Nothing is written for an   *)
(* interface that is gone.                                                 *)
UpdateMessages(up) ==
    LET new == SetToSeq(up.added)
        mod == SetToSeq(DOMAIN up.modified)
    IN  FlattenSeq([k \in 1 .. Len(new) |-> Messages(TRUE, curr_list[new[k]])])
        \o FlattenSeq([k \in 1 .. Len(mod) |->
                          Messages(TRUE, up.modified[mod[k]].added)
                          \o Messages(FALSE, up.modified[mod[k]].removed)])

OnIfmonUpdate ==
    LET up == GenerateUpdate(prev_list, curr_list)
    IN  /\ Report
        /\ out' = UpdateMessages(up)
        /\ diverged' = diverged \cup
              {ip \in Ips : \E i \in up.removed : \E a \in prev_list[i] : a.ip = ip}
        /\ UNCHANGED <<pipe, linkVars>>

(* One write of the callback; when the pipe is full the message is gone.   *)
WritePipe ==
    /\ out # <<>>
    /\ out' = Tail(out)
    /\ \/ /\ Len(pipe) < PipeRoom
          /\ pipe' = Append(pipe, Head(out))
          /\ UNCHANGED diverged
       \/ /\ Len(pipe) >= PipeRoom
          /\ diverged' = diverged \cup {Head(out).ip}
          /\ UNCHANGED pipe
    /\ UNCHANGED <<ifmonVars, linkVars>>

-----------------------------------------------------------------------------
(* "matches the client/server side of the initially bound IP address":     *)
(* local_addrs[0], whatever is there by now.                               *)
OnOurSide(ip) ==
    ip \in V4 /\ local_addrs[0] \in V4 => HostByte[ip] = HostByte[local_addrs[0]]

(* bind can only succeed while the address is up somewhere (kernel); it    *)
(* may fail even then, as for a tentative or a link-local IPv6 address.    *)
Bindable(ip) == \E i \in Ifaces : os[i].up /\ \E a \in os[i].addrs : a.ip = ip

(* socket takes the lowest free descriptor; without bind it is closed      *)
(* again.                                                                  *)
OpenLink(ip) ==
    LET fd == Min({d \in Descriptors : sockets[d] = Closed})
    IN  \/ /\ Bindable(ip)
           /\ sockets' = [sockets EXCEPT ![fd] = ip]
           /\ fds' = [fds EXCEPT ![num_fds] = fd]
           /\ local_addrs' = [local_addrs EXCEPT ![num_fds] = ip]
           /\ num_fds' = num_fds + 1
        \/ UNCHANGED linkVars

(* Mutant: the limit is not looked at.                                     *)
TickAddedNoLimit(ip) ==
    /\ IF OnOurSide(ip) THEN OpenLink(ip) ELSE UNCHANGED linkVars
    /\ diverged' = IF num_fds' = num_fds THEN diverged \cup {ip} ELSE diverged

(* An address was added; a client also opens a QUIC path from it (quicly). *)
TickAdded(ip) ==
    /\ IF num_fds < TRANSPORT_MAX_PATHS /\ OnOurSide(ip)
       THEN OpenLink(ip)
       ELSE UNCHANGED linkVars
    /\ diverged' = IF num_fds' = num_fds THEN diverged \cup {ip} ELSE diverged

(* Mutant: the descriptors are not moved up with the addresses.            *)
CloseLinkAddrsOnly(i) ==
    LET up(array) == [k \in Slots |-> IF k \in i .. num_fds - 2
                                      THEN array[k + 1] ELSE array[k]]
    IN  /\ sockets' = [sockets EXCEPT ![fds[i]] = Closed]
        /\ local_addrs' = up(local_addrs)
        /\ num_fds' = num_fds - 1
        /\ UNCHANGED fds

(* The arrays close up over slot i; what was in the last slot stays there. *)
CloseLink(i) ==
    LET up(array) == [k \in Slots |-> IF k \in i .. num_fds - 2
                                      THEN array[k + 1] ELSE array[k]]
    IN  /\ sockets' = [sockets EXCEPT ![fds[i]] = Closed]
        /\ fds' = up(fds)
        /\ local_addrs' = up(local_addrs)
        /\ num_fds' = num_fds - 1

LinkSlots(ip) == {k \in Slots : k < num_fds /\ local_addrs[k] = ip}

(* An address was removed: the first link that has it is closed.           *)
TickRemoved(ip) ==
    /\ IF LinkSlots(ip) # {} THEN CloseLink(Min(LinkSlots(ip))) ELSE UNCHANGED linkVars
    /\ UNCHANGED diverged

(* transport_tick reads a message.                                         *)
Tick ==
    /\ pipe # <<>>
    /\ pipe' = Tail(pipe)
    /\ LET m == Head(pipe)
       IN  \/ m.added /\ TickAdded(m.ip)
           \/ ~m.added /\ TickRemoved(m.ip)
    /\ UNCHANGED <<ifmonVars, out>>

(* Mutant: the link is not looked for.                                     *)
OutFdFirst(src) == fds[0]

(* The descriptor a datagram with source address src is sent on: its       *)
(* link's, else that of slot 0, whatever is there.                         *)
OutFd(src) == IF LinkSlots(src) # {} THEN fds[Min(LinkSlots(src))] ELSE fds[0]

-----------------------------------------------------------------------------
(* The callback writes all its messages before the thread polls again.     *)
Watcher ==
    \/ WritePipe
    \/ /\ out = <<>>
       /\ \/ OnIfmonUpdate \/ StartWatching
          \/ /\ Drain \/ DumpLinks \/ DumpAddrs \/ ListFails \/ FirstList
             /\ UNCHANGED <<out, pipe, linkVars, diverged>>

Kernel ==
    /\ Change
    /\ UNCHANGED <<out, pipe, linkVars, diverged>>

Next == Kernel \/ Watcher \/ Tick

Spec == Init /\ [][Next]_vars

(* The thread and the daemon's loop both run for ever.                     *)
FairSpec == Spec /\ WF_vars(Watcher) /\ WF_vars(Tick)
-----------------------------------------------------------------------------
List == UNION {[ifs -> SUBSET Addr] : ifs \in SUBSET Ifaces}

Message == [added : BOOLEAN, ip : Ips]

(* Type correctness of the monitor, the pipe and the link arrays.          *)
TypeOK ==
    /\ os \in [Ifaces -> [up : BOOLEAN, addrs : SUBSET Addr]]
    /\ watch \in {"poll", "dump_links", "dump_addrs", "compare", "open"}
    /\ prev_list \in List /\ curr_list \in List
    /\ out \in Seq(Message) /\ pipe \in Seq(Message) /\ Len(pipe) <= PipeRoom
    /\ num_fds \in 0 .. TRANSPORT_MAX_PATHS
    /\ fds \in [Slots -> Descriptors]
    /\ local_addrs \in [Slots -> Ips \cup ToSet(BindHosts) \cup {Closed}]
    /\ sockets \in [Descriptors -> Ips \cup ToSet(BindHosts) \cup {Closed}]
    /\ diverged \subseteq Ips

(* The link arrays and the kernel agree whatever comes and goes in between: *)
(* every link has an open socket of its own, bound to the address the      *)
(* array says, and the transport has no other socket open.                 *)
LinksMatchSockets ==
    LET links == {k \in Slots : k < num_fds}
    IN  /\ \A k \in links : sockets[fds[k]] = local_addrs[k]
        /\ \A j, k \in links : fds[j] = fds[k] => j = k
        /\ {d \in Descriptors : sockets[d] # Closed} = {fds[k] : k \in links}

(* As long as a link is left, every datagram goes out of an open socket of *)
(* the transport: the one bound to its source address, and the first link's *)
(* when that link was closed while quicly still uses the address.          *)
SendsOnOpenSocket ==
    num_fds > 0 => \A src \in Ips :
        sockets[OutFd(src)] = IF LinkSlots(src) # {} THEN src ELSE local_addrs[0]

(* What is in the pipe is exactly the difference between the links and the *)
(* list the monitor keeps, also when an address changes its prefix or      *)
(* moves to another interface.  The only addresses that may fall out of    *)
(* step: those not bound at the start, those of an interface that          *)
(* vanished, and those a full pipe, the limit, the side test or bind       *)
(* turned away.                                                            *)
Mirrored ==
    \A ip \in Ips \ diverged :
        opened => LinksWith(ip) + Pending(TRUE, ip)
                    = Entries(prev_list, ip) + Pending(FALSE, ip)

(* Once the interfaces stop changing, the links are those of the addresses *)
(* that are up: no change is missed between emptying the announcements and *)
(* reading the tables.  It takes one announcement after start-up or after  *)
(* a list that failed.                                                     *)
LinksFollow ==
    <>[](~blind => \A ip \in Ips \ diverged :
            LinksWith(ip) = Entries([i \in Listed |-> os[i].addrs], ip))
=============================================================================
